------------------------- MODULE ProcessingPipeline -------------------------
(***************************************************************************)
(* A Telegram message from the queue to the operator's question: the row   *)
(* of processing_jobs, the three workers that hand it on (Stage 1 in the   *)
(* classifier, the reply-chain snapshot in the listener, Stage 2 and the   *)
(* persistence of a relevant question in the classifier), the retention    *)
(* job and the removal of a chat.                                          *)
(*                                                                         *)
(* A worker claims a job, runs its handler in a savepoint and records the  *)
(* outcome in ONE transaction.  Nobody sees what it wrote before it        *)
(* commits, only the row lock: a transaction is kept in tx[w], and the     *)
(* tables change when it commits.  An abort (kill, cancellation, a lost    *)
(* connection) leaves the row as it was, its attempt not counted.          *)
(***************************************************************************)
EXTENDS Naturals, FiniteSets

CONSTANTS
  Message,         \* (telegram_chat_id, telegram_message_id)
  Chat,            \* rows of monitored_chats
  ChatOf,          \* the chat of each message
  Stage1Worker,    \* running QueueWorkers of the classifier
  ChainWorker,     \* DownstreamQueueWorkers of the listener (a reconnect leaks one)
  ClassifyWorker   \* DownstreamQueueWorkers of the classifier

ASSUME WorkersAssumption ==
  /\ ChatOf \in [Message -> Chat]
  /\ IsFiniteSet(Message)
  /\ Stage1Worker \cap ChainWorker = {}
  /\ Stage1Worker \cap ClassifyWorker = {}
  /\ ChainWorker \cap ClassifyWorker = {}

Worker == Stage1Worker \cup ChainWorker \cup ClassifyWorker

\* len(RetryPolicy.delays_seconds): failures 1..4 of a phase are retried.
MaxRetries == 4

Waiting == {"pending", "retry"}
Downstream == {"awaiting_relevant", "awaiting_context"}

\* "processing" is never committed: the claim and its outcome commit together.
Job ==
  [status : Waiting \cup Downstream \cup {"failed"}, attempts : 0..(MaxRetries + 1),
   snapshot : {"none", "available", "unavailable"}]
NoJob == [status |-> "absent"]

Result == {"relevant", "irrelevant", "context_required"}
Error == {"retryable", "permanent"}

\* What a handler has got: a classification, an error, a reply chain (does its
\* target still exist?), or all that the insert of a question needs.
Answer == Result \cup Error \cup {"available", "unavailable", "ready"}

Transaction ==
  [message : Message, step : {"claimed"}, answer : {"none"}]
    \cup [message : Message, step : {"answered"}, answer : Answer]
Idle == [step |-> "idle"]

VARIABLES
  jobs,       \* the row of processing_jobs of each message
  runs,       \* its classification_runs, by stage
  questions,  \* its detected_questions row (with its chain and notification)
  usage,      \* api_usage_daily.request_count
  tx,         \* each worker's open transaction
  chats,      \* monitored_chats rows; "removing": a DELETE waits for job locks
  seen,       \* messages that ingestion has enqueued
  dropped     \* messages whose job the retention or a chat removal deleted

vars == <<jobs, runs, questions, usage, tx, chats, seen, dropped>>

TypeOK ==
  /\ jobs \in [Message -> Job \cup {NoJob}]
  /\ runs \in [Message -> [1..2 -> Result \cup {"none"}]]
  /\ questions \in [Message -> {"absent", "linked", "detached", "expired"}]
  /\ usage \in Nat
  /\ tx \in [Worker -> Transaction \cup {Idle}]
  /\ chats \in [Chat -> {"present", "removing", "removed"}]
  /\ seen \subseteq Message
  /\ dropped \subseteq Message

Init ==
  /\ jobs = [m \in Message |-> NoJob]
  /\ runs = [m \in Message |-> [s \in 1..2 |-> "none"]]
  /\ questions = [m \in Message |-> "absent"]
  /\ usage = 0
  /\ tx = [w \in Worker |-> Idle]
  /\ chats = [c \in Chat |-> "present"]
  /\ seen = {}
  /\ dropped = {}

-----------------------------------------------------------------------------
(* The queue: JobRepository and DownstreamJobRepository.                     *)

Locked(m) == \E w \in Worker : tx[w] # Idle /\ tx[w].message = m

NewJob == [status |-> "pending", attempts |-> 0, snapshot |-> "none"]

\* The fingerprint window lets a message in once (ON CONFLICT DO NOTHING would
\* too); a chat that is being removed blocks the insert on its foreign key.
Enqueue(m) ==
  /\ m \notin seen
  /\ chats[ChatOf[m]] = "present"
  /\ jobs' = [jobs EXCEPT ![m] = NewJob]
  /\ seen' = seen \cup {m}
  /\ UNCHANGED <<runs, questions, usage, tx, chats, dropped>>

\* Which rows a worker's SELECT finds, whatever their next_attempt_at.
Claimable(w, m) ==
  \/ w \in Stage1Worker /\ jobs[m].status \in Waiting
  \/ w \in ChainWorker /\ jobs[m].status \in Downstream /\ jobs[m].snapshot = "none"
  \/ w \in ClassifyWorker /\ jobs[m].status \in Downstream /\ jobs[m].snapshot # "none"

\* FOR UPDATE SKIP LOCKED; ClaimLocked forgets it.
ClaimLocked(w, m) ==
  /\ tx[w] = Idle
  /\ Claimable(w, m)
  /\ tx' = [tx EXCEPT ![w] = [message |-> m, step |-> "claimed", answer |-> "none"]]
  /\ UNCHANGED <<jobs, runs, questions, usage, chats, seen, dropped>>
Claim(w, m) ==
  /\ tx[w] = Idle
  /\ Claimable(w, m)
  /\ ~Locked(m)
  /\ tx' = [tx EXCEPT ![w] = [message |-> m, step |-> "claimed", answer |-> "none"]]
  /\ UNCHANGED <<jobs, runs, questions, usage, chats, seen, dropped>>

At(w, step) == tx[w] # Idle /\ tx[w].step = step

HandlerGets(w, answers) ==
  /\ At(w, "claimed")
  /\ \E a \in answers : tx' = [tx EXCEPT ![w].step = "answered", ![w].answer = a]
  /\ UNCHANGED <<jobs, runs, questions, usage, chats, seen, dropped>>

HandlerGot(w, answers) == At(w, "answered") /\ tx[w].answer \in answers

Finish(w) == tx' = [tx EXCEPT ![w] = Idle]

\* attempt_count as the claim has raised it; AttemptsForgotten resets it.
AttemptsForgotten(m) == 0
AttemptsNow(m) == jobs[m].attempts + 1

\* delay_after_attempt; ExhaustedLate compares the count before the claim.
ExhaustedLate(m) == jobs[m].attempts > MaxRetries
Exhausted(m) == AttemptsNow(m) > MaxRetries

\* JobRepository.retry puts a job back before Stage 1, DownstreamJobRepository.retry
\* leaves its status; BackToStage1 uses the former for both.
BackToStage1(w, m) == "retry"
StatusForRetry(w, m) == IF w \in Stage1Worker THEN "retry" ELSE jobs[m].status

RetryJob(w) ==
  LET m == tx[w].message IN
    /\ HandlerGot(w, {"retryable"})
    /\ ~Exhausted(m)
    /\ jobs' = [jobs EXCEPT ![m].status = StatusForRetry(w, m),
                            ![m].attempts = AttemptsNow(m)]
    /\ Finish(w)
    /\ UNCHANGED <<runs, questions, usage, chats, seen, dropped>>

FailJob(w) ==
  LET m == tx[w].message IN
    /\ \/ HandlerGot(w, {"permanent"})
       \/ HandlerGot(w, {"retryable"}) /\ Exhausted(m)
    /\ jobs' = [jobs EXCEPT ![m].status = "failed", ![m].attempts = AttemptsNow(m)]
    /\ Finish(w)
    /\ UNCHANGED <<runs, questions, usage, chats, seen, dropped>>

Route(m, status) ==
  jobs' = [jobs EXCEPT ![m].status = status, ![m].attempts = 0]

Complete(m) == jobs' = [jobs EXCEPT ![m] = NoJob]

\* UsageRepository.record_stage: the run and its daily aggregate, once.
RecordStage(m, stage, result) ==
  IF runs[m][stage] = "none"
  THEN runs' = [runs EXCEPT ![m][stage] = result] /\ usage' = usage + 1
  ELSE UNCHANGED <<runs, usage>>

-----------------------------------------------------------------------------
(* Stage 1: Stage1ClassificationHandler.                                     *)

Stage1Ask(w) == w \in Stage1Worker /\ HandlerGets(w, Result \cup Error)

\* What becomes of the job after a result; OnlyRelevantGoesOn takes a result
\* that needs context for an irrelevant one.
OnlyRelevantGoesOn(m, result) ==
  IF result = "relevant" THEN Route(m, "awaiting_relevant") ELSE Complete(m)
ApplyResult(m, result) ==
  CASE result = "context_required" -> Route(m, "awaiting_context")
    [] result = "relevant" -> Route(m, "awaiting_relevant")
    [] result = "irrelevant" -> Complete(m)

Stage1Commit(w) ==
  LET m == tx[w].message IN
    /\ w \in Stage1Worker
    /\ HandlerGot(w, Result)
    /\ RecordStage(m, 1, tx[w].answer)
    /\ ApplyResult(m, tx[w].answer)
    /\ Finish(w)
    /\ UNCHANGED <<questions, chats, seen, dropped>>

-----------------------------------------------------------------------------
(* The reply chain: ReplyChainSnapshotHandler, in the listener.              *)

\* Telegram still has the target, has it no more, or cannot be asked.
LoadChain(w) ==
  w \in ChainWorker /\ HandlerGets(w, {"available", "unavailable", "retryable"})

SaveChain(w) ==
  LET m == tx[w].message IN
    /\ w \in ChainWorker
    /\ HandlerGot(w, {"available", "unavailable"})
    /\ jobs' = [jobs EXCEPT ![m].snapshot = tx[w].answer, ![m].attempts = 0]
    /\ Finish(w)
    /\ UNCHANGED <<runs, questions, usage, chats, seen, dropped>>

-----------------------------------------------------------------------------
(* Stage 2: Stage2ClassificationService.                                     *)

\* Stage 1 asked for context, and Stage 2 has not answered yet.
Stage2Allowed(m) == runs[m][1] = "context_required" /\ runs[m][2] = "none"

\* A second request for context is Stage2NonFinalResultError, not retryable;
\* AnyAnswer would accept it.
AnyAnswer == Result \cup Error
FinalAnswer == {"relevant", "irrelevant"} \cup Error

Stage2Ask(w) ==
  /\ w \in ClassifyWorker
  /\ At(w, "claimed")
  /\ jobs[tx[w].message].status = "awaiting_context"
  /\ HandlerGets(w, IF Stage2Allowed(tx[w].message) THEN FinalAnswer ELSE {"retryable"})

Stage2Commit(w) ==
  LET m == tx[w].message IN
    /\ w \in ClassifyWorker
    /\ HandlerGot(w, Result)
    /\ RecordStage(m, 2, tx[w].answer)
    /\ ApplyResult(m, tx[w].answer)
    /\ Finish(w)
    /\ UNCHANGED <<questions, chats, seen, dropped>>

-----------------------------------------------------------------------------
(* A relevant message: RelevantQuestionPersistenceService.                   *)

HasQuestion(m) == questions[m] \in {"linked", "detached"}

FinalResult(m) == IF runs[m][2] # "none" THEN runs[m][2] ELSE runs[m][1]

\* A target that Telegram has deleted is not in available_items: an error.
PersistAnswer(m) ==
  IF \/ HasQuestion(m)
     \/ "relevant" \in {runs[m][1], runs[m][2]} /\ jobs[m].snapshot = "available"
  THEN {"ready"}
  ELSE {"retryable"}

Translate(w) ==
  /\ w \in ClassifyWorker
  /\ At(w, "claimed")
  /\ jobs[tx[w].message].status = "awaiting_relevant"
  /\ HandlerGets(w, PersistAnswer(tx[w].message))

\* The question, its chain and its notification go in (unless they are there),
\* the job goes out.  Inserting the question needs the row of its chat.
PersistQuestion(w) ==
  LET m == tx[w].message IN
    /\ w \in ClassifyWorker
    /\ HandlerGot(w, {"ready"})
    /\ HasQuestion(m) \/ chats[ChatOf[m]] = "present"
    /\ questions' = IF HasQuestion(m) THEN questions
                    ELSE [questions EXCEPT ![m] = "linked"]
    /\ Complete(m)
    /\ Finish(w)
    /\ UNCHANGED <<runs, usage, chats, seen, dropped>>

\* The DELETE of the chat waits for this job's lock and the insert waits for the
\* chat's row: PostgreSQL aborts the insert (a retryable error) or the DELETE.
PersistDeadlock(w) ==
  LET m == tx[w].message
      c == ChatOf[m]
  IN
    /\ w \in ClassifyWorker
    /\ HandlerGot(w, {"ready"})
    /\ ~HasQuestion(m)
    /\ chats[c] = "removing"
    /\ \/ /\ tx' = [tx EXCEPT ![w].answer = "retryable"]
          /\ UNCHANGED chats
       \/ /\ chats' = [chats EXCEPT ![c] = "present"]
          /\ UNCHANGED tx
    /\ UNCHANGED <<jobs, runs, questions, usage, seen, dropped>>

-----------------------------------------------------------------------------
(* Crashes, the retention job, and the removal of a chat.                    *)

\* UsageOnItsOwn would keep the usage of a call whose transaction is rolled back.
UsageOnItsOwn(w) ==
  /\ tx[w] # Idle
  /\ usage' = IF HandlerGot(w, Result) THEN usage + 1 ELSE usage
  /\ Finish(w)
  /\ UNCHANGED <<jobs, runs, questions, chats, seen, dropped>>
Abort(w) ==
  /\ tx[w] # Idle
  /\ Finish(w)
  /\ UNCHANGED <<jobs, runs, questions, usage, chats, seen, dropped>>

\* MaintenanceScheduler.run_once: a batch of jobs enqueued 24 hours ago (whatever
\* their status, SKIP LOCKED) and of questions detected 60 days ago; recover_stale
\* looks for "processing" rows, and there are none.
CleanUp(oldJobs, oldQuestions) ==
  /\ oldJobs \cup oldQuestions # {}
  /\ \A m \in oldJobs : jobs[m] # NoJob /\ ~Locked(m)
  /\ \A m \in oldQuestions : HasQuestion(m)
  /\ jobs' = [m \in Message |-> IF m \in oldJobs THEN NoJob ELSE jobs[m]]
  /\ questions' = [m \in Message |->
                     IF m \in oldQuestions THEN "expired" ELSE questions[m]]
  /\ dropped' = dropped \cup oldJobs
  /\ UNCHANGED <<runs, usage, tx, chats, seen>>

BeginRemove(c) ==
  /\ chats[c] = "present"
  /\ chats' = [chats EXCEPT ![c] = "removing"]
  /\ UNCHANGED <<jobs, runs, questions, usage, tx, seen, dropped>>

\* ON DELETE SET NULL; StillLinked forgets it.
StillLinked(question) == question
Detached(question) == IF question = "linked" THEN "detached" ELSE question

\* ON DELETE CASCADE takes the jobs, once no worker holds one.
FinishRemove(c) ==
  LET gone == {m \in Message : ChatOf[m] = c /\ jobs[m] # NoJob} IN
    /\ chats[c] = "removing"
    /\ \A m \in gone : ~Locked(m)
    /\ chats' = [chats EXCEPT ![c] = "removed"]
    /\ jobs' = [m \in Message |-> IF m \in gone THEN NoJob ELSE jobs[m]]
    /\ questions' = [m \in Message |->
                       IF ChatOf[m] = c THEN Detached(questions[m]) ELSE questions[m]]
    /\ dropped' = dropped \cup gone
    /\ UNCHANGED <<runs, usage, tx, seen>>

-----------------------------------------------------------------------------
Handle(w) ==
  Stage1Ask(w) \/ LoadChain(w) \/ Stage2Ask(w) \/ Translate(w)

Settle(w) ==
  \/ Stage1Commit(w) \/ SaveChain(w) \/ Stage2Commit(w) \/ PersistQuestion(w)
  \/ RetryJob(w) \/ FailJob(w)

WorkerStep(w) ==
  \/ \E m \in Message : Claim(w, m)
  \/ Handle(w)
  \/ Settle(w)
  \/ PersistDeadlock(w)
  \/ Abort(w)

Next ==
  \/ \E m \in Message : Enqueue(m)
  \/ \E oldJobs, oldQuestions \in SUBSET Message : CleanUp(oldJobs, oldQuestions)
  \/ \E w \in Worker : WorkerStep(w)
  \/ \E c \in Chat : BeginRemove(c) \/ FinishRemove(c)

Spec == Init /\ [][Next]_vars

(* run_forever polls for ever; the container restarts a worker that dies, and *)
(* not every attempt dies, nor is every removal chosen as a deadlock's victim *)
(* or every insert in its way: hence strong fairness.                         *)
Fairness ==
  /\ \A w \in Worker :
       /\ \A m \in Message : SF_vars(Claim(w, m))
       /\ SF_vars(Handle(w))
       /\ SF_vars(Settle(w))
       /\ WF_vars(PersistDeadlock(w))
  /\ \A c \in Chat : SF_vars(FinishRemove(c))

FairSpec == Spec /\ Fairness

-----------------------------------------------------------------------------
(* Properties.                                                               *)

\* The status that routes a job and the classification runs recorded for its
\* message never disagree, across three workers, retries and aborts: so Stage 2
\* runs only after Stage 1 asked for context and at most once, the checks of
\* Stage2ClassificationService and of the persistence never fire, and a question
\* exists only for a relevant result, when its job is gone.
RouteMatchesRuns ==
  \A m \in Message :
    /\ jobs[m].status \in Waiting =>
         runs[m][1] = "none" /\ runs[m][2] = "none" /\ jobs[m].snapshot = "none"
    /\ jobs[m].status = "awaiting_context" => Stage2Allowed(m)
    /\ jobs[m].status = "awaiting_relevant" => FinalResult(m) = "relevant"
    /\ jobs[m].status = "failed" => FinalResult(m) # "irrelevant"
    /\ runs[m][2] # "none" =>
         runs[m][1] = "context_required" /\ runs[m][2] # "context_required"
    /\ questions[m] # "absent" => jobs[m] = NoJob /\ FinalResult(m) = "relevant"

\* At-least-once delivery: a message that was enqueued is still queued, or waits
\* as failed for a review, or was found irrelevant, or became a question, or the
\* retention or the removal of its chat has deleted it.  No abort, retry or
\* deadlock makes it vanish.
NothingLost ==
  \A m \in seen :
    \/ jobs[m] # NoJob
    \/ questions[m] # "absent"
    \/ FinalResult(m) = "irrelevant"
    \/ m \in dropped

\* A job that a worker may claim has failed at most MaxRetries times in its
\* phase, whatever aborts come between: the count is never lost or reset
\* inside a phase.
AttemptsBounded ==
  \A m \in Message :
    jobs[m].status \in Waiting \cup Downstream => jobs[m].attempts <= MaxRetries

\* Two workers never process one message, neither two of a phase (a reconnect
\* of the listener leaks one) nor two of different phases.
ExclusiveJobs ==
  \A v, w \in Worker :
    v # w /\ tx[v] # Idle /\ tx[w] # Idle => tx[v].message # tx[w].message

\* A worker holds a row that exists and that its SELECT finds: retention, the
\* cascade and other workers leave a locked row alone.
WorkersHoldClaimable ==
  \A w \in Worker : tx[w] # Idle => Claimable(w, tx[w].message)

\* Each recorded run is in the daily aggregate exactly once (BACKLOG M4-05,
\* "avoid double accounting"), whatever is retried or rolled back.
UsageMatchesRuns ==
  usage = Cardinality({r \in Message \X (1..2) : runs[r[1]][r[2]] # "none"})

\* Nothing refers to a chat that is removed, although the removal and the
\* persistence of its last question wait for each other's rows.
RemovedChatIsGone ==
  \A m \in Message : chats[ChatOf[m]] = "removed" =>
    jobs[m] = NoJob /\ questions[m] # "linked"

\* A job only moves forward: it never returns before Stage 1, what Stage 1, the
\* listener or Stage 2 have recorded is never replaced, and a failed job is not
\* claimed again.
MovesForward ==
  [][\A m \in Message :
       /\ jobs[m].status \in Downstream /\ jobs'[m] # NoJob =>
            /\ jobs'[m].status \notin Waiting
            /\ jobs[m].snapshot # "none" => jobs'[m].snapshot = jobs[m].snapshot
       /\ jobs[m].status = "failed" => jobs'[m] \in {jobs[m], NoJob}
       /\ \A s \in 1..2 : runs[m][s] # "none" => runs'[m][s] = runs[m][s]]_vars

\* How many phases of a job are left, and how many attempts they may still take.
PhasesLeft(m) ==
  LET loaded == IF jobs[m].snapshot = "none" THEN 0 ELSE 1 IN
  CASE jobs[m].status \in Waiting -> 4
    [] jobs[m].status = "awaiting_context" -> 3 - loaded
    [] jobs[m].status = "awaiting_relevant" -> 2 - loaded
AttemptsLeft(m) ==
  IF jobs[m].status \in Waiting \cup Downstream
  THEN PhasesLeft(m) * (MaxRetries + 1) - jobs[m].attempts ELSE 0

\* Whatever a worker commits for a job uses up a part of the attempts it has
\* left, four phases of MaxRetries + 1 each, and nothing gives any back: the
\* retries, the chain and the two stages never go round in a circle.
EffortRunsOut ==
  [][\A m \in seen :
       \/ jobs'[m] = jobs[m]
       \/ jobs[m].status = "failed" /\ jobs'[m] = NoJob
       \/ AttemptsLeft(m)' \in 0..(AttemptsLeft(m) - 1)]_vars

\* No message waits for ever: it leaves the queue, or fails where an operator
\* can look at it.
JobsSettle ==
  \A m \in Message :
    m \in seen ~> jobs[m].status \in {"absent", "failed"}

(* The promise about every message (module LeadPromise) and how this module   *)
(* keeps it: a job is work that waits or has failed, a question is a lead.    *)

FateOf(m) ==
  IF m \notin seen THEN "new"
  ELSE CASE HasQuestion(m)             -> "lead"
         [] questions[m] = "expired"   -> "closed"
         [] questions[m] = "absent" /\ jobs[m].status = "failed" -> "failed"
         [] questions[m] = "absent" /\ jobs[m].status \in Waiting \cup Downstream
                                       -> "waiting"
         [] OTHER -> IF FinalResult(m) = "irrelevant" THEN "rejected" ELSE "dropped"

Promise == INSTANCE LeadPromise WITH
  fate <- [m \in Message |-> FateOf(m)],
  verdict <- [m \in Message |-> FinalResult(m)],
  charged <- usage

\* The three workers, with their retries, aborts, leaked duplicates and
\* deadlocks, are an implementation of LeadPromise: no answer is given twice or
\* charged twice, only what was found relevant is presented, and nothing that
\* has ended is taken up again.
PromiseKept == Promise!Spec

(* What the proofs use: together these are inductive.                        *)

\* What a worker's handler has got is what that handler can get for its job.
AnswerFitsJob ==
  \A w \in Worker : tx[w] # Idle =>
    LET m == tx[w].message
        result == tx[w].answer
    IN
      /\ w \in Stage1Worker => result \in Result \cup Error \cup {"none"}
      /\ w \in ChainWorker => result \in {"available", "unavailable", "retryable", "none"}
      /\ w \in ClassifyWorker =>
           \/ jobs[m].status = "awaiting_context" /\ result \in FinalAnswer \cup {"none"}
           \/ jobs[m].status = "awaiting_relevant" /\ result \in {"ready", "retryable", "none"}

OnlySeenExists ==
  \A m \in Message : m \notin seen =>
    jobs[m] = NoJob /\ runs[m][1] = "none" /\ runs[m][2] = "none" /\ questions[m] = "absent"

\* The inductive invariant.
IInv ==
  /\ TypeOK
  /\ RouteMatchesRuns
  /\ NothingLost
  /\ AttemptsBounded
  /\ ExclusiveJobs
  /\ WorkersHoldClaimable
  /\ RemovedChatIsGone
  /\ AnswerFitsJob
  /\ OnlySeenExists

(* A promise of the documentation that the code does not keep.               *)

\* ADR-002: "Poison jobs cannot loop or disappear": a failed job stays until an
\* operator acts.  The only operator's action that may remove it is the removal
\* of its chat.
PoisonJobsStay ==
  [][\A m \in Message :
       jobs[m].status = "failed" /\ jobs'[m] = NoJob
         => chats'[ChatOf[m]] = "removed"]_vars
=============================================================================
