--------------------- MODULE ProcessingPipeline_proofs ---------------------
(* The safety properties of ProcessingPipeline, for every set of messages,   *)
(* chats and workers.  What a step does to the rows of one message is judged *)
(* by RowOK; what it does to the workers by WorkersOK.                       *)
EXTENDS ProcessingPipeline, FiniteSetTheorems, TLAPS

\* The part of the invariant that concerns the rows of one message.
RowOK(m) ==
  /\ jobs[m].status \in Waiting =>
       runs[m][1] = "none" /\ runs[m][2] = "none" /\ jobs[m].snapshot = "none"
  /\ jobs[m].status = "awaiting_context" => Stage2Allowed(m)
  /\ jobs[m].status = "awaiting_relevant" => FinalResult(m) = "relevant"
  /\ jobs[m].status = "failed" => FinalResult(m) # "irrelevant"
  /\ runs[m][2] # "none" =>
       runs[m][1] = "context_required" /\ runs[m][2] # "context_required"
  /\ questions[m] # "absent" => jobs[m] = NoJob /\ FinalResult(m) = "relevant"
  /\ m \in seen =>
       \/ jobs[m] # NoJob
       \/ questions[m] # "absent"
       \/ FinalResult(m) = "irrelevant"
       \/ m \in dropped
  /\ jobs[m].status \in Waiting \cup Downstream => jobs[m].attempts <= MaxRetries
  /\ chats[ChatOf[m]] = "removed" => jobs[m] = NoJob /\ questions[m] # "linked"
  /\ m \notin seen =>
       jobs[m] = NoJob /\ runs[m][1] = "none" /\ runs[m][2] = "none"
         /\ questions[m] = "absent"

WorkersOK == ExclusiveJobs /\ WorkersHoldClaimable /\ AnswerFitsJob

LEMMA InvParts ==
  IInv <=> TypeOK /\ WorkersOK /\ \A m \in Message : RowOK(m)
<1>1. ASSUME NEW m \in Message, IInv PROVE RowOK(m)
  BY <1>1 DEF IInv, RowOK, RouteMatchesRuns, NothingLost, AttemptsBounded,
              RemovedChatIsGone, OnlySeenExists
<1>2. IInv => TypeOK /\ WorkersOK
  BY DEF IInv, WorkersOK
<1>3. ASSUME TypeOK, WorkersOK, \A m \in Message : RowOK(m) PROVE IInv
  <2>1. RouteMatchesRuns
    BY <1>3 DEF RowOK, RouteMatchesRuns
  <2>2. NothingLost
    BY <1>3 DEF RowOK, NothingLost, TypeOK
  <2>3. AttemptsBounded
    BY <1>3 DEF RowOK, AttemptsBounded
  <2>4. RemovedChatIsGone /\ OnlySeenExists
    BY <1>3 DEF RowOK, RemovedChatIsGone, OnlySeenExists
  <2> QED
    BY <1>3, <2>1, <2>2, <2>3, <2>4 DEF IInv, WorkersOK
<1> QED
  BY <1>1, <1>2, <1>3

LEMMA InvPartsNext ==
  IInv' <=> TypeOK' /\ WorkersOK' /\ \A m \in Message : RowOK(m)'
<1>1. ASSUME NEW m \in Message, IInv' PROVE RowOK(m)'
  BY <1>1 DEF IInv, RowOK, RouteMatchesRuns, NothingLost, AttemptsBounded,
              RemovedChatIsGone, OnlySeenExists
<1>2. IInv' => TypeOK' /\ WorkersOK'
  BY DEF IInv, WorkersOK
<1>3. ASSUME TypeOK', WorkersOK', \A m \in Message : RowOK(m)' PROVE IInv'
  <2>1. RouteMatchesRuns'
    BY <1>3 DEF RowOK, RouteMatchesRuns
  <2>2. NothingLost'
    BY <1>3 DEF RowOK, NothingLost, TypeOK
  <2>3. AttemptsBounded'
    BY <1>3 DEF RowOK, AttemptsBounded
  <2>4. RemovedChatIsGone' /\ OnlySeenExists'
    BY <1>3 DEF RowOK, RemovedChatIsGone, OnlySeenExists
  <2> QED
    BY <1>3, <2>1, <2>2, <2>3, <2>4 DEF IInv, WorkersOK
<1> QED
  BY <1>1, <1>2, <1>3

LEMMA InitInv == Init => IInv
<1> SUFFICES ASSUME Init PROVE IInv
  OBVIOUS
<1>1. TypeOK
  BY DEF Init, TypeOK
<1>2. WorkersOK
  BY DEF Init, WorkersOK, ExclusiveJobs, WorkersHoldClaimable, AnswerFitsJob
<1>3. ASSUME NEW m \in Message PROVE RowOK(m)
  BY WorkersAssumption
     DEF Init, RowOK, NoJob, Waiting, Downstream, FinalResult, Stage2Allowed
<1> QED
  BY <1>1, <1>2, <1>3, InvParts

-----------------------------------------------------------------------------
(* What a worker with an open transaction holds.                             *)

LEMMA Busy ==
  ASSUME TypeOK, NEW w \in Worker, tx[w] # Idle
  PROVE  /\ tx[w] \in Transaction
         /\ tx[w].message \in Message
BY DEF TypeOK, Transaction

LEMMA HeldJob ==
  ASSUME IInv, NEW w \in Worker, tx[w] # Idle
  PROVE  /\ tx[w].message \in Message
         /\ jobs[tx[w].message] \in Job
         /\ jobs[tx[w].message].status \in Waiting \cup Downstream
         /\ tx[w].message \in seen
         /\ questions[tx[w].message] = "absent"
         /\ chats[ChatOf[tx[w].message]] # "removed"
<1> DEFINE m == tx[w].message
<1>1. m \in Message
  BY Busy DEF IInv
<1>2. Claimable(w, m)
  BY DEF IInv, WorkersHoldClaimable
<1>3. jobs[m].status \in Waiting \cup Downstream
  BY <1>2 DEF Claimable
<1>4. jobs[m] # NoJob
  BY <1>3 DEF NoJob, Waiting, Downstream
<1>5. RowOK(m)
  BY <1>1, InvParts
<1> QED
  BY <1>1, <1>3, <1>4, <1>5 DEF RowOK, IInv, TypeOK

-----------------------------------------------------------------------------
(* Steps that only change a transaction.                                     *)

LEMMA RowsKept ==
  ASSUME IInv, UNCHANGED <<jobs, runs, questions, chats, seen, dropped>>,
         TypeOK', WorkersOK'
  PROVE  IInv'
<1>1. ASSUME NEW m \in Message PROVE RowOK(m)'
  BY InvParts DEF RowOK, FinalResult, Stage2Allowed
<1> QED
  BY <1>1, InvPartsNext

LEMMA ClaimInv ==
  ASSUME IInv, NEW w \in Worker, NEW m \in Message, Claim(w, m)
  PROVE  IInv'
<1> USE DEF Claim
<1>1. TypeOK'
  BY DEF IInv, TypeOK, Transaction
<1>2. ExclusiveJobs'
  BY DEF IInv, ExclusiveJobs, TypeOK, Locked
<1>3. WorkersHoldClaimable'
  BY DEF IInv, WorkersHoldClaimable, TypeOK, Claimable
<1>4. AnswerFitsJob'
  BY WorkersAssumption
     DEF IInv, AnswerFitsJob, TypeOK, Claimable, Downstream, Worker
<1> QED
  BY <1>1, <1>2, <1>3, <1>4, RowsKept DEF WorkersOK

\* A worker ends its transaction and leaves the tables as they are.
LEMMA AbortInv ==
  ASSUME IInv, NEW w \in Worker, Abort(w)
  PROVE  IInv'
<1> USE DEF Abort, Finish
<1>1. TypeOK'
  BY DEF IInv, TypeOK
<1>2. ExclusiveJobs'
  BY DEF IInv, ExclusiveJobs, TypeOK
<1>3. WorkersHoldClaimable'
  BY DEF IInv, WorkersHoldClaimable, TypeOK, Claimable
<1>4. AnswerFitsJob'
  BY DEF IInv, AnswerFitsJob, TypeOK
<1> QED
  BY <1>1, <1>2, <1>3, <1>4, RowsKept DEF WorkersOK

\* What each kind of worker may get for the job it holds.
Fits(w, m, a) ==
  /\ w \in Stage1Worker => a \in Result \cup Error
  /\ w \in ChainWorker => a \in {"available", "unavailable", "retryable"}
  /\ w \in ClassifyWorker =>
       \/ jobs[m].status = "awaiting_context" /\ a \in FinalAnswer
       \/ jobs[m].status = "awaiting_relevant" /\ a \in {"ready", "retryable"}

LEMMA AnswerInv ==
  ASSUME IInv, NEW w \in Worker, tx[w] # Idle, NEW a \in Answer,
         Fits(w, tx[w].message, a),
         tx' = [tx EXCEPT ![w].step = "answered", ![w].answer = a],
         UNCHANGED <<jobs, runs, questions, usage, chats, seen, dropped>>
  PROVE  IInv'
<1>0. tx[w] \in Transaction
  BY Busy DEF IInv
<1>a. tx'[w] = [message |-> tx[w].message, step |-> "answered", answer |-> a]
  BY <1>0 DEF IInv, TypeOK, Transaction
<1>b. /\ tx' \in [Worker -> Transaction \cup {Idle}]
      /\ \A v \in Worker : v # w => tx'[v] = tx[v]
      /\ tx'[w] # Idle
  BY <1>0, <1>a DEF IInv, TypeOK, Transaction, Idle
<1>1. TypeOK'
  BY <1>b DEF IInv, TypeOK
<1>2. ExclusiveJobs'
  BY <1>a, <1>b DEF IInv, ExclusiveJobs
<1>3. WorkersHoldClaimable'
  BY <1>a, <1>b DEF IInv, WorkersHoldClaimable, Claimable
<1>4. AnswerFitsJob'
  BY <1>a, <1>b DEF IInv, AnswerFitsJob, Fits
<1> QED
  BY <1>1, <1>2, <1>3, <1>4, RowsKept DEF WorkersOK

LEMMA KindOfWorker ==
  ASSUME NEW w \in Worker
  PROVE  /\ w \in Stage1Worker => w \notin ChainWorker /\ w \notin ClassifyWorker
         /\ w \in ChainWorker => w \notin Stage1Worker /\ w \notin ClassifyWorker
         /\ w \in ClassifyWorker => w \notin Stage1Worker /\ w \notin ChainWorker
BY WorkersAssumption

LEMMA HandleInv ==
  ASSUME IInv, NEW w \in Worker, Handle(w)
  PROVE  IInv'
<1>1. CASE Stage1Ask(w)
  <2>1. PICK a \in Result \cup Error :
          tx' = [tx EXCEPT ![w].step = "answered", ![w].answer = a]
    BY <1>1 DEF Stage1Ask, HandlerGets
  <2>2. Fits(w, tx[w].message, a) /\ a \in Answer
    BY <1>1, <2>1, KindOfWorker DEF Stage1Ask, Fits, Answer
  <2> QED
    BY <1>1, <2>1, <2>2, AnswerInv DEF Stage1Ask, HandlerGets, At
<1>2. CASE LoadChain(w)
  <2>1. PICK a \in {"available", "unavailable", "retryable"} :
          tx' = [tx EXCEPT ![w].step = "answered", ![w].answer = a]
    BY <1>2 DEF LoadChain, HandlerGets
  <2>2. Fits(w, tx[w].message, a) /\ a \in Answer
    BY <1>2, <2>1, KindOfWorker DEF LoadChain, Fits, Answer, Error
  <2> QED
    BY <1>2, <2>1, <2>2, AnswerInv DEF LoadChain, HandlerGets, At
<1>3. CASE Stage2Ask(w)
  <2>1. PICK a \in FinalAnswer :
          tx' = [tx EXCEPT ![w].step = "answered", ![w].answer = a]
    BY <1>3 DEF Stage2Ask, HandlerGets, FinalAnswer, Error
  <2>2. Fits(w, tx[w].message, a) /\ a \in Answer
    BY <1>3, <2>1, KindOfWorker DEF Stage2Ask, Fits, Answer, FinalAnswer, Error, Result
  <2> QED
    BY <1>3, <2>1, <2>2, AnswerInv DEF Stage2Ask, HandlerGets, At
<1>4. CASE Translate(w)
  <2>1. PICK a \in {"ready", "retryable"} :
          tx' = [tx EXCEPT ![w].step = "answered", ![w].answer = a]
    BY <1>4 DEF Translate, HandlerGets, PersistAnswer
  <2>2. Fits(w, tx[w].message, a) /\ a \in Answer
    BY <1>4, <2>1, KindOfWorker DEF Translate, Fits, Answer, Error
  <2> QED
    BY <1>4, <2>1, <2>2, AnswerInv DEF Translate, HandlerGets, At
<1> QED
  BY <1>1, <1>2, <1>3, <1>4 DEF Handle

-----------------------------------------------------------------------------
(* Steps that commit a transaction: they change the rows of one message.     *)

LEMMA CommitInv ==
  ASSUME IInv, NEW w \in Worker, tx[w] # Idle, NEW m, m = tx[w].message,
         tx' = [tx EXCEPT ![w] = Idle],
         TypeOK', RowOK(m)',
         \A n \in Message : n # m =>
           jobs'[n] = jobs[n] /\ runs'[n] = runs[n] /\ questions'[n] = questions[n],
         UNCHANGED <<chats, seen, dropped>>
  PROVE  IInv'
<1>1. ASSUME NEW n \in Message PROVE RowOK(n)'
  <2>1. CASE n = m
    BY <2>1
  <2>2. CASE n # m
    BY <2>2, InvParts DEF RowOK, FinalResult, Stage2Allowed
  <2> QED
    BY <2>1, <2>2
<1>2. /\ tx'[w] = Idle
      /\ \A v \in Worker : v # w => tx'[v] = tx[v]
  BY DEF IInv, TypeOK
<1>3. \A v \in Worker : v # w /\ tx[v] # Idle =>
        tx[v].message \in Message /\ tx[v].message # m
  BY Busy DEF IInv, ExclusiveJobs
<1>4. ExclusiveJobs'
  BY <1>2 DEF IInv, ExclusiveJobs
<1>5. WorkersHoldClaimable'
  BY <1>2, <1>3 DEF IInv, WorkersHoldClaimable, Claimable
<1>6. AnswerFitsJob'
  BY <1>2, <1>3 DEF IInv, AnswerFitsJob
<1> QED
  BY <1>1, <1>4, <1>5, <1>6, InvPartsNext DEF WorkersOK

LEMMA ResultNotNone ==
  /\ "none" \notin Result
  /\ "none" \notin Error
  /\ Result \cap Error = {}
BY DEF Result, Error

\* Recording a stage that has no run yet changes that run only.
LEMMA RecordType ==
  ASSUME TypeOK, NEW m \in Message, NEW s \in 1..2, NEW r \in Result,
         RecordStage(m, s, r), runs[m][s] = "none"
  PROVE  /\ runs' \in [Message -> [1..2 -> Result \cup {"none"}]]
         /\ usage' \in Nat
         /\ runs'[m][s] = r
         /\ \A i \in 1..2 : i # s => runs'[m][i] = runs[m][i]
         /\ \A n \in Message : n # m => runs'[n] = runs[n]
BY DEF TypeOK, RecordStage

\* A job stays a job when its status or its snapshot, and its count, change.
LEMMA JobChanged ==
  ASSUME NEW j \in Job, NEW s \in Waiting \cup Downstream \cup {"failed"},
         NEW a \in 0..(MaxRetries + 1), NEW p \in {"none", "available", "unavailable"}
  PROVE  /\ [j EXCEPT !.status = s, !.attempts = a] \in Job
         /\ [j EXCEPT !.snapshot = p, !.attempts = a] \in Job
<1>1. PICK k \in Job : k = [j EXCEPT !.status = s]
  BY DEF Job
<1>2. PICK k2 \in Job : k2 = [j EXCEPT !.snapshot = p]
  BY DEF Job
<1>3. [k EXCEPT !.attempts = a] \in Job /\ [k2 EXCEPT !.attempts = a] \in Job
  BY DEF Job
<1> QED
  BY <1>1, <1>2, <1>3

\* What becomes of the job after a result.
LEMMA ApplyType ==
  ASSUME TypeOK, NEW m \in Message, jobs[m] \in Job, NEW r \in Result,
         ApplyResult(m, r)
  PROVE  /\ jobs' \in [Message -> Job \cup {NoJob}]
         /\ \A n \in Message : n # m => jobs'[n] = jobs[n]
         /\ r = "irrelevant" => jobs'[m] = NoJob
         /\ r # "irrelevant" =>
              /\ jobs'[m] \in Job
              /\ jobs'[m].attempts = 0
              /\ jobs'[m].snapshot = jobs[m].snapshot
         /\ r = "relevant" => jobs'[m].status = "awaiting_relevant"
         /\ r = "context_required" => jobs'[m].status = "awaiting_context"
<1>1. CASE r = "irrelevant"
  BY <1>1 DEF ApplyResult, Complete, TypeOK
<1>2. ASSUME NEW s \in Downstream, Route(m, s)
      PROVE  /\ jobs' \in [Message -> Job \cup {NoJob}]
             /\ \A n \in Message : n # m => jobs'[n] = jobs[n]
             /\ jobs'[m] \in Job /\ jobs'[m].attempts = 0 /\ jobs'[m].status = s
             /\ jobs'[m].snapshot = jobs[m].snapshot
  <2>1. PICK job : job = [jobs[m] EXCEPT !.status = s, !.attempts = 0]
    OBVIOUS
  <2>2. 0 \in 0..(MaxRetries + 1) /\ "none" \in {"none", "available", "unavailable"}
    BY DEF MaxRetries
  <2>3. job \in Job
    BY <2>1, <2>2, JobChanged
  <2>4. job.attempts = 0 /\ job.status = s /\ job.snapshot = jobs[m].snapshot
    BY <2>1 DEF Job
  <2>5. jobs' = [jobs EXCEPT ![m] = job]
    BY <1>2, <2>1 DEF Route, TypeOK
  <2> QED
    BY <2>3, <2>4, <2>5 DEF TypeOK
<1>3. CASE r = "relevant"
  <2>1. Route(m, "awaiting_relevant") /\ "awaiting_relevant" \in Downstream
    BY <1>3 DEF ApplyResult, Downstream
  <2> QED
    BY <1>2, <1>3, <2>1
<1>4. CASE r = "context_required"
  <2>1. Route(m, "awaiting_context") /\ "awaiting_context" \in Downstream
    BY <1>4 DEF ApplyResult, Downstream
  <2> QED
    BY <1>2, <1>4, <2>1
<1> QED
  BY <1>1, <1>3, <1>4 DEF Result

LEMMA TxIdleType ==
  ASSUME TypeOK, NEW w \in Worker, Finish(w)
  PROVE  tx' \in [Worker -> Transaction \cup {Idle}]
BY DEF TypeOK, Finish

LEMMA Stage1CommitInv ==
  ASSUME IInv, NEW w \in Worker, Stage1Commit(w)
  PROVE  IInv'
<1>m. PICK m : m = tx[w].message
  OBVIOUS
<1>r. PICK r : r = tx[w].answer
  OBVIOUS
<1>1. /\ tx[w] # Idle
      /\ r \in Result
      /\ RecordStage(m, 1, r)
      /\ ApplyResult(m, r)
      /\ Finish(w)
      /\ UNCHANGED <<questions, chats, seen, dropped>>
  BY <1>m, <1>r DEF Stage1Commit, HandlerGot, At
<1>2. /\ m \in Message
      /\ jobs[m] \in Job
      /\ m \in seen
      /\ questions[m] = "absent"
      /\ chats[ChatOf[m]] # "removed"
  BY <1>m, <1>1, HeldJob
<1>3. jobs[m].status \in Waiting
  BY <1>m, <1>r, <1>1, KindOfWorker DEF IInv, WorkersHoldClaimable, Claimable, Stage1Commit
<1>4. runs[m][1] = "none" /\ runs[m][2] = "none"
  BY <1>2, <1>3, InvParts DEF RowOK
<1>5. /\ runs' \in [Message -> [1..2 -> Result \cup {"none"}]]
      /\ usage' \in Nat
      /\ runs'[m][1] = r
      /\ runs'[m][2] = "none"
      /\ \A n \in Message : n # m => runs'[n] = runs[n]
  BY <1>1, <1>2, <1>4, RecordType DEF IInv
<1>6. /\ jobs' \in [Message -> Job \cup {NoJob}]
      /\ \A n \in Message : n # m => jobs'[n] = jobs[n]
      /\ r = "irrelevant" => jobs'[m] = NoJob
      /\ r # "irrelevant" => jobs'[m] \in Job /\ jobs'[m].attempts = 0
      /\ r = "relevant" => jobs'[m].status = "awaiting_relevant"
      /\ r = "context_required" => jobs'[m].status = "awaiting_context"
  BY <1>1, <1>2, ApplyType DEF IInv
<1>7. TypeOK'
  BY <1>1, <1>5, <1>6, TxIdleType DEF IInv, TypeOK
<1>8. RowOK(m)'
  BY <1>1, <1>2, <1>5, <1>6
     DEF RowOK, FinalResult, Stage2Allowed, Waiting, Downstream, Result, NoJob,
         MaxRetries
<1> QED
  BY <1>m, <1>1, <1>5, <1>6, <1>7, <1>8, CommitInv DEF Finish

LEMMA Stage2CommitInv ==
  ASSUME IInv, NEW w \in Worker, Stage2Commit(w)
  PROVE  IInv'
<1>m. PICK m : m = tx[w].message
  OBVIOUS
<1>r. PICK r : r = tx[w].answer
  OBVIOUS
<1>1. /\ tx[w] # Idle
      /\ w \in ClassifyWorker
      /\ r \in Result
      /\ RecordStage(m, 2, r)
      /\ ApplyResult(m, r)
      /\ Finish(w)
      /\ UNCHANGED <<questions, chats, seen, dropped>>
  BY <1>m, <1>r DEF Stage2Commit, HandlerGot, At
<1>2. /\ m \in Message
      /\ jobs[m] \in Job
      /\ m \in seen
      /\ questions[m] = "absent"
      /\ chats[ChatOf[m]] # "removed"
  BY <1>m, <1>1, HeldJob
<1>3. jobs[m].status = "awaiting_context" /\ r \in {"relevant", "irrelevant"}
  BY <1>m, <1>r, <1>1 DEF IInv, AnswerFitsJob, FinalAnswer, Result, Error
<1>4. runs[m][1] = "context_required" /\ runs[m][2] = "none"
  BY <1>2, <1>3, InvParts DEF RowOK, Stage2Allowed
<1>5. /\ runs' \in [Message -> [1..2 -> Result \cup {"none"}]]
      /\ usage' \in Nat
      /\ runs'[m][1] = "context_required"
      /\ runs'[m][2] = r
      /\ \A n \in Message : n # m => runs'[n] = runs[n]
  BY <1>1, <1>2, <1>4, RecordType DEF IInv
<1>6. /\ jobs' \in [Message -> Job \cup {NoJob}]
      /\ \A n \in Message : n # m => jobs'[n] = jobs[n]
      /\ r = "irrelevant" => jobs'[m] = NoJob
      /\ r # "irrelevant" => jobs'[m] \in Job /\ jobs'[m].attempts = 0
      /\ r = "relevant" => jobs'[m].status = "awaiting_relevant"
  BY <1>1, <1>2, ApplyType DEF IInv
<1>7. TypeOK'
  BY <1>1, <1>5, <1>6, TxIdleType DEF IInv, TypeOK
<1>8. RowOK(m)'
  BY <1>1, <1>2, <1>3, <1>5, <1>6
     DEF RowOK, FinalResult, Stage2Allowed, Waiting, Downstream, NoJob, MaxRetries
<1> QED
  BY <1>m, <1>1, <1>5, <1>6, <1>7, <1>8, CommitInv DEF Finish

\* Steps that change nothing but the job of the message they hold.
LEMMA JobStepInv ==
  ASSUME IInv, NEW w \in Worker, tx[w] # Idle, NEW m, m = tx[w].message,
         NEW job \in Job, jobs' = [jobs EXCEPT ![m] = job], RowOK(m)', Finish(w),
         UNCHANGED <<runs, questions, usage, chats, seen, dropped>>
  PROVE  IInv'
<1>1. m \in Message
  BY HeldJob
<1>2. TypeOK'
  BY <1>1, TxIdleType DEF IInv, TypeOK
<1>3. \A n \in Message : n # m => jobs'[n] = jobs[n]
  BY DEF IInv, TypeOK
<1> QED
  BY <1>2, <1>3, CommitInv DEF Finish

LEMMA SaveChainInv ==
  ASSUME IInv, NEW w \in Worker, SaveChain(w)
  PROVE  IInv'
<1>m. PICK m : m = tx[w].message
  OBVIOUS
<1>j. PICK job : job = [jobs[m] EXCEPT !.snapshot = tx[w].answer, !.attempts = 0]
  OBVIOUS
<1>1. tx[w] # Idle /\ tx[w].answer \in {"available", "unavailable"}
  BY <1>m DEF SaveChain, HandlerGot, At
<1>2. /\ m \in Message
      /\ jobs[m] \in Job
      /\ jobs[m] # NoJob
      /\ RowOK(m)
  BY <1>m, <1>1, HeldJob, InvParts DEF Job, NoJob
<1>3. jobs[m].status \in Downstream
  BY <1>m, <1>1, KindOfWorker DEF IInv, WorkersHoldClaimable, Claimable, SaveChain
<1>4. job \in Job
  <2>1. 0 \in 0..(MaxRetries + 1) /\ "failed" \in Waiting \cup Downstream \cup {"failed"}
    BY DEF MaxRetries
  <2> QED
    BY <1>m, <1>j, <1>1, <1>2, <2>1, JobChanged
<1>5. jobs' = [jobs EXCEPT ![m] = job]
  BY <1>m, <1>j, <1>2 DEF SaveChain, IInv, TypeOK
<1>6. jobs'[m] = job /\ job.status = jobs[m].status /\ job.attempts = 0
  BY <1>j, <1>2, <1>5 DEF IInv, TypeOK, Job
<1>7. UNCHANGED <<runs, questions, usage, chats, seen, dropped>> /\ Finish(w)
  BY DEF SaveChain
<1>8. RowOK(m)'
  BY <1>2, <1>3, <1>4, <1>6, <1>7
     DEF RowOK, FinalResult, Stage2Allowed, Waiting, Downstream, NoJob, MaxRetries, Job
<1> QED
  BY <1>m, <1>1, <1>4, <1>5, <1>7, <1>8, JobStepInv

LEMMA RetryJobInv ==
  ASSUME IInv, NEW w \in Worker, RetryJob(w)
  PROVE  IInv'
<1>m. PICK m : m = tx[w].message
  OBVIOUS
<1>j. PICK job : job = [jobs[m] EXCEPT !.status = StatusForRetry(w, m),
                                       !.attempts = AttemptsNow(m)]
  OBVIOUS
<1>1. tx[w] # Idle /\ ~Exhausted(m) /\ Finish(w)
  BY <1>m DEF RetryJob, HandlerGot, At
<1>2. /\ m \in Message
      /\ jobs[m] \in Job
      /\ jobs[m].status \in Waiting \cup Downstream
      /\ RowOK(m)
  BY <1>m, <1>1, HeldJob, InvParts
<1>3. /\ jobs[m].status \in Waiting => StatusForRetry(w, m) \in Waiting
      /\ jobs[m].status \in Downstream => StatusForRetry(w, m) = jobs[m].status
  BY <1>m, <1>1, KindOfWorker
     DEF IInv, WorkersHoldClaimable, Claimable, StatusForRetry, Waiting, Downstream, Worker
<1>4. AttemptsNow(m) \in 0..MaxRetries
  BY <1>1, <1>2 DEF Exhausted, AttemptsNow, Job, MaxRetries
<1>5. job \in Job
  <2>1. StatusForRetry(w, m) \in Waiting \cup Downstream \cup {"failed"}
    BY <1>2, <1>3
  <2>2. AttemptsNow(m) \in 0..(MaxRetries + 1)
    BY <1>4 DEF MaxRetries
  <2> QED
    BY <1>j, <1>2, <2>1, <2>2, JobChanged
<1>6. jobs' = [jobs EXCEPT ![m] = job]
  BY <1>m, <1>j, <1>2 DEF RetryJob, IInv, TypeOK
<1>7. /\ jobs'[m] = job
      /\ job.status = StatusForRetry(w, m)
      /\ job.attempts <= MaxRetries
      /\ job.snapshot = jobs[m].snapshot
  BY <1>j, <1>2, <1>4, <1>6 DEF IInv, TypeOK, Job, MaxRetries
<1>8. UNCHANGED <<runs, questions, usage, chats, seen, dropped>>
  BY DEF RetryJob
<1>9. RowOK(m)'
  BY <1>2, <1>3, <1>5, <1>7, <1>8
     DEF RowOK, FinalResult, Stage2Allowed, Waiting, Downstream, NoJob, Job
<1> QED
  BY <1>m, <1>1, <1>5, <1>6, <1>8, <1>9, JobStepInv

LEMMA FailJobInv ==
  ASSUME IInv, NEW w \in Worker, FailJob(w)
  PROVE  IInv'
<1>m. PICK m : m = tx[w].message
  OBVIOUS
<1>j. PICK job : job = [jobs[m] EXCEPT !.status = "failed", !.attempts = AttemptsNow(m)]
  OBVIOUS
<1>1. tx[w] # Idle /\ Finish(w)
  BY <1>m DEF FailJob, HandlerGot, At
<1>2. /\ m \in Message
      /\ jobs[m] \in Job
      /\ jobs[m].status \in Waiting \cup Downstream
      /\ RowOK(m)
  BY <1>m, <1>1, HeldJob, InvParts
<1>3. AttemptsNow(m) \in 0..(MaxRetries + 1)
  BY <1>2 DEF AttemptsNow, Job, MaxRetries, RowOK
<1>4. job \in Job
  BY <1>j, <1>2, <1>3 DEF Job
<1>5. jobs' = [jobs EXCEPT ![m] = job]
  BY <1>m, <1>j, <1>2 DEF FailJob, IInv, TypeOK
<1>6. jobs'[m] = job /\ job.status = "failed"
  BY <1>j, <1>2, <1>5 DEF IInv, TypeOK, Job
<1>7. UNCHANGED <<runs, questions, usage, chats, seen, dropped>>
  BY DEF FailJob
<1>8. FinalResult(m) # "irrelevant"
  BY <1>2 DEF RowOK, FinalResult, Stage2Allowed, Waiting, Downstream
<1>9. RowOK(m)'
  BY <1>2, <1>4, <1>6, <1>7, <1>8
     DEF RowOK, FinalResult, Stage2Allowed, Waiting, Downstream, NoJob, Job
<1> QED
  BY <1>m, <1>1, <1>4, <1>5, <1>7, <1>9, JobStepInv

LEMMA PersistQuestionInv ==
  ASSUME IInv, NEW w \in Worker, PersistQuestion(w)
  PROVE  IInv'
<1>m. PICK m : m = tx[w].message
  OBVIOUS
<1>1. tx[w] # Idle /\ tx[w].answer = "ready" /\ w \in ClassifyWorker /\ Finish(w)
  BY <1>m DEF PersistQuestion, HandlerGot, At
<1>2. /\ m \in Message
      /\ jobs[m] \in Job
      /\ m \in seen
      /\ questions[m] = "absent"
      /\ RowOK(m)
  BY <1>m, <1>1, HeldJob, InvParts
<1>3. jobs[m].status = "awaiting_relevant"
  BY <1>m, <1>1 DEF IInv, AnswerFitsJob, FinalAnswer, Error
<1>4. /\ questions' = [questions EXCEPT ![m] = "linked"]
      /\ jobs' = [jobs EXCEPT ![m] = NoJob]
      /\ chats[ChatOf[m]] = "present"
      /\ UNCHANGED <<runs, usage, chats, seen, dropped>>
  BY <1>m, <1>2 DEF PersistQuestion, HasQuestion, Complete
<1>5. TypeOK'
  BY <1>1, <1>2, <1>4, TxIdleType DEF IInv, TypeOK
<1>6. jobs'[m] = NoJob /\ questions'[m] = "linked"
  BY <1>2, <1>4 DEF IInv, TypeOK
<1>7. RowOK(m)'
  BY <1>2, <1>3, <1>4, <1>6
     DEF RowOK, FinalResult, Stage2Allowed, Waiting, Downstream, NoJob
<1>8. \A n \in Message : n # m =>
        jobs'[n] = jobs[n] /\ runs'[n] = runs[n] /\ questions'[n] = questions[n]
  BY <1>4 DEF IInv, TypeOK
<1> QED
  BY <1>m, <1>1, <1>4, <1>5, <1>7, <1>8, CommitInv DEF Finish

-----------------------------------------------------------------------------
(* Steps of the chats, of ingestion and of the retention.                    *)

\* A chat that does not become removed leaves the rows of its messages right.
LEMMA ChatsInv ==
  ASSUME IInv, NEW c \in Chat, NEW s \in {"present", "removing"},
         chats' = [chats EXCEPT ![c] = s],
         UNCHANGED <<jobs, runs, questions, usage, tx, seen, dropped>>
  PROVE  IInv'
<1>1. TypeOK'
  BY DEF IInv, TypeOK
<1>2. WorkersOK'
  BY DEF IInv, WorkersOK, ExclusiveJobs, WorkersHoldClaimable, AnswerFitsJob, Claimable
<1>3. ASSUME NEW m \in Message PROVE RowOK(m)'
  <2>1. RowOK(m)
    BY InvParts
  <2>2. chats'[ChatOf[m]] = "removed" => chats[ChatOf[m]] = "removed"
    BY DEF IInv, TypeOK
  <2> QED
    BY <2>1, <2>2 DEF RowOK, FinalResult, Stage2Allowed
<1> QED
  BY <1>1, <1>2, <1>3, InvPartsNext

LEMMA BeginRemoveInv ==
  ASSUME IInv, NEW c \in Chat, BeginRemove(c)
  PROVE  IInv'
BY ChatsInv DEF BeginRemove

LEMMA PersistDeadlockInv ==
  ASSUME IInv, NEW w \in Worker, PersistDeadlock(w)
  PROVE  IInv'
<1>1. /\ tx[w] # Idle
      /\ tx[w].step = "answered"
      /\ tx[w].answer = "ready"
      /\ w \in ClassifyWorker
      /\ UNCHANGED <<jobs, runs, questions, usage, seen, dropped>>
  BY DEF PersistDeadlock, HandlerGot, At
<1>2. CASE tx' = [tx EXCEPT ![w].answer = "retryable"] /\ UNCHANGED chats
  <2>1. Fits(w, tx[w].message, "retryable") /\ "retryable" \in Answer
    BY <1>1, KindOfWorker DEF IInv, AnswerFitsJob, Fits, Answer, Error, FinalAnswer
  <2>2. tx[w] \in Transaction
    BY <1>1, Busy DEF IInv
  <2>3. tx' = [tx EXCEPT ![w].step = "answered", ![w].answer = "retryable"]
    <3>1. PICK t \in Transaction : t = tx[w]
      BY <2>2
    <3>2. [t EXCEPT !.answer = "retryable"]
            = [t EXCEPT !.step = "answered", !.answer = "retryable"]
      BY ONLY <1>1, <3>1 DEF Transaction
    <3>. QED
      BY <1>2, <3>1, <3>2
  <2> QED
    BY <1>1, <1>2, <2>1, <2>3, AnswerInv
<1>3. CASE /\ chats' = [chats EXCEPT ![ChatOf[tx[w].message]] = "present"]
           /\ UNCHANGED tx
  <2>1. ChatOf[tx[w].message] \in Chat
    BY <1>1, HeldJob, WorkersAssumption
  <2> QED
    BY <1>1, <1>3, <2>1, ChatsInv
<1> QED
  BY <1>2, <1>3 DEF PersistDeadlock

\* A step of nobody's transaction that leaves the jobs of locked messages alone.
LEMMA WorkersKept ==
  ASSUME IInv, UNCHANGED tx,
         \A m \in Message : Locked(m) => jobs'[m] = jobs[m]
  PROVE  WorkersOK'
<1>1. \A w \in Worker : tx[w] # Idle =>
        jobs'[tx[w].message] = jobs[tx[w].message]
  BY Busy DEF IInv, Locked
<1>2. ExclusiveJobs'
  BY DEF IInv, ExclusiveJobs
<1>3. WorkersHoldClaimable'
  BY <1>1 DEF IInv, WorkersHoldClaimable, Claimable
<1>4. AnswerFitsJob'
  BY <1>1 DEF IInv, AnswerFitsJob
<1> QED
  BY <1>2, <1>3, <1>4 DEF WorkersOK

LEMMA EnqueueInv ==
  ASSUME IInv, NEW m \in Message, Enqueue(m)
  PROVE  IInv'
<1> USE DEF Enqueue
<1>1. NewJob \in Job
  BY DEF NewJob, Job, Waiting, MaxRetries
<1>2. TypeOK'
  BY <1>1 DEF IInv, TypeOK
<1>3. ~Locked(m)
  BY HeldJob DEF Locked
<1>4. WorkersOK'
  BY <1>3, WorkersKept DEF IInv, TypeOK
<1>5. ASSUME NEW n \in Message PROVE RowOK(n)'
  <2>1. RowOK(n)
    BY InvParts
  <2>2. CASE n = m
    <3>1. jobs'[n] = NewJob /\ jobs'[n] # NoJob
      BY <2>2 DEF IInv, TypeOK, NewJob, NoJob
    <3> QED
      BY <2>1, <2>2, <3>1
         DEF RowOK, FinalResult, Stage2Allowed, NewJob, Waiting, Downstream, MaxRetries
  <2>3. CASE n # m
    <3>1. jobs'[n] = jobs[n] /\ (n \in seen' <=> n \in seen)
      BY <2>3 DEF IInv, TypeOK
    <3> QED
      BY <2>1, <3>1 DEF RowOK, FinalResult, Stage2Allowed
  <2> QED
    BY <2>2, <2>3
<1> QED
  BY <1>2, <1>4, <1>5, InvPartsNext

LEMMA CleanUpInv ==
  ASSUME IInv, NEW oldJobs \in SUBSET Message, NEW oldQuestions \in SUBSET Message,
         CleanUp(oldJobs, oldQuestions)
  PROVE  IInv'
<1> USE DEF CleanUp
<1>1. TypeOK'
  BY DEF IInv, TypeOK
<1>2. WorkersOK'
  BY WorkersKept
<1>3. ASSUME NEW m \in Message PROVE RowOK(m)'
  <2>1. RowOK(m) /\ UNCHANGED <<runs, chats, seen>>
    BY InvParts
  <2>2. /\ jobs'[m] = IF m \in oldJobs THEN NoJob ELSE jobs[m]
        /\ questions'[m] = IF m \in oldQuestions THEN "expired" ELSE questions[m]
        /\ m \in dropped' <=> m \in dropped \/ m \in oldJobs
        /\ m \in oldJobs => jobs[m] # NoJob
        /\ m \in oldQuestions => questions[m] # "absent"
    BY DEF HasQuestion
  <2>3. CASE m \in oldJobs
    BY <2>1, <2>2, <2>3
       DEF RowOK, FinalResult, Stage2Allowed, NoJob, Waiting, Downstream
  <2>4. CASE m \notin oldJobs
    BY <2>1, <2>2, <2>4 DEF RowOK, FinalResult, Stage2Allowed
  <2> QED
    BY <2>3, <2>4
<1> QED
  BY <1>1, <1>2, <1>3, InvPartsNext

LEMMA FinishRemoveInv ==
  ASSUME IInv, NEW c \in Chat, FinishRemove(c)
  PROVE  IInv'
<1>0. PICK gone : gone = {m \in Message : ChatOf[m] = c /\ jobs[m] # NoJob}
  OBVIOUS
<1>1. /\ \A m \in gone : ~Locked(m)
      /\ chats' = [chats EXCEPT ![c] = "removed"]
      /\ jobs' = [m \in Message |-> IF m \in gone THEN NoJob ELSE jobs[m]]
      /\ questions' = [m \in Message |->
                         IF ChatOf[m] = c THEN Detached(questions[m]) ELSE questions[m]]
      /\ dropped' = dropped \cup gone
      /\ UNCHANGED <<runs, usage, tx, seen>>
  BY <1>0 DEF FinishRemove
<1>2. TypeOK'
  BY <1>0, <1>1 DEF IInv, TypeOK, Detached
<1>3. WorkersOK'
  BY <1>1, WorkersKept
<1>4. ASSUME NEW m \in Message PROVE RowOK(m)'
  <2>1. RowOK(m) /\ UNCHANGED <<runs, seen>> /\ ChatOf[m] \in Chat
    BY <1>1, InvParts, WorkersAssumption
  <2>2. CASE ChatOf[m] = c
    <3>1. /\ jobs'[m] = NoJob
          /\ questions'[m] # "linked"
          /\ questions'[m] = "absent" <=> questions[m] = "absent"
          /\ jobs[m] # NoJob => m \in dropped'
          /\ m \in dropped => m \in dropped'
      BY <1>0, <1>1, <2>2 DEF IInv, TypeOK, Detached
    <3> QED
      BY <2>1, <3>1 DEF RowOK, FinalResult, Stage2Allowed, NoJob, Waiting, Downstream
  <2>3. CASE ChatOf[m] # c
    <3>1. /\ jobs'[m] = jobs[m] /\ questions'[m] = questions[m]
          /\ m \in dropped => m \in dropped'
          /\ chats'[ChatOf[m]] = chats[ChatOf[m]]
      BY <1>0, <1>1, <2>1, <2>3 DEF IInv, TypeOK
    <3> QED
      BY <2>1, <3>1 DEF RowOK, FinalResult, Stage2Allowed
  <2> QED
    BY <2>2, <2>3
<1> QED
  BY <1>2, <1>3, <1>4, InvPartsNext

-----------------------------------------------------------------------------
LEMMA SettleInv ==
  ASSUME IInv, NEW w \in Worker, Settle(w)
  PROVE  IInv'
BY Stage1CommitInv, SaveChainInv, Stage2CommitInv, PersistQuestionInv, RetryJobInv,
   FailJobInv DEF Settle

LEMMA WorkerStepInv ==
  ASSUME IInv, NEW w \in Worker, WorkerStep(w)
  PROVE  IInv'
BY ClaimInv, HandleInv, SettleInv, PersistDeadlockInv, AbortInv DEF WorkerStep

LEMMA NextInv ==
  ASSUME IInv, [Next]_vars
  PROVE  IInv'
<1>1. CASE Next
  BY <1>1, EnqueueInv, CleanUpInv, WorkerStepInv, BeginRemoveInv, FinishRemoveInv
     DEF Next
<1>2. CASE UNCHANGED vars
  <2>1. TypeOK'
    BY <1>2 DEF vars, IInv, TypeOK
  <2>2. WorkersOK'
    BY <1>2, WorkersKept DEF vars
  <2> QED
    BY <1>2, <2>1, <2>2, RowsKept DEF vars
<1> QED
  BY <1>1, <1>2

\* The strengthening that carries every safety property below: it holds in
\* every state that workers, retention and chat removals can reach.
THEOREM PipelineInvariant == Spec => []IInv
<1>1. Init => IInv
  BY InitInv
<1>2. IInv /\ [Next]_vars => IInv'
  BY NextInv
<1> QED
  BY <1>1, <1>2, PTL DEF Spec

\* Rows, runs, transactions and chats have the values their columns allow; in
\* particular no committed job is "processing".
THEOREM PipelineTypes == Spec => []TypeOK
BY PipelineInvariant, PTL DEF IInv

\* A job's status always agrees with the classification runs of its message,
\* whatever workers, retries and aborts come between.
THEOREM PipelineRoutes == Spec => []RouteMatchesRuns
BY PipelineInvariant, PTL DEF IInv

\* A message that was enqueued is never lost without a result, a question, or
\* a deletion by the retention or with its chat.
THEOREM PipelineLosesNothing == Spec => []NothingLost
BY PipelineInvariant, PTL DEF IInv

\* A job a worker may claim has failed at most MaxRetries times in its phase.
THEOREM PipelineAttempts == Spec => []AttemptsBounded
BY PipelineInvariant, PTL DEF IInv

\* Two workers never hold the same message, and what a worker holds is still
\* there and still of its phase when it commits.
THEOREM PipelineExclusion == Spec => [](ExclusiveJobs /\ WorkersHoldClaimable)
BY PipelineInvariant, PTL DEF IInv

\* Nothing refers to a chat that has been removed.
THEOREM PipelineRemovals == Spec => []RemovedChatIsGone
BY PipelineInvariant, PTL DEF IInv

-----------------------------------------------------------------------------
(* Action property: what MovesForward asks of the rows of one message.       *)
Forward(m) ==
  /\ jobs[m].status \in Downstream /\ jobs'[m] # NoJob =>
       /\ jobs'[m].status \notin Waiting
       /\ jobs[m].snapshot # "none" => jobs'[m].snapshot = jobs[m].snapshot
  /\ jobs[m].status = "failed" => jobs'[m] \in {jobs[m], NoJob}
  /\ \A s \in 1..2 : runs[m][s] # "none" => runs'[m][s] = runs[m][s]

\* Rows that stay, or whose job is deleted, move forward.
LEMMA KeptForward ==
  ASSUME NEW m \in Message, jobs'[m] \in {jobs[m], NoJob}, runs'[m] = runs[m]
  PROVE  Forward(m)
BY DEF Forward, Waiting, Downstream

LEMMA Stage1Forward ==
  ASSUME IInv, NEW w \in Worker, Stage1Commit(w), NEW n \in Message
  PROVE  Forward(n)
<1>m. PICK m : m = tx[w].message
  OBVIOUS
<1>r. PICK r : r = tx[w].answer
  OBVIOUS
<1>1. tx[w] # Idle /\ r \in Result /\ RecordStage(m, 1, r) /\ ApplyResult(m, r)
  BY <1>m, <1>r DEF Stage1Commit, HandlerGot, At
<1>2. m \in Message /\ jobs[m] \in Job
  BY <1>m, <1>1, HeldJob
<1>3. jobs[m].status \in Waiting
  BY <1>m, <1>1, KindOfWorker DEF IInv, WorkersHoldClaimable, Claimable, Stage1Commit
<1>4. runs[m][1] = "none" /\ runs[m][2] = "none"
  BY <1>2, <1>3, InvParts DEF RowOK
<1>5. CASE n = m
  BY <1>3, <1>4, <1>5 DEF Forward, Waiting, Downstream
<1>6. CASE n # m
  <2>1. jobs'[n] = jobs[n]
    BY <1>1, <1>2, <1>6, ApplyType DEF IInv
  <2>2. runs'[n] = runs[n]
    BY <1>1, <1>2, <1>4, <1>6, RecordType DEF IInv
  <2> QED
    BY <2>1, <2>2, KeptForward
<1> QED
  BY <1>5, <1>6

LEMMA Stage2Forward ==
  ASSUME IInv, NEW w \in Worker, Stage2Commit(w), NEW n \in Message
  PROVE  Forward(n)
<1>m. PICK m : m = tx[w].message
  OBVIOUS
<1>r. PICK r : r = tx[w].answer
  OBVIOUS
<1>1. /\ tx[w] # Idle /\ w \in ClassifyWorker
      /\ r \in Result /\ RecordStage(m, 2, r) /\ ApplyResult(m, r)
  BY <1>m, <1>r DEF Stage2Commit, HandlerGot, At
<1>2. m \in Message /\ jobs[m] \in Job
  BY <1>m, <1>1, HeldJob
<1>3. jobs[m].status = "awaiting_context" /\ r \in {"relevant", "irrelevant"}
  BY <1>m, <1>r, <1>1 DEF IInv, AnswerFitsJob, FinalAnswer, Result, Error
<1>4. runs[m][2] = "none"
  BY <1>2, <1>3, InvParts DEF RowOK, Stage2Allowed
<1>5. CASE n = m
  <2>1. runs'[m][1] = runs[m][1]
    BY <1>1, <1>2, <1>4, RecordType DEF IInv
  <2>2. /\ r = "irrelevant" => jobs'[m] = NoJob
        /\ r = "relevant" => /\ jobs'[m].status = "awaiting_relevant"
                             /\ jobs'[m].snapshot = jobs[m].snapshot
    BY <1>1, <1>2, ApplyType DEF IInv
  <2> QED
    BY <1>3, <1>4, <1>5, <2>1, <2>2 DEF Forward, Waiting
<1>6. CASE n # m
  <2>1. jobs'[n] = jobs[n]
    BY <1>1, <1>2, <1>6, ApplyType DEF IInv
  <2>2. runs'[n] = runs[n]
    BY <1>1, <1>2, <1>4, <1>6, RecordType DEF IInv
  <2> QED
    BY <2>1, <2>2, KeptForward
<1> QED
  BY <1>5, <1>6

LEMMA SaveChainForward ==
  ASSUME IInv, NEW w \in Worker, SaveChain(w), NEW n \in Message
  PROVE  Forward(n)
<1>m. PICK m : m = tx[w].message
  OBVIOUS
<1>1. tx[w] # Idle /\ UNCHANGED runs
  BY DEF SaveChain, HandlerGot, At
<1>2. m \in Message /\ jobs[m] \in Job
  BY <1>m, <1>1, HeldJob
<1>3. jobs[m].status \in Downstream /\ jobs[m].snapshot = "none"
  BY <1>m, <1>1, KindOfWorker DEF IInv, WorkersHoldClaimable, Claimable, SaveChain
<1>4. CASE n = m
  <2>1. jobs'[m].status = jobs[m].status
    BY <1>m, <1>2 DEF SaveChain, IInv, TypeOK, Job
  <2> QED
    BY <1>1, <1>3, <1>4, <2>1 DEF Forward, Waiting, Downstream
<1>5. CASE n # m
  BY <1>m, <1>1, <1>5, KeptForward DEF SaveChain, IInv, TypeOK
<1> QED
  BY <1>4, <1>5

LEMMA RetryForward ==
  ASSUME IInv, NEW w \in Worker, RetryJob(w), NEW n \in Message
  PROVE  Forward(n)
<1>m. PICK m : m = tx[w].message
  OBVIOUS
<1>1. tx[w] # Idle /\ UNCHANGED runs
  BY DEF RetryJob, HandlerGot, At
<1>2. m \in Message /\ jobs[m] \in Job /\ jobs[m].status \in Waiting \cup Downstream
  BY <1>m, <1>1, HeldJob
<1>3. jobs[m].status \in Downstream => StatusForRetry(w, m) = jobs[m].status
  BY <1>m, <1>1, KindOfWorker
     DEF IInv, WorkersHoldClaimable, Claimable, StatusForRetry, Waiting, Downstream
<1>4. CASE n = m
  <2>1. jobs'[m].status = StatusForRetry(w, m) /\ jobs'[m].snapshot = jobs[m].snapshot
    BY <1>m, <1>2 DEF RetryJob, IInv, TypeOK, Job
  <2> QED
    BY <1>1, <1>2, <1>3, <1>4, <2>1 DEF Forward, Waiting, Downstream
<1>5. CASE n # m
  BY <1>m, <1>1, <1>5, KeptForward DEF RetryJob, IInv, TypeOK
<1> QED
  BY <1>4, <1>5

LEMMA FailForward ==
  ASSUME IInv, NEW w \in Worker, FailJob(w), NEW n \in Message
  PROVE  Forward(n)
<1>m. PICK m : m = tx[w].message
  OBVIOUS
<1>1. tx[w] # Idle /\ UNCHANGED runs
  BY DEF FailJob, HandlerGot, At
<1>2. m \in Message /\ jobs[m] \in Job /\ jobs[m].status \in Waiting \cup Downstream
  BY <1>m, <1>1, HeldJob
<1>3. CASE n = m
  <2>1. jobs'[m].status = "failed" /\ jobs'[m].snapshot = jobs[m].snapshot
    BY <1>m, <1>2 DEF FailJob, IInv, TypeOK, Job
  <2> QED
    BY <1>1, <1>2, <1>3, <2>1 DEF Forward, Waiting, Downstream
<1>4. CASE n # m
  BY <1>m, <1>1, <1>4, KeptForward DEF FailJob, IInv, TypeOK
<1> QED
  BY <1>3, <1>4

LEMMA NextForward ==
  ASSUME IInv, Next, NEW n \in Message
  PROVE  Forward(n)
<1>1. ASSUME NEW m \in Message, Enqueue(m) PROVE Forward(n)
  <2>1. jobs[m] = NoJob /\ UNCHANGED runs
    BY <1>1 DEF Enqueue, IInv, OnlySeenExists
  <2>2. CASE n = m
    BY <2>1, <2>2 DEF Forward, NoJob, Downstream
  <2>3. CASE n # m
    BY <1>1, <2>1, <2>3, KeptForward DEF Enqueue, IInv, TypeOK
  <2> QED
    BY <2>2, <2>3
<1>2. ASSUME NEW oldJobs \in SUBSET Message, NEW oldQuestions \in SUBSET Message,
             CleanUp(oldJobs, oldQuestions)
      PROVE  Forward(n)
  BY <1>2, KeptForward DEF CleanUp
<1>3. ASSUME NEW w \in Worker, WorkerStep(w) PROVE Forward(n)
  <2>1. CASE Settle(w)
    <3>1. CASE PersistQuestion(w)
      BY <3>1, KeptForward DEF PersistQuestion, Complete, IInv, TypeOK
    <3> QED
      BY <2>1, <3>1, Stage1Forward, SaveChainForward, Stage2Forward, RetryForward,
         FailForward DEF Settle
  <2>2. CASE ~Settle(w)
    <3>1. UNCHANGED <<jobs, runs>>
      BY <1>3, <2>2
         DEF WorkerStep, Claim, Handle, Stage1Ask, LoadChain, Stage2Ask, Translate,
             HandlerGets, PersistDeadlock, Abort
    <3> QED
      BY <3>1, KeptForward
  <2> QED
    BY <2>1, <2>2
<1>4. ASSUME NEW c \in Chat, BeginRemove(c) \/ FinishRemove(c) PROVE Forward(n)
  BY <1>4, KeptForward DEF BeginRemove, FinishRemove
<1> QED
  BY <1>1, <1>2, <1>3, <1>4 DEF Next

\* A job never returns before Stage 1, no recorded result or snapshot is ever
\* replaced, and a failed job is not claimed again, by any step.
THEOREM PipelineMovesForward == Spec => MovesForward
<1>1. IInv /\ [Next]_vars =>
        [\A m \in Message :
           /\ jobs[m].status \in Downstream /\ jobs'[m] # NoJob =>
                /\ jobs'[m].status \notin Waiting
                /\ jobs[m].snapshot # "none" => jobs'[m].snapshot = jobs[m].snapshot
           /\ jobs[m].status = "failed" => jobs'[m] \in {jobs[m], NoJob}
           /\ \A s \in 1..2 : runs[m][s] # "none" => runs'[m][s] = runs[m][s]]_vars
  BY NextForward DEF Forward
<1> QED
  BY <1>1, PipelineInvariant, PTL DEF Spec, MovesForward

-----------------------------------------------------------------------------
(* The daily aggregate counts the recorded runs.                             *)
Recorded == {r \in Message \X (1..2) : runs[r[1]][r[2]] # "none"}

LEMMA RecordedFinite == IsFiniteSet(Recorded)
<1>1. IsFiniteSet(Message)
  BY WorkersAssumption
<1>2. 1 \in Int /\ 2 \in Int
  OBVIOUS
<1>3. IsFiniteSet(1..2)
  BY <1>2, FS_Interval
<1>4. IsFiniteSet(Message \X (1..2))
  BY <1>1, <1>3, FS_Product
<1>5. Recorded \in SUBSET (Message \X (1..2))
  BY DEF Recorded
<1> QED
  BY <1>4, <1>5, FS_Subset

LEMMA RecordUsage ==
  ASSUME TypeOK, UsageMatchesRuns, NEW m \in Message, NEW s \in 1..2,
         NEW r \in Result, RecordStage(m, s, r)
  PROVE  UsageMatchesRuns'
<1>1. CASE runs[m][s] = "none"
  <2>1. /\ runs' \in [Message -> [1..2 -> Result \cup {"none"}]]
        /\ runs'[m][s] = r
        /\ \A i \in 1..2 : i # s => runs'[m][i] = runs[m][i]
        /\ \A n \in Message : n # m => runs'[n] = runs[n]
    BY <1>1, RecordType
  <2>2. <<m, s>> \notin Recorded
    BY <1>1 DEF Recorded
  <2>3. Recorded' = Recorded \cup {<<m, s>>}
    <3>1. ASSUME NEW n \in Message, NEW i \in 1..2
          PROVE  <<n, i>> \in Recorded' <=> <<n, i>> \in Recorded \cup {<<m, s>>}
      BY <2>1, ResultNotNone DEF Recorded
    <3>2. /\ Recorded' \subseteq Message \X (1..2)
          /\ Recorded \cup {<<m, s>>} \subseteq Message \X (1..2)
      BY DEF Recorded
    <3>3. ASSUME NEW e \in Message \X (1..2)
          PROVE  e \in Recorded' <=> e \in Recorded \cup {<<m, s>>}
      <4>1. PICK n \in Message, i \in 1..2 : e = <<n, i>>
        OBVIOUS
      <4> QED
        BY <3>1, <4>1
    <3> QED
      BY <3>2, <3>3
  <2>4. usage' = usage + 1
    BY <1>1 DEF RecordStage
  <2>5. Cardinality(Recorded') = Cardinality(Recorded) + 1
    BY <2>2, <2>3, RecordedFinite, FS_AddElement
  <2> QED
    BY <2>4, <2>5 DEF UsageMatchesRuns, Recorded
<1>2. CASE runs[m][s] # "none"
  BY <1>2 DEF RecordStage, UsageMatchesRuns
<1> QED
  BY <1>1, <1>2

LEMMA NextUsage ==
  ASSUME IInv, UsageMatchesRuns, [Next]_vars
  PROVE  UsageMatchesRuns'
<1>1. ASSUME UNCHANGED <<runs, usage>> PROVE UsageMatchesRuns'
  <2>1. Recorded' = Recorded
    BY <1>1 DEF Recorded
  <2> QED
    BY <1>1, <2>1 DEF UsageMatchesRuns, Recorded
<1>2. ASSUME NEW w \in Worker, WorkerStep(w) PROVE UsageMatchesRuns'
  <2>1. CASE Stage1Commit(w)
    <3>1. /\ tx[w] # Idle /\ tx[w].answer \in Result
          /\ RecordStage(tx[w].message, 1, tx[w].answer)
      BY <2>1 DEF Stage1Commit, HandlerGot, At
    <3> QED
      BY <3>1, HeldJob, RecordUsage DEF IInv
  <2>2. CASE Stage2Commit(w)
    <3>1. /\ tx[w] # Idle /\ tx[w].answer \in Result
          /\ RecordStage(tx[w].message, 2, tx[w].answer)
      BY <2>2 DEF Stage2Commit, HandlerGot, At
    <3> QED
      BY <3>1, HeldJob, RecordUsage DEF IInv
  <2>3. CASE ~Stage1Commit(w) /\ ~Stage2Commit(w)
    <3>1. UNCHANGED <<runs, usage>>
      BY <1>2, <2>3
         DEF WorkerStep, Claim, Handle, Stage1Ask, LoadChain, Stage2Ask, Translate,
             HandlerGets, Settle, SaveChain, PersistQuestion, RetryJob, FailJob,
             PersistDeadlock, Abort
    <3> QED
      BY <1>1, <3>1
  <2> QED
    BY <2>1, <2>2, <2>3
<1>3. ASSUME Next, \A w \in Worker : ~WorkerStep(w) PROVE UNCHANGED <<runs, usage>>
  BY <1>3 DEF Next, Enqueue, CleanUp, BeginRemove, FinishRemove
<1>4. UNCHANGED vars => UNCHANGED <<runs, usage>>
  BY DEF vars
<1> QED
  BY <1>1, <1>2, <1>3, <1>4

\* Every recorded classification run is counted in the daily aggregate exactly
\* once, whatever is retried, rolled back or deleted.
THEOREM PipelineUsage == Spec => []UsageMatchesRuns
<1>1. Init => UsageMatchesRuns
  <2>1. SUFFICES ASSUME Init PROVE UsageMatchesRuns
    OBVIOUS
  <2>2. Recorded = {}
    BY <2>1 DEF Init, Recorded
  <2>3. Cardinality(Recorded) = 0
    BY <2>2, FS_EmptySet
  <2>4. usage = Cardinality(Recorded)
    BY <2>1, <2>3 DEF Init
  <2> QED
    BY <2>4 DEF UsageMatchesRuns, Recorded
<1>2. IInv /\ UsageMatchesRuns /\ [Next]_vars => UsageMatchesRuns'
  BY NextUsage
<1> QED
  BY <1>1, <1>2, PipelineInvariant, PTL DEF Spec

-----------------------------------------------------------------------------
(* The attempts that a job has left.                                         *)
Spends(m) ==
  \/ jobs'[m] = jobs[m]
  \/ jobs[m].status = "failed" /\ jobs'[m] = NoJob
  \/ AttemptsLeft(m)' \in 0..(AttemptsLeft(m) - 1)

LEMMA LeftNow ==
  ASSUME IInv, NEW m \in Message, jobs[m] \in Job,
         jobs[m].status \in Waiting \cup Downstream
  PROVE  /\ jobs[m].attempts \in 0..4
         /\ jobs[m].status \in Waiting =>
              jobs[m].snapshot = "none" /\ AttemptsLeft(m) = 20 - jobs[m].attempts
         /\ jobs[m].status = "awaiting_context" =>
              AttemptsLeft(m)
                = (IF jobs[m].snapshot = "none" THEN 15 ELSE 10) - jobs[m].attempts
         /\ jobs[m].status = "awaiting_relevant" =>
              AttemptsLeft(m)
                = (IF jobs[m].snapshot = "none" THEN 10 ELSE 5) - jobs[m].attempts
         /\ AttemptsLeft(m) \in 1..20
<1>1. RowOK(m)
  BY InvParts
<1>2. /\ jobs[m].attempts \in 0..4
      /\ jobs[m].status \in Waiting => jobs[m].snapshot = "none"
  BY <1>1 DEF RowOK, Job, MaxRetries
<1>3. CASE jobs[m].status \in Waiting
  BY <1>2, <1>3 DEF AttemptsLeft, PhasesLeft, Waiting, Downstream, MaxRetries
<1>4. CASE jobs[m].status = "awaiting_context"
  BY <1>2, <1>4 DEF AttemptsLeft, PhasesLeft, Waiting, Downstream, MaxRetries
<1>5. CASE jobs[m].status = "awaiting_relevant"
  BY <1>2, <1>5 DEF AttemptsLeft, PhasesLeft, Waiting, Downstream, MaxRetries
<1> QED
  BY <1>2, <1>3, <1>4, <1>5 DEF Downstream, Waiting

LEMMA LeftNext ==
  ASSUME NEW m \in Message, jobs'[m].status \in Waiting \cup Downstream,
         jobs'[m].attempts \in 0..4
  PROVE  /\ jobs'[m].status \in Waiting => AttemptsLeft(m)' = 20 - jobs'[m].attempts
         /\ jobs'[m].status = "awaiting_context" =>
              AttemptsLeft(m)'
                = (IF jobs'[m].snapshot = "none" THEN 15 ELSE 10) - jobs'[m].attempts
         /\ jobs'[m].status = "awaiting_relevant" =>
              AttemptsLeft(m)'
                = (IF jobs'[m].snapshot = "none" THEN 10 ELSE 5) - jobs'[m].attempts
<1>1. CASE jobs'[m].status \in Waiting
  BY <1>1 DEF AttemptsLeft, PhasesLeft, Waiting, Downstream, MaxRetries
<1>2. CASE jobs'[m].status = "awaiting_context"
  BY <1>2 DEF AttemptsLeft, PhasesLeft, Waiting, Downstream, MaxRetries
<1>3. CASE jobs'[m].status = "awaiting_relevant"
  BY <1>3 DEF AttemptsLeft, PhasesLeft, Waiting, Downstream, MaxRetries
<1> QED
  BY <1>1, <1>2, <1>3 DEF Downstream, Waiting

\* A job that waits and ends spends what it had left.
LEMMA EndSpends ==
  ASSUME IInv, NEW m \in Message, jobs[m] \in Job,
         jobs[m].status \in Waiting \cup Downstream,
         jobs'[m].status \in {"failed", "absent"}
  PROVE  Spends(m)
<1>1. AttemptsLeft(m)' = 0
  BY DEF AttemptsLeft, Waiting, Downstream
<1> QED
  BY <1>1, LeftNow DEF Spends

\* An answer of Stage 1 or Stage 2 goes on with the next phase, or ends the job.
LEMMA ResultSpends ==
  ASSUME IInv, NEW m \in Message, jobs[m] \in Job,
         NEW r \in Result, ApplyResult(m, r),
         \/ jobs[m].status \in Waiting
         \/ /\ jobs[m].status = "awaiting_context" /\ jobs[m].snapshot # "none"
            /\ r # "context_required"
  PROVE  Spends(m)
<1>1. jobs[m].status \in Waiting \cup Downstream
  BY DEF Downstream
<1>2. CASE r = "irrelevant"
  <2>1. jobs'[m].status = "absent"
    BY <1>2, ApplyType DEF IInv, NoJob
  <2> QED
    BY <1>1, <2>1, EndSpends
<1>3. CASE r # "irrelevant"
  <2>1. /\ jobs'[m].attempts = 0 /\ jobs'[m].snapshot = jobs[m].snapshot
        /\ r = "relevant" => jobs'[m].status = "awaiting_relevant"
        /\ r = "context_required" => jobs'[m].status = "awaiting_context"
    BY <1>3, ApplyType DEF IInv
  <2>2. jobs'[m].status \in Waiting \cup Downstream /\ jobs'[m].attempts \in 0..4
    BY <1>3, <2>1 DEF Result, Downstream
  <2>3. CASE jobs[m].status \in Waiting
    <3>1. AttemptsLeft(m) \in 16..20 /\ jobs[m].snapshot = "none"
      BY <1>1, <2>3, LeftNow
    <3>2. AttemptsLeft(m)' \in {10, 15}
      BY <1>3, <2>1, <2>2, <3>1, LeftNext DEF Result
    <3> QED
      BY <3>1, <3>2 DEF Spends
  <2>4. CASE jobs[m].status = "awaiting_context"
    <3>1. jobs[m].status \notin Waiting
      BY <2>4 DEF Waiting
    <3>2. AttemptsLeft(m) \in 6..10
      BY <1>1, <2>4, <3>1, LeftNow
    <3>3. AttemptsLeft(m)' = 5
      BY <1>3, <2>1, <2>2, <3>1, LeftNext DEF Result
    <3> QED
      BY <3>2, <3>3 DEF Spends
  <2> QED
    BY <2>3, <2>4
<1> QED
  BY <1>2, <1>3

LEMMA SaveChainSpends ==
  ASSUME IInv, NEW w \in Worker, SaveChain(w), NEW m, m = tx[w].message
  PROVE  Spends(m)
<1>1. tx[w] # Idle /\ tx[w].answer \in {"available", "unavailable"}
  BY DEF SaveChain, HandlerGot, At
<1>2. m \in Message /\ jobs[m] \in Job
  BY <1>1, HeldJob
<1>3. jobs[m].status \in Downstream /\ jobs[m].snapshot = "none"
  BY <1>1, KindOfWorker DEF IInv, WorkersHoldClaimable, Claimable, SaveChain
<1>4. /\ jobs'[m].status = jobs[m].status /\ jobs'[m].attempts = 0
      /\ jobs'[m].snapshot # "none"
  BY <1>1, <1>2 DEF SaveChain, IInv, TypeOK, Job
<1>5. CASE jobs[m].status = "awaiting_context"
  <2>1. AttemptsLeft(m) \in 11..15
    BY <1>2, <1>3, <1>5, LeftNow
  <2>2. AttemptsLeft(m)' = 10
    BY <1>2, <1>3, <1>4, <1>5, LeftNext
  <2> QED
    BY <2>1, <2>2 DEF Spends
<1>6. CASE jobs[m].status = "awaiting_relevant"
  <2>1. AttemptsLeft(m) \in 6..10
    BY <1>2, <1>3, <1>6, LeftNow
  <2>2. AttemptsLeft(m)' = 5
    BY <1>2, <1>3, <1>4, <1>6, LeftNext
  <2> QED
    BY <2>1, <2>2 DEF Spends
<1> QED
  BY <1>3, <1>5, <1>6 DEF Downstream

LEMMA RetrySpends ==
  ASSUME IInv, NEW w \in Worker, RetryJob(w), NEW m, m = tx[w].message
  PROVE  Spends(m)
<1>1. tx[w] # Idle /\ ~Exhausted(m)
  BY DEF RetryJob, HandlerGot, At
<1>2. m \in Message /\ jobs[m] \in Job /\ jobs[m].status \in Waiting \cup Downstream
  BY <1>1, HeldJob
<1>3. /\ jobs[m].status \in Downstream => StatusForRetry(w, m) = jobs[m].status
      /\ jobs[m].status \in Waiting => StatusForRetry(w, m) \in Waiting
  BY <1>1, KindOfWorker
     DEF IInv, WorkersHoldClaimable, Claimable, StatusForRetry, Waiting, Downstream
<1>4. /\ jobs'[m].status = StatusForRetry(w, m) /\ jobs'[m].snapshot = jobs[m].snapshot
      /\ jobs'[m].attempts = jobs[m].attempts + 1
  BY <1>2 DEF RetryJob, AttemptsNow, IInv, TypeOK, Job
<1>5. jobs[m].attempts \in 0..4 /\ jobs'[m].attempts \in 0..4
  BY <1>1, <1>2, <1>4, LeftNow DEF Exhausted, AttemptsNow, MaxRetries
<1>6. jobs'[m].status \in Waiting \cup Downstream
  BY <1>2, <1>3, <1>4
<1>7. AttemptsLeft(m)' = AttemptsLeft(m) - 1
  <2>1. CASE jobs[m].status \in Waiting
    BY <1>2, <1>3, <1>4, <1>5, <1>6, <2>1, LeftNow, LeftNext
  <2>2. CASE jobs[m].status \in Downstream
    BY <1>2, <1>3, <1>4, <1>5, <1>6, <2>2, LeftNow, LeftNext DEF Downstream
  <2> QED
    BY <1>2, <2>1, <2>2
<1>8. AttemptsLeft(m) \in 1..20
  BY <1>2, LeftNow
<1> QED
  BY <1>7, <1>8 DEF Spends

LEMMA SettleSpends ==
  ASSUME IInv, NEW w \in Worker, Settle(w), NEW m, m = tx[w].message
  PROVE  /\ Spends(m)
         /\ \A n \in Message \ {m} : jobs'[n] = jobs[n]
<1>1. tx[w] # Idle
  BY DEF Settle, Stage1Commit, SaveChain, Stage2Commit, PersistQuestion, RetryJob,
         FailJob, HandlerGot, At
<1>2. m \in Message /\ jobs[m] \in Job /\ jobs[m].status \in Waiting \cup Downstream
  BY <1>1, HeldJob
<1>3. CASE Stage1Commit(w)
  <2>1. tx[w].answer \in Result /\ ApplyResult(m, tx[w].answer)
    BY <1>3 DEF Stage1Commit, HandlerGot
  <2>2. jobs[m].status \in Waiting
    BY <1>1, <1>3, KindOfWorker
       DEF IInv, WorkersHoldClaimable, Claimable, Stage1Commit
  <2> QED
    BY <1>2, <2>1, <2>2, ResultSpends, ApplyType DEF IInv
<1>4. CASE Stage2Commit(w)
  <2>1. /\ w \in ClassifyWorker
        /\ tx[w].answer \in Result /\ ApplyResult(m, tx[w].answer)
    BY <1>4 DEF Stage2Commit, HandlerGot
  <2>2. jobs[m].status = "awaiting_context" /\ tx[w].answer # "context_required"
    BY <1>1, <2>1 DEF IInv, AnswerFitsJob, FinalAnswer, Result, Error
  <2>3. jobs[m].snapshot # "none"
    BY <1>1, <2>1, KindOfWorker DEF IInv, WorkersHoldClaimable, Claimable
  <2> QED
    BY <1>2, <2>1, <2>2, <2>3, ResultSpends, ApplyType DEF IInv
<1>5. CASE SaveChain(w)
  BY <1>5, SaveChainSpends DEF SaveChain, IInv, TypeOK
<1>6. CASE RetryJob(w)
  BY <1>6, RetrySpends DEF RetryJob, IInv, TypeOK
<1>7. CASE FailJob(w)
  <2>1. jobs'[m].status = "failed"
    BY <1>2, <1>7 DEF FailJob, IInv, TypeOK, Job
  <2> QED
    BY <1>2, <1>7, <2>1, EndSpends DEF FailJob, IInv, TypeOK
<1>8. CASE PersistQuestion(w)
  <2>1. jobs'[m].status = "absent"
    BY <1>2, <1>8 DEF PersistQuestion, Complete, IInv, TypeOK, NoJob
  <2> QED
    BY <1>2, <1>8, <2>1, EndSpends DEF PersistQuestion, Complete, IInv, TypeOK
<1> QED
  BY <1>3, <1>4, <1>5, <1>6, <1>7, <1>8 DEF Settle

LEMMA NextSpends ==
  ASSUME IInv, Next, NEW n \in seen
  PROVE  Spends(n)
<1>m. n \in Message
  BY DEF IInv, TypeOK
<1>1. ASSUME NEW m \in Message, Enqueue(m) PROVE Spends(n)
  BY <1>m, <1>1 DEF Enqueue, Spends, IInv, TypeOK
<1>2. ASSUME jobs'[n] = NoJob, jobs[n] # NoJob PROVE Spends(n)
  <2>1. jobs[n] \in Job /\ jobs'[n].status = "absent"
    BY <1>m, <1>2 DEF IInv, TypeOK, NoJob
  <2>2. CASE jobs[n].status = "failed"
    BY <1>2, <2>2 DEF Spends
  <2>3. CASE jobs[n].status # "failed"
    BY <1>m, <2>1, <2>3, EndSpends DEF Job
  <2> QED
    BY <2>2, <2>3
<1>3. ASSUME NEW oldJobs \in SUBSET Message, NEW oldQuestions \in SUBSET Message,
             CleanUp(oldJobs, oldQuestions)
      PROVE  Spends(n)
  <2>1. CASE n \in oldJobs
    <3>1. jobs'[n] = NoJob /\ jobs[n] # NoJob
      BY <1>m, <1>3, <2>1 DEF CleanUp
    <3> QED
      BY <1>2, <3>1
  <2>2. CASE n \notin oldJobs
    <3>1. jobs'[n] = jobs[n]
      BY <1>m, <1>3, <2>2 DEF CleanUp
    <3> QED
      BY <3>1 DEF Spends
  <2> QED
    BY <2>1, <2>2
<1>4. ASSUME NEW w \in Worker, WorkerStep(w) PROVE Spends(n)
  <2>1. CASE Settle(w)
    <3>1. PICK m : m = tx[w].message
      OBVIOUS
    <3>2. Spends(m) /\ \A k \in Message \ {m} : jobs'[k] = jobs[k]
      BY <2>1, <3>1, SettleSpends
    <3> QED
      BY <1>m, <3>2 DEF Spends
  <2>2. CASE ~Settle(w)
    <3>1. UNCHANGED jobs
      BY <1>4, <2>2
         DEF WorkerStep, Claim, Handle, Stage1Ask, LoadChain, Stage2Ask, Translate,
             HandlerGets, PersistDeadlock, Abort
    <3> QED
      BY <3>1 DEF Spends
  <2> QED
    BY <2>1, <2>2
<1>5. ASSUME NEW c \in Chat, BeginRemove(c) \/ FinishRemove(c) PROVE Spends(n)
  BY <1>m, <1>2, <1>5 DEF BeginRemove, FinishRemove, Spends
<1> QED
  BY <1>1, <1>3, <1>4, <1>5 DEF Next

\* Every change that a worker commits to a job uses up attempts of a budget of
\* twenty that nothing refills: however retries, chain loads, the two stages
\* and aborts are mixed, a message is handled to its end or given up.
THEOREM PipelineEffortRunsOut == Spec => EffortRunsOut
<1>1. IInv /\ [Next]_vars =>
        [\A m \in seen :
           \/ jobs'[m] = jobs[m]
           \/ jobs[m].status = "failed" /\ jobs'[m] = NoJob
           \/ AttemptsLeft(m)' \in 0..(AttemptsLeft(m) - 1)]_vars
  BY NextSpends DEF Spends
<1> QED
  BY <1>1, PipelineInvariant, PTL DEF Spec, EffortRunsOut

-----------------------------------------------------------------------------
(* The pipeline implements LeadPromise: each step leaves the mapped variables *)
(* alone, or is one action of the promise.                                   *)

Fates == [m \in Message |-> FateOf(m)]
Verdicts == [m \in Message |-> FinalResult(m)]

Quiet == Fates' = Fates /\ Verdicts' = Verdicts /\ usage' = usage

\* How a message's fate follows from its rows.
LEMMA FateCases ==
  ASSUME NEW m \in Message
  PROVE  /\ m \notin seen => FateOf(m) = "new"
         /\ m \in seen /\ HasQuestion(m) => FateOf(m) = "lead"
         /\ m \in seen /\ questions[m] = "expired" => FateOf(m) = "closed"
         /\ m \in seen /\ questions[m] = "absent" =>
              /\ jobs[m].status \in Waiting \cup Downstream => FateOf(m) = "waiting"
              /\ jobs[m].status = "failed" => FateOf(m) = "failed"
              /\ jobs[m] = NoJob =>
                   FateOf(m) = IF FinalResult(m) = "irrelevant" THEN "rejected"
                               ELSE "dropped"
<1>1. m \in seen /\ HasQuestion(m) => FateOf(m) = "lead"
  BY DEF FateOf, HasQuestion
<1>2. m \in seen /\ questions[m] = "expired" => FateOf(m) = "closed"
  BY DEF FateOf, HasQuestion
<1>3. ASSUME m \in seen, questions[m] = "absent"
      PROVE  /\ jobs[m].status \in Waiting \cup Downstream => FateOf(m) = "waiting"
             /\ jobs[m].status = "failed" => FateOf(m) = "failed"
             /\ jobs[m] = NoJob =>
                  FateOf(m) = IF FinalResult(m) = "irrelevant" THEN "rejected"
                              ELSE "dropped"
  BY <1>3 DEF FateOf, HasQuestion, Waiting, Downstream, NoJob
<1> QED
  BY <1>1, <1>2, <1>3 DEF FateOf

LEMMA FateNext ==
  ASSUME NEW m \in Message, m \in seen'
  PROVE  /\ questions'[m] \in {"linked", "detached"} => FateOf(m)' = "lead"
         /\ questions'[m] = "expired" => FateOf(m)' = "closed"
         /\ questions'[m] = "absent" =>
              /\ jobs'[m].status \in Waiting \cup Downstream => FateOf(m)' = "waiting"
              /\ jobs'[m].status = "failed" => FateOf(m)' = "failed"
              /\ jobs'[m] = NoJob =>
                   FateOf(m)' = IF FinalResult(m)' = "irrelevant" THEN "rejected"
                                ELSE "dropped"
<1>1. questions'[m] \in {"linked", "detached"} => FateOf(m)' = "lead"
  BY DEF FateOf, HasQuestion
<1>2. questions'[m] = "expired" => FateOf(m)' = "closed"
  BY DEF FateOf, HasQuestion
<1>3. ASSUME questions'[m] = "absent"
      PROVE  /\ jobs'[m].status \in Waiting \cup Downstream => FateOf(m)' = "waiting"
             /\ jobs'[m].status = "failed" => FateOf(m)' = "failed"
             /\ jobs'[m] = NoJob =>
                  FateOf(m)' = IF FinalResult(m)' = "irrelevant" THEN "rejected"
                               ELSE "dropped"
  BY <1>3 DEF FateOf, HasQuestion, Waiting, Downstream, NoJob
<1> QED
  BY <1>1, <1>2, <1>3

\* Rows that stay keep the fate and the verdict of their message.
LEMMA FateKept ==
  ASSUME NEW m \in Message, jobs'[m] = jobs[m], runs'[m] = runs[m],
         questions'[m] = questions[m], (m \in seen') = (m \in seen)
  PROVE  FateOf(m)' = FateOf(m) /\ FinalResult(m)' = FinalResult(m)
BY DEF FateOf, FinalResult, HasQuestion

LEMMA SameRowsQuiet ==
  ASSUME UNCHANGED <<jobs, runs, questions, usage, seen>>
  PROVE  Quiet
<1>1. \A m \in Message : FateOf(m)' = FateOf(m) /\ FinalResult(m)' = FinalResult(m)
  BY FateKept
<1> QED
  BY <1>1 DEF Quiet, Fates, Verdicts

\* The rows of one message change, and with them its fate and its verdict.
LEMMA OneChanges ==
  ASSUME NEW m \in Message, NEW f, NEW r, FateOf(m)' = f, FinalResult(m)' = r,
         \A n \in Message : n # m =>
           /\ jobs'[n] = jobs[n] /\ runs'[n] = runs[n]
           /\ questions'[n] = questions[n] /\ (n \in seen') = (n \in seen)
  PROVE  /\ Fates' = [Fates EXCEPT ![m] = f]
         /\ Verdicts' = [Verdicts EXCEPT ![m] = r]
<1>1. \A n \in Message : n # m =>
        FateOf(n)' = FateOf(n) /\ FinalResult(n)' = FinalResult(n)
  BY FateKept
<1> QED
  BY <1>1 DEF Fates, Verdicts

LEMMA EnqueueAccepts ==
  ASSUME IInv, NEW m \in Message, Enqueue(m)
  PROVE  Promise!Accept(m)
<1>1. /\ m \notin seen /\ seen' = seen \cup {m}
      /\ jobs' = [jobs EXCEPT ![m] = NewJob]
      /\ UNCHANGED <<runs, questions, usage>>
  BY DEF Enqueue
<1>2. Fates[m] = "new"
  BY <1>1, FateCases DEF Fates
<1>3. /\ questions'[m] = "absent" /\ jobs'[m].status = "pending" /\ m \in seen'
      /\ \A n \in Message : n # m =>
           /\ jobs'[n] = jobs[n] /\ runs'[n] = runs[n]
           /\ questions'[n] = questions[n] /\ (n \in seen') = (n \in seen)
  BY <1>1 DEF NewJob, IInv, TypeOK, OnlySeenExists
<1>4. FateOf(m)' = "waiting"
  BY <1>3, FateNext DEF Waiting
<1>5. FinalResult(m)' = FinalResult(m)
  BY <1>1 DEF FinalResult
<1>6. /\ Fates' = [Fates EXCEPT ![m] = "waiting"]
      /\ Verdicts' = [Verdicts EXCEPT ![m] = FinalResult(m)]
  BY <1>3, <1>4, <1>5, OneChanges
<1>7. Verdicts' = Verdicts
  BY <1>6 DEF Verdicts
<1> QED
  BY <1>1, <1>2, <1>6, <1>7 DEF Promise!Accept, Fates, Verdicts

\* What a commit of an answer does, whichever stage gave it.
LEMMA AnswerJudges ==
  ASSUME IInv, NEW m \in Message, jobs[m] \in Job, m \in seen,
         questions[m] = "absent", jobs[m].status \in Waiting \cup Downstream,
         NEW s \in 1..2, NEW r \in Result, runs[m][s] = "none",
         RecordStage(m, s, r), ApplyResult(m, r), UNCHANGED <<questions, seen>>,
         r \in Promise!After(FinalResult(m)),
         s = 2 \/ runs[m][2] = "none"
  PROVE  Promise!Judge(m, r)
<1>1. /\ runs'[m][s] = r
      /\ \A i \in 1..2 : i # s => runs'[m][i] = runs[m][i]
      /\ \A n \in Message : n # m => runs'[n] = runs[n]
  BY RecordType DEF IInv
<1>2. usage' = usage + 1
  BY DEF RecordStage
<1>3. FinalResult(m)' = r
  <2>1. CASE s = 2
    BY <1>1, <2>1, ResultNotNone DEF FinalResult
  <2>2. CASE s = 1
    <3>1. runs'[m][2] = "none" /\ runs'[m][1] = r
      BY <1>1, <2>2
    <3> QED
      BY <3>1 DEF FinalResult
  <2> QED
    BY <2>1, <2>2
<1>4. /\ \A n \in Message : n # m => jobs'[n] = jobs[n]
      /\ r = "irrelevant" => jobs'[m] = NoJob
      /\ r # "irrelevant" => jobs'[m].status \in Downstream
  BY ApplyType DEF IInv, Result, Downstream
<1>5. FateOf(m)' = IF r = "irrelevant" THEN "rejected" ELSE "waiting"
  BY <1>3, <1>4, FateNext
<1>6. Fates[m] = "waiting" /\ Verdicts[m] = FinalResult(m)
  BY FateCases DEF Fates, Verdicts
<1>7. PICK f : f = IF r = "irrelevant" THEN "rejected" ELSE "waiting"
  OBVIOUS
<1>8. /\ Fates' = [Fates EXCEPT ![m] = f]
      /\ Verdicts' = [Verdicts EXCEPT ![m] = r]
  BY <1>1, <1>3, <1>4, <1>5, <1>7, OneChanges
<1> QED
  BY <1>2, <1>6, <1>7, <1>8 DEF Promise!Judge, Fates, Verdicts

LEMMA Stage1Judges ==
  ASSUME IInv, NEW w \in Worker, Stage1Commit(w)
  PROVE  \E m \in Message, r \in Promise!Verdict : Promise!Judge(m, r)
<1>m. PICK m : m = tx[w].message
  OBVIOUS
<1>r. PICK r : r = tx[w].answer
  OBVIOUS
<1>1. /\ tx[w] # Idle /\ r \in Result /\ w \in Stage1Worker
      /\ RecordStage(m, 1, r) /\ ApplyResult(m, r) /\ UNCHANGED <<questions, seen>>
  BY <1>m, <1>r DEF Stage1Commit, HandlerGot, At
<1>2. /\ m \in Message /\ jobs[m] \in Job /\ m \in seen /\ questions[m] = "absent"
      /\ jobs[m].status \in Waiting \cup Downstream
  BY <1>m, <1>1, HeldJob
<1>3. jobs[m].status \in Waiting
  BY <1>m, <1>1, KindOfWorker DEF IInv, WorkersHoldClaimable, Claimable
<1>4. runs[m][1] = "none" /\ runs[m][2] = "none"
  BY <1>2, <1>3, InvParts DEF RowOK
<1>5. r \in Promise!After(FinalResult(m)) /\ r \in Promise!Verdict
  BY <1>1, <1>4 DEF FinalResult, Promise!After, Promise!Verdict, Result
<1> QED
  BY <1>1, <1>2, <1>4, <1>5, AnswerJudges

LEMMA Stage2Judges ==
  ASSUME IInv, NEW w \in Worker, Stage2Commit(w)
  PROVE  \E m \in Message, r \in Promise!Verdict : Promise!Judge(m, r)
<1>m. PICK m : m = tx[w].message
  OBVIOUS
<1>r. PICK r : r = tx[w].answer
  OBVIOUS
<1>1. /\ tx[w] # Idle /\ r \in Result /\ w \in ClassifyWorker
      /\ RecordStage(m, 2, r) /\ ApplyResult(m, r) /\ UNCHANGED <<questions, seen>>
  BY <1>m, <1>r DEF Stage2Commit, HandlerGot, At
<1>2. /\ m \in Message /\ jobs[m] \in Job /\ m \in seen /\ questions[m] = "absent"
      /\ jobs[m].status \in Waiting \cup Downstream
  BY <1>m, <1>1, HeldJob
<1>3. jobs[m].status = "awaiting_context" /\ r \in {"relevant", "irrelevant"}
  BY <1>m, <1>r, <1>1 DEF IInv, AnswerFitsJob, FinalAnswer, Result, Error
<1>4. runs[m][1] = "context_required" /\ runs[m][2] = "none"
  BY <1>2, <1>3, InvParts DEF RowOK, Stage2Allowed
<1>5. r \in Promise!After(FinalResult(m)) /\ r \in Promise!Verdict
  BY <1>3, <1>4 DEF FinalResult, Promise!After, Promise!Verdict
<1> QED
  BY <1>1, <1>2, <1>4, <1>5, AnswerJudges

\* The chain and a retry change a job that waits into one that waits.
LEMMA JobKeepsWaiting ==
  ASSUME IInv, NEW m \in Message, NEW row, m \in seen, questions[m] = "absent",
         jobs[m].status \in Waiting \cup Downstream,
         row.status \in Waiting \cup Downstream,
         jobs' = [jobs EXCEPT ![m] = row], UNCHANGED <<runs, questions, usage, seen>>
  PROVE  Quiet
<1>1. jobs'[m] = row /\ \A n \in Message : n # m => jobs'[n] = jobs[n]
  BY DEF IInv, TypeOK
<1>2. FateOf(m)' = "waiting" /\ FateOf(m) = "waiting"
  BY <1>1, FateCases, FateNext
<1>3. FinalResult(m)' = FinalResult(m)
  BY DEF FinalResult
<1>4. /\ Fates' = [Fates EXCEPT ![m] = "waiting"]
      /\ Verdicts' = [Verdicts EXCEPT ![m] = FinalResult(m)]
  BY <1>1, <1>2, <1>3, OneChanges
<1> QED
  BY <1>2, <1>4 DEF Quiet, Fates, Verdicts

LEMMA SaveChainQuiet ==
  ASSUME IInv, NEW w \in Worker, SaveChain(w)
  PROVE  Quiet
<1>m. PICK m : m = tx[w].message
  OBVIOUS
<1>1. tx[w] # Idle /\ UNCHANGED <<runs, questions, usage, seen>>
  BY DEF SaveChain, HandlerGot, At
<1>2. /\ m \in Message /\ jobs[m] \in Job /\ m \in seen /\ questions[m] = "absent"
      /\ jobs[m].status \in Waiting \cup Downstream
  BY <1>m, <1>1, HeldJob
<1>3. PICK row : row = [jobs[m] EXCEPT !.snapshot = tx[w].answer, !.attempts = 0]
  OBVIOUS
<1>4. jobs' = [jobs EXCEPT ![m] = row]
  BY <1>m, <1>3 DEF SaveChain
<1>5. row.status = jobs[m].status
  BY <1>2, <1>3 DEF Job
<1> QED
  BY <1>1, <1>2, <1>4, <1>5, JobKeepsWaiting

LEMMA RetryQuiet ==
  ASSUME IInv, NEW w \in Worker, RetryJob(w)
  PROVE  Quiet
<1>m. PICK m : m = tx[w].message
  OBVIOUS
<1>1. tx[w] # Idle /\ UNCHANGED <<runs, questions, usage, seen>>
  BY DEF RetryJob, HandlerGot, At
<1>2. /\ m \in Message /\ jobs[m] \in Job /\ m \in seen /\ questions[m] = "absent"
      /\ jobs[m].status \in Waiting \cup Downstream
  BY <1>m, <1>1, HeldJob
<1>3. PICK row : row = [jobs[m] EXCEPT !.status = StatusForRetry(w, m),
                                       !.attempts = AttemptsNow(m)]
  OBVIOUS
<1>4. jobs' = [jobs EXCEPT ![m] = row]
  BY <1>m, <1>3 DEF RetryJob
<1>5. row.status \in Waiting \cup Downstream
  BY <1>2, <1>3 DEF Job, StatusForRetry, Waiting
<1> QED
  BY <1>1, <1>2, <1>4, <1>5, JobKeepsWaiting

LEMMA FailGivesUp ==
  ASSUME IInv, NEW w \in Worker, FailJob(w)
  PROVE  \E m \in Message : Promise!GiveUp(m)
<1>m. PICK m : m = tx[w].message
  OBVIOUS
<1>1. tx[w] # Idle /\ UNCHANGED <<runs, questions, usage, seen>>
  BY DEF FailJob, HandlerGot, At
<1>2. /\ m \in Message /\ jobs[m] \in Job /\ m \in seen /\ questions[m] = "absent"
      /\ jobs[m].status \in Waiting \cup Downstream
  BY <1>m, <1>1, HeldJob
<1>3. jobs'[m].status = "failed" /\ \A n \in Message : n # m => jobs'[n] = jobs[n]
  BY <1>m, <1>2 DEF FailJob, IInv, TypeOK, Job
<1>4. FateOf(m)' = "failed" /\ FateOf(m) = "waiting"
  BY <1>1, <1>2, <1>3, FateCases, FateNext
<1>5. FinalResult(m)' = FinalResult(m)
  BY <1>1 DEF FinalResult
<1>6. /\ Fates' = [Fates EXCEPT ![m] = "failed"]
      /\ Verdicts' = [Verdicts EXCEPT ![m] = FinalResult(m)]
  BY <1>1, <1>2, <1>3, <1>4, <1>5, OneChanges
<1>7. Promise!GiveUp(m)
  BY <1>1, <1>2, <1>4, <1>6 DEF Promise!GiveUp, Fates, Verdicts
<1> QED
  BY <1>2, <1>7

LEMMA PersistPresents ==
  ASSUME IInv, NEW w \in Worker, PersistQuestion(w)
  PROVE  \E m \in Message : Promise!Present(m)
<1>m. PICK m : m = tx[w].message
  OBVIOUS
<1>1. /\ tx[w] # Idle /\ tx[w].answer = "ready" /\ w \in ClassifyWorker
      /\ Complete(m) /\ UNCHANGED <<runs, usage, seen>>
  BY <1>m DEF PersistQuestion, HandlerGot, At
<1>2. /\ m \in Message /\ jobs[m] \in Job /\ m \in seen /\ questions[m] = "absent"
      /\ jobs[m].status \in Waiting \cup Downstream
  BY <1>m, <1>1, HeldJob
<1>3. jobs[m].status = "awaiting_relevant"
  BY <1>m, <1>1 DEF IInv, AnswerFitsJob, FinalAnswer, Error
<1>4. FinalResult(m) = "relevant"
  BY <1>2, <1>3, InvParts DEF RowOK
<1>5. questions'[m] = "linked" /\ \A n \in Message : n # m => questions'[n] = questions[n]
  BY <1>m, <1>2 DEF PersistQuestion, HasQuestion, IInv, TypeOK
<1>6. \A n \in Message : n # m => jobs'[n] = jobs[n]
  BY <1>1 DEF Complete, IInv, TypeOK
<1>7. FateOf(m)' = "lead" /\ FateOf(m) = "waiting"
  BY <1>1, <1>2, <1>5, FateCases, FateNext
<1>8. FinalResult(m)' = FinalResult(m)
  BY <1>1 DEF FinalResult
<1>9. /\ Fates' = [Fates EXCEPT ![m] = "lead"]
      /\ Verdicts' = [Verdicts EXCEPT ![m] = FinalResult(m)]
  BY <1>1, <1>2, <1>5, <1>6, <1>7, <1>8, OneChanges
<1>10. Promise!Present(m)
  BY <1>1, <1>2, <1>4, <1>7, <1>9 DEF Promise!Present, Fates, Verdicts
<1> QED
  BY <1>2, <1>10

\* A job that is deleted had not been answered with "irrelevant".
LEMMA DeletedJob ==
  ASSUME IInv, NEW m \in Message, jobs[m] # NoJob
  PROVE  /\ m \in seen /\ questions[m] = "absent"
         /\ FateOf(m) \in {"waiting", "failed"}
         /\ FinalResult(m) # "irrelevant"
<1>1. RowOK(m) /\ jobs[m] \in Job
  BY InvParts DEF IInv, TypeOK
<1>2. m \in seen /\ questions[m] = "absent"
  BY <1>1 DEF RowOK, IInv, TypeOK
<1>3. jobs[m].status \in Waiting \cup Downstream \cup {"failed"}
  BY <1>1 DEF Job
<1>4. FateOf(m) \in {"waiting", "failed"}
  BY <1>2, <1>3, FateCases
<1>5. FinalResult(m) # "irrelevant"
  <2>1. CASE jobs[m].status \in Waiting
    BY <1>1, <2>1 DEF RowOK, FinalResult
  <2>2. CASE jobs[m].status = "awaiting_context"
    BY <1>1, <2>2 DEF RowOK, FinalResult, Stage2Allowed
  <2>3. CASE jobs[m].status \in {"awaiting_relevant", "failed"}
    BY <1>1, <2>3 DEF RowOK
  <2> QED
    BY <1>3, <2>1, <2>2, <2>3 DEF Downstream
<1> QED
  BY <1>2, <1>4, <1>5

LEMMA DeletionForgets ==
  ASSUME IInv, NEW work \in SUBSET Message, NEW leads \in SUBSET Message,
         \A m \in work : jobs[m] # NoJob /\ jobs'[m] = NoJob,
         \A m \in leads : HasQuestion(m) /\ questions'[m] = "expired",
         \A m \in Message \ work : jobs'[m] = jobs[m],
         \A m \in Message \ leads :
           questions'[m] = questions[m] \/ (HasQuestion(m) /\ questions'[m] = "detached"),
         UNCHANGED <<runs, usage, seen>>
  PROVE  Promise!Forget(work, leads)
<1>1. \A m \in Message : FinalResult(m)' = FinalResult(m)
  BY DEF FinalResult
<1>2. ASSUME NEW m \in work
      PROVE  Fates[m] \in {"waiting", "failed"} /\ FateOf(m)' = "dropped"
  <2>1. /\ m \in seen' /\ questions[m] = "absent" /\ FinalResult(m) # "irrelevant"
        /\ FateOf(m) \in {"waiting", "failed"}
    BY DeletedJob
  <2>2. questions'[m] = "absent"
    BY <2>1 DEF HasQuestion
  <2> QED
    BY <1>1, <2>1, <2>2, FateNext DEF Fates
<1>3. ASSUME NEW m \in leads
      PROVE  /\ Fates[m] = "lead" /\ FateOf(m)' = "closed" /\ m \notin work
  <2>1. questions[m] # "absent"
    BY DEF HasQuestion
  <2>2. m \in seen /\ m \notin work
    BY <2>1, DeletedJob DEF IInv, OnlySeenExists
  <2> QED
    BY <2>2, FateCases, FateNext DEF Fates
<1>4. ASSUME NEW m \in Message, m \notin work, m \notin leads
      PROVE  FateOf(m)' = FateOf(m)
  <2>1. CASE questions'[m] = questions[m]
    BY <1>4, <2>1, FateKept
  <2>2. CASE HasQuestion(m) /\ questions'[m] = "detached"
    <3>1. m \in seen
      BY <2>2 DEF HasQuestion, IInv, OnlySeenExists
    <3> QED
      BY <2>2, <3>1, FateCases, FateNext
  <2> QED
    BY <1>4, <2>1, <2>2
<1>5. Fates' = [m \in Message |-> IF m \in work THEN "dropped"
                                  ELSE IF m \in leads THEN "closed" ELSE Fates[m]]
  BY <1>2, <1>3, <1>4 DEF Fates
<1>6. Verdicts' = Verdicts
  BY <1>1 DEF Verdicts
<1> QED
  BY <1>2, <1>3, <1>5, <1>6 DEF Promise!Forget, Fates, Verdicts

LEMMA CleanUpForgets ==
  ASSUME IInv, NEW oldJobs \in SUBSET Message, NEW oldQuestions \in SUBSET Message,
         CleanUp(oldJobs, oldQuestions)
  PROVE  Promise!Forget(oldJobs, oldQuestions)
<1>1. /\ \A m \in oldJobs : jobs[m] # NoJob /\ jobs'[m] = NoJob
      /\ \A m \in Message \ oldJobs : jobs'[m] = jobs[m]
  BY DEF CleanUp
<1>2. /\ \A m \in oldQuestions : HasQuestion(m) /\ questions'[m] = "expired"
      /\ \A m \in Message \ oldQuestions : questions'[m] = questions[m]
  BY DEF CleanUp
<1>3. UNCHANGED <<runs, usage, seen>>
  BY DEF CleanUp
<1> QED
  BY <1>1, <1>2, <1>3, DeletionForgets

LEMMA RemovalForgets ==
  ASSUME IInv, NEW c \in Chat, FinishRemove(c)
  PROVE  \E work \in SUBSET Message : Promise!Forget(work, {})
<1>0. PICK gone \in SUBSET Message : gone = {m \in Message : ChatOf[m] = c /\ jobs[m] # NoJob}
  OBVIOUS
<1>1. /\ \A m \in gone : jobs[m] # NoJob /\ jobs'[m] = NoJob
      /\ \A m \in Message \ gone : jobs'[m] = jobs[m]
  BY <1>0 DEF FinishRemove
<1>2. \A m \in Message :
        questions'[m] = questions[m] \/ (HasQuestion(m) /\ questions'[m] = "detached")
  BY DEF FinishRemove, Detached, HasQuestion
<1>3. UNCHANGED <<runs, usage, seen>>
  BY DEF FinishRemove
<1>4. Promise!Forget(gone, {})
  BY <1>1, <1>2, <1>3, DeletionForgets
<1> QED
  BY <1>4

LEMMA SettleRefines ==
  ASSUME IInv, NEW w \in Worker, Settle(w)
  PROVE  Quiet \/ Promise!Next
<1>1. CASE Stage1Commit(w) \/ Stage2Commit(w)
  BY <1>1, Stage1Judges, Stage2Judges DEF Promise!Next
<1>2. CASE FailJob(w)
  BY <1>2, FailGivesUp DEF Promise!Next
<1>3. CASE PersistQuestion(w)
  BY <1>3, PersistPresents DEF Promise!Next
<1> QED
  BY <1>1, <1>2, <1>3, SaveChainQuiet, RetryQuiet DEF Settle

LEMMA StepRefines ==
  ASSUME IInv, [Next]_vars
  PROVE  Quiet \/ Promise!Next
<1>1. ASSUME NEW m \in Message, Enqueue(m) PROVE Promise!Next
  BY <1>1, EnqueueAccepts DEF Promise!Next
<1>2. ASSUME NEW oldJobs \in SUBSET Message, NEW oldQuestions \in SUBSET Message,
             CleanUp(oldJobs, oldQuestions)
      PROVE  Promise!Next
  BY <1>2, CleanUpForgets DEF Promise!Next
<1>3. ASSUME NEW w \in Worker, WorkerStep(w) PROVE Quiet \/ Promise!Next
  <2>1. CASE \/ \E m \in Message : Claim(w, m)
             \/ Handle(w) \/ PersistDeadlock(w) \/ Abort(w)
    <3>1. UNCHANGED <<jobs, runs, questions, usage, seen>>
      BY <2>1 DEF Claim, Handle, Stage1Ask, LoadChain, Stage2Ask, Translate,
                  HandlerGets, PersistDeadlock, Abort
    <3> QED
      BY <3>1, SameRowsQuiet
  <2> QED
    BY <1>3, <2>1, SettleRefines DEF WorkerStep
<1>4. ASSUME NEW c \in Chat, BeginRemove(c) PROVE Quiet
  BY <1>4, SameRowsQuiet DEF BeginRemove
<1>5. ASSUME NEW c \in Chat, FinishRemove(c) PROVE Promise!Next
  <2>1. PICK work \in SUBSET Message : Promise!Forget(work, {})
    BY <1>5, RemovalForgets
  <2>2. {} \in SUBSET Message
    OBVIOUS
  <2> QED
    BY <2>1, <2>2 DEF Promise!Next
<1>6. CASE UNCHANGED vars
  BY <1>6, SameRowsQuiet DEF vars
<1> QED
  BY <1>1, <1>2, <1>3, <1>4, <1>5, <1>6 DEF Next

LEMMA InitRefines == Init => Promise!Init
<1> SUFFICES ASSUME Init PROVE Promise!Init
  OBVIOUS
<1>1. \A m \in Message : FateOf(m) = "new" /\ FinalResult(m) = "none"
  BY DEF Init, FateOf, FinalResult
<1> QED
  BY <1>1 DEF Promise!Init, Init

\* The three workers, the retention and the removal of chats implement the
\* promise about every message, for any number of them: each answer counts
\* once, only what was found relevant becomes a lead, what has ended stays so.
THEOREM PipelineImplementsPromise == Spec => PromiseKept
<1>1. Init => Promise!Init
  BY InitRefines
<1>2. IInv /\ [Next]_vars => [Promise!Next]_Promise!lead
  <2>1. Quiet => UNCHANGED Promise!lead
    BY DEF Quiet, Promise!lead, Fates, Verdicts
  <2> QED
    BY <2>1, StepRefines
<1> QED
  BY <1>1, <1>2, PipelineInvariant, PTL DEF Spec, PromiseKept, Promise!Spec

-----------------------------------------------------------------------------
(* What becomes of a job that waits as failed for a review.                  *)

\* No worker touches it: what a worker holds is still to be claimed.
LEMMA WorkersLeavePoison ==
  ASSUME IInv, NEW w \in Worker, WorkerStep(w), NEW n \in Message, jobs[n].status = "failed"
  PROVE  jobs'[n] = jobs[n]
<1>m. PICK m : m = tx[w].message
  OBVIOUS
<1>1. tx[w] # Idle => m # n
  BY <1>m DEF IInv, WorkersHoldClaimable, Claimable, Waiting, Downstream
<1>2. CASE Stage1Commit(w) \/ Stage2Commit(w)
  <2>1. tx[w] # Idle /\ ApplyResult(m, tx[w].answer) /\ tx[w].answer \in Result
    BY <1>m, <1>2 DEF Stage1Commit, Stage2Commit, HandlerGot, At
  <2>. QED
    BY <1>1, <2>1 DEF ApplyResult, Route, Complete, Result, IInv, TypeOK
<1>3. CASE SaveChain(w) \/ RetryJob(w) \/ FailJob(w) \/ PersistQuestion(w)
  <2>1. tx[w] # Idle
    BY <1>3 DEF SaveChain, RetryJob, FailJob, PersistQuestion, HandlerGot, At
  <2>. QED
    BY <1>m, <1>1, <1>3, <2>1
       DEF SaveChain, RetryJob, FailJob, PersistQuestion, Complete, IInv, TypeOK
<1>4. CASE ~Settle(w)
  BY <1>4 DEF WorkerStep, Claim, Handle, Stage1Ask, LoadChain, Stage2Ask, Translate,
     HandlerGets, PersistDeadlock, Abort
<1>. QED
  BY <1>2, <1>3, <1>4 DEF Settle

CleansUp == \E oldJobs, oldQuestions \in SUBSET Message : CleanUp(oldJobs, oldQuestions)

LEMMA PoisonStays ==
  ASSUME IInv, Next, ~CleansUp, NEW n \in Message,
         jobs[n].status = "failed", jobs'[n] = NoJob
  PROVE  chats'[ChatOf[n]] = "removed"
<1>1. jobs'[n] # jobs[n]
  BY DEF NoJob
<1>2. CASE \E m \in Message : Enqueue(m)
  <2>1. PICK m \in Message : Enqueue(m)
    BY <1>2
  <2>2. jobs[m] = NoJob /\ m # n
    BY <2>1 DEF Enqueue, IInv, OnlySeenExists, NoJob
  <2>. QED
    BY <1>1, <2>1, <2>2 DEF Enqueue, IInv, TypeOK
<1>3. CASE \E w \in Worker : WorkerStep(w)
  BY <1>1, <1>3, WorkersLeavePoison
<1>4. CASE \E c \in Chat : BeginRemove(c) \/ FinishRemove(c)
  <2>1. PICK c \in Chat : FinishRemove(c)
    BY <1>1, <1>4 DEF BeginRemove
  <2>2. ChatOf[n] = c
    BY <1>1, <2>1 DEF FinishRemove
  <2>. QED
    BY <2>1, <2>2 DEF FinishRemove, IInv, TypeOK
<1>. QED
  BY <1>2, <1>3, <1>4 DEF Next, CleansUp

\* "Poison jobs cannot loop or disappear" (ADR-002) holds of the workers, of
\* crashes and of chat removals: as long as the retention job does not run, a
\* failed job stays until its chat is removed (retention.py, cleanup_once).
THEOREM PoisonStaysWithoutRetention == Init /\ [][Next /\ ~CleansUp]_vars => PoisonJobsStay
<1>1. Init => IInv
  BY InitInv
<1>2. IInv /\ [Next /\ ~CleansUp]_vars => IInv'
  BY NextInv
<1>3. IInv /\ [Next /\ ~CleansUp]_vars =>
        [\A m \in Message : jobs[m].status = "failed" /\ jobs'[m] = NoJob
           => chats'[ChatOf[m]] = "removed"]_vars
  BY PoisonStays
<1>. QED
  BY <1>1, <1>2, <1>3, PTL DEF PoisonJobsStay
=============================================================================
