--------------------------- MODULE BotDeliveries ---------------------------
(***************************************************************************)
(* What the bot sends on its own: notifications of questions and operational *)
(* alerts, each by a worker task of the bot process, and the maintenance    *)
(* scheduler that observes the translator and raises the alerts.            *)
(*                                                                         *)
(* A worker claims an item, sends its parts through the Bot API and records  *)
(* the outcome in one transaction.  When the transaction aborts, or the      *)
(* answer of the Bot API is lost, what was sent stays sent; and when the     *)
(* abort leaves run_once as an exception, the task ends, which nobody        *)
(* notices before the bot process ends: run_bot awaits the tasks only after  *)
(* polling.                                                                  *)
(*                                                                         *)
(* The translator is only looked at here; Operations adds who changes it.    *)
(***************************************************************************)
EXTENDS ServiceParameters

\* Alerts are deduplicated by the start of the outage they tell of.
Alert == 1..MaxEpisode
Item == Notification \cup Alert

Task == {"notifier", "alerter"}
Queue(task) == IF task = "notifier" THEN Notification ELSE Alert
Parts(i) == IF i \in Notification THEN MaxParts ELSE 1

NoRow == [status |-> "none"]
Row == [status : {"pending", "retry", "sent", "failed"}, attempts : 0..MaxAttempts]
ClaimablePending(r) == r.status = "pending"  \* forgets the retries
Claimable(r) == r.status \in {"pending", "retry"}
Settled(r) == r.status \in {"sent", "failed"}

Idle == [step |-> "idle"]
Dead == [step |-> "dead"]
Sending == [step : {"sending"}, item : Item, sent : 0..MaxParts]

VARIABLES
  row,         \* bot_notifications and operational_alerts
  task,        \* the two worker tasks
  accepted,    \* history: whether Telegram accepted the first part of an item
               \* and the bot knows it, does not know it, or sent it again
               \* although it knew
  failing,     \* alert_conditions: since which episode, and whether for long
  episode,     \* episodes so far
  translator   \* LibreTranslate, up or down

vars == <<row, task, accepted, failing, episode, translator>>

Healthy == [episode |-> 0, long |-> FALSE]

TypeOK ==
  /\ row \in [Item -> Row \cup {NoRow}]
  /\ task \in [Task -> Sending \cup {Idle, Dead}]
  /\ accepted \in [Item -> {"no", "known", "unknown", "repeated"}]
  /\ failing \in [episode : 0..MaxEpisode, long : BOOLEAN]
  /\ episode \in 0..MaxEpisode
  /\ translator \in {"up", "down"}

Init ==
  /\ row = [i \in Item |-> NoRow]
  /\ task = [t \in Task |-> Idle]
  /\ accepted = [i \in Item |-> "no"]
  /\ failing = Healthy
  /\ episode = 0
  /\ translator = "up"

Unsent == [status |-> "pending", attempts |-> 0]

-----------------------------------------------------------------------------
\* save_relevant_question stores a question with its notification.
Notify(n) ==
  /\ row[n] = NoRow
  /\ row' = [row EXCEPT ![n] = Unsent]
  /\ UNCHANGED <<task, accepted, failing, episode, translator>>

\* MaintenanceScheduler.run_once, observe_condition of the translator.  It is
\* probed before the transaction: the finding may be old, but the translator
\* may as well change right after it.  A transaction that aborts leaves nothing.
\*
\* A short failure is only remembered; a long one raises the alert of its
\* episode unless it exists.
Raise(e) == row' = IF row[e] = NoRow THEN [row EXCEPT ![e] = Unsent] ELSE row

ObserveHealthy ==
  /\ translator = "up"
  /\ failing # Healthy
  /\ failing' = Healthy
  /\ UNCHANGED <<row, task, accepted, episode, translator>>

ObserveNewFailure ==
  /\ translator = "down"
  /\ failing = Healthy
  /\ episode < MaxEpisode
  /\ episode' = episode + 1
  /\ failing' = [episode |-> episode + 1, long |-> FALSE]
  /\ UNCHANGED <<row, task, accepted, translator>>

ObserveFailure ==
  /\ translator = "down"
  /\ failing # Healthy
  /\ IF failing.long THEN Raise(failing.episode) ELSE UNCHANGED row
  /\ UNCHANGED <<task, accepted, failing, episode, translator>>

\* translator_alert_after passes.
Elapse ==
  /\ failing # Healthy
  /\ ~failing.long
  /\ failing' = [failing EXCEPT !.long = TRUE]
  /\ UNCHANGED <<row, task, accepted, episode, translator>>

-----------------------------------------------------------------------------
(* BotNotificationWorker.run_once and OperationalAlertWorker.run_once.  That *)
(* the delay of a retry has passed is left open.                             *)

Claim(t, i) ==
  /\ task[t] = Idle
  /\ i \in Queue(t)
  /\ Claimable(row[i])
  /\ task' = [task EXCEPT ![t] = [step |-> "sending", item |-> i, sent |-> 0]]
  /\ UNCHANGED <<row, accepted, failing, episode, translator>>

Held(t) == task[t].item

\* The first part of an item is accepted, and the bot knows it or does not.
Accept(i, knowledge) ==
  [accepted EXCEPT ![i] = IF @ \in {"no", "unknown"} THEN knowledge ELSE "repeated"]

PartAccepted(t) ==
  /\ task[t].step = "sending"
  /\ task[t].sent < Parts(Held(t))
  /\ task' = [task EXCEPT ![t].sent = @ + 1]
  /\ accepted' = IF task[t].sent = 0 THEN Accept(Held(t), "known") ELSE accepted
  /\ UNCHANGED <<row, failing, episode, translator>>

Record(t, status) ==
  /\ row' = [row EXCEPT ![Held(t)] = [status |-> status, attempts |-> @.attempts + 1]]
  /\ task' = [task EXCEPT ![t] = Idle]
  /\ UNCHANGED <<failing, episode, translator>>

MarkSent(t) ==
  /\ task[t].step = "sending"
  /\ task[t].sent = Parts(Held(t))
  /\ Record(t, "sent")
  /\ UNCHANGED accepted

\* A call to the Bot API fails.  Nothing is retried once a part was accepted,
\* or after the last attempt.  RetryForever forgets the limit, RetryRest what
\* was accepted.
RetryForever(t) == task[t].sent = 0
RetryRest(t) == row[Held(t)].attempts + 1 < MaxAttempts
Retryable(t) == task[t].sent = 0 /\ row[Held(t)].attempts + 1 < MaxAttempts

SendFails(t) ==
  /\ task[t].step = "sending"
  /\ task[t].sent < Parts(Held(t))
  /\ Record(t, IF Retryable(t) THEN "retry" ELSE "failed")
  /\ UNCHANGED accepted

\* Telegram accepts the first part, but the call ends in an error (a timeout).
AnswerLost(t) ==
  /\ task[t].step = "sending"
  /\ task[t].sent = 0
  /\ Record(t, IF Retryable(t) THEN "retry" ELSE "failed")
  /\ accepted' = Accept(Held(t), "unknown")

\* An abort takes back the record of what was sent.
Forget(tasks) ==
  accepted' = [i \in Item |->
    IF accepted[i] = "known" /\ \E t \in tasks : task[t].step = "sending" /\ Held(t) = i
    THEN "unknown" ELSE accepted[i]]

\* The claim or the commit raises: run_forever ends with it.
TaskDies(t) ==
  /\ task[t] # Dead
  /\ task' = [task EXCEPT ![t] = Dead]
  /\ Forget({t})
  /\ UNCHANGED <<row, failing, episode, translator>>

\* The bot process ends, for whatever reason, and is started again.
Restart ==
  /\ \E t \in Task : task[t] # Idle
  /\ task' = [t \in Task |-> Idle]
  /\ Forget(Task)
  /\ UNCHANGED <<row, failing, episode, translator>>

Next ==
  \/ \E n \in Notification : Notify(n)
  \/ ObserveHealthy \/ ObserveNewFailure \/ ObserveFailure \/ Elapse
  \/ \E t \in Task :
       \/ \E i \in Item : Claim(t, i)
       \/ PartAccepted(t) \/ MarkSent(t) \/ SendFails(t) \/ AnswerLost(t) \/ TaskDies(t)
  \/ Restart

(* Fairness.  A living task polls for ever, and what it sends ends in an      *)
(* answer or an error.  Restarts may hit any transaction, but not every one   *)
(* (SF).  Nothing says that the bot is restarted after a task has died.       *)
Fairness ==
  \A t \in Task :
    /\ SF_vars(\E i \in Queue(t) : Claim(t, i))
    /\ SF_vars(MarkSent(t) \/ SendFails(t) \/ AnswerLost(t))

-----------------------------------------------------------------------------
(* Properties.                                                               *)

\* An item is sent again only if the bot cannot know that it was sent, since the
\* answer was lost or the transaction aborted: not by a retry after a part was
\* accepted, and not by a condition that is observed again and again.
RepeatedOnlyUnknown == \A i \in Item : accepted[i] # "repeated"

\* A notification or an alert is settled, unless its worker task has died: the
\* tasks are awaited by nobody while polling runs, so from then on it waits
\* for a restart of the bot.
DeliverySettles ==
  \A t \in Task : \A i \in Queue(t) :
    row[i] # NoRow ~> Settled(row[i]) \/ task[t] = Dead

(* The promise of delivery (module DeliveryPromise) and how it is kept.       *)

Phase(i) ==
  CASE row[i] = NoRow   -> "none"
    [] Settled(row[i])  -> row[i].status
    [] OTHER            -> "due"

Shown(i) ==
  CASE accepted[i] = "no"      -> "no"
    [] accepted[i] = "unknown" -> "maybe"
    [] OTHER                   -> "yes"

Tries(i) == IF row[i] = NoRow THEN 0 ELSE row[i].attempts

Delivery == INSTANCE DeliveryPromise WITH
  phase <- [i \in Item |-> Phase(i)],
  shown <- [i \in Item |-> Shown(i)],
  tries <- [i \in Item |-> Tries(i)]

\* Each task and each abort does to an item only what the promise allows: it is
\* raised once, shown again and put off only while the bot cannot know that it
\* was shown, "sent" only when that is known, and settled for good.
DeliveryKept == Delivery!Spec
=============================================================================
