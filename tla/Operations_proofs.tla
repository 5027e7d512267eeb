-------------------------- MODULE Operations_proofs --------------------------
(* The invariants of Operations for any languages, jobs, notifications and   *)
(* bounds.  RepeatedOnlyUnknown holds because what is known to be sent is     *)
(* either settled, and never claimed again, or in the hands of a task, and no *)
(* other task has the same queue.  That Operations behaves like the manager   *)
(* alone, as far as the manager's variables go, gives its invariants.        *)
EXTENDS Operations, TLAPS

AcceptedState == {"no", "known", "unknown", "repeated"}

\* An item of which the bot may still send the first part.
Fresh(i) == accepted[i] \in {"no", "unknown"}

Holds(t, i) == task[t].step = "sending" /\ Held(t) = i

ItemsFit ==
  \A i \in Item :
    /\ accepted[i] # "repeated"
    /\ Claimable(row[i]) => row[i].attempts < MaxAttempts
    /\ accepted[i] = "known" =>
         Settled(row[i]) \/ \E t \in Task : Holds(t, i) /\ task[t].sent > 0

TasksFit ==
  \A t \in Task : task[t].step = "sending" =>
    /\ Held(t) \in Queue(t)
    /\ Claimable(row[Held(t)])
    /\ task[t].sent = 0 => Fresh(Held(t))

IInv == TypeOK /\ ItemsFit /\ TasksFit

-----------------------------------------------------------------------------
LEMMA Queues ==
  /\ \A t \in Task : Queue(t) \subseteq Item
  /\ \A t, u \in Task, i \in Item : i \in Queue(t) /\ i \in Queue(u) => t = u
BY DeliveryAssumption DEF Queue, Item, Alert, Task

LEMMA TaskType ==
  ASSUME TypeOK, NEW t \in Task, task[t].step = "sending"
  PROVE  /\ task[t] \in Sending
         /\ Held(t) \in Item /\ task[t].sent \in 0..MaxParts
<1>1. task[t] \in Sending
  BY DEF TypeOK, Idle, Dead
<1>. QED
  BY <1>1 DEF Sending, Held

LEMMA PartsBound == \A i \in Item : Parts(i) \in 1..MaxParts
BY DeliveryAssumption DEF Parts

LEMMA ClaimableRow ==
  ASSUME TypeOK, NEW i \in Item, Claimable(row[i])
  PROVE  row[i] \in Row /\ row[i].attempts \in 0..MaxAttempts /\ ~Settled(row[i])
BY DEF TypeOK, Claimable, NoRow, Row, Settled

LEMMA InitInv ==
  ASSUME Init
  PROVE  IInv
<1>1. TypeOK
  BY DeliveryAssumption DEF Init, TypeOK, Healthy
<1>2. ItemsFit
  BY DEF Init, ItemsFit, Claimable, NoRow
<1>3. TasksFit
  BY DEF Init, TasksFit, Idle
<1>. QED
  BY <1>1, <1>2, <1>3 DEF IInv

-----------------------------------------------------------------------------
(* Steps that concern neither the tasks nor what was sent.                   *)

\* At most a row appears.
RowAppears ==
  /\ UNCHANGED <<task, accepted>>
  /\ \/ UNCHANGED row
     \/ \E i \in Item : row[i] = NoRow /\ row' = [row EXCEPT ![i] = Unsent]

LEMMA AppearsInv ==
  ASSUME IInv, RowAppears
  PROVE  ItemsFit' /\ TasksFit' /\ row' \in [Item -> Row \cup {NoRow}]
<1>1. CASE UNCHANGED row
  BY <1>1 DEF RowAppears, IInv, TypeOK, ItemsFit, TasksFit, Fresh, Holds, Held
<1>2. ASSUME NEW i \in Item, row[i] = NoRow, row' = [row EXCEPT ![i] = Unsent]
      PROVE  ItemsFit' /\ TasksFit' /\ row' \in [Item -> Row \cup {NoRow}]
  <2>1. Unsent \in Row /\ Claimable(Unsent) /\ Unsent.attempts = 0
    BY DeliveryAssumption DEF Unsent, Row, Claimable
  <2>2. ~Claimable(row[i]) /\ ~Settled(row[i])
    BY <1>2 DEF NoRow, Claimable, Settled
  <2>3. /\ row' \in [Item -> Row \cup {NoRow}]
        /\ row'[i] = Unsent /\ \A k \in Item \ {i} : row'[k] = row[k]
    BY <1>2, <2>1 DEF IInv, TypeOK
  <2>4. UNCHANGED <<task, accepted>>
    BY DEF RowAppears
  <2>5. ItemsFit'
    <3>1. ASSUME NEW k \in Item
          PROVE  /\ accepted'[k] # "repeated"
                 /\ Claimable(row'[k]) => row'[k].attempts < MaxAttempts
                 /\ accepted'[k] = "known" =>
                      Settled(row'[k]) \/ \E t \in Task : Holds(t, k)' /\ task'[t].sent > 0
      <4>1. CASE k = i
        BY <2>1, <2>2, <2>3, <2>4, <4>1, DeliveryAssumption DEF IInv, ItemsFit, Holds, Held
      <4>2. CASE k # i
        BY <2>3, <2>4, <4>2 DEF IInv, ItemsFit, Holds, Held
      <4>. QED
        BY <4>1, <4>2
    <3>. QED
      BY <3>1 DEF ItemsFit
  <2>6. TasksFit'
    <3>1. ASSUME NEW t \in Task, task[t].step = "sending"
          PROVE  Held(t) \in Item \ {i}
      BY <2>2, <3>1, TaskType DEF IInv, TasksFit
    <3>. QED
      BY <2>3, <2>4, <3>1 DEF IInv, TasksFit, Fresh, Held
  <2>. QED
    BY <2>3, <2>5, <2>6
<1>. QED
  BY <1>1, <1>2 DEF RowAppears

LEMMA NotifyInv ==
  ASSUME IInv, NEW n \in Notification, Notify(n)
  PROVE  IInv'
<1>1. RowAppears
  BY DEF Notify, RowAppears, Item
<1>. QED
  BY <1>1, AppearsInv DEF IInv, TypeOK, Notify

LEMMA ObserveAppears ==
  ASSUME IInv, ObserveHealthy \/ ObserveNewFailure \/ ObserveFailure \/ Elapse
  PROVE  RowAppears
<1>1. CASE ObserveFailure /\ failing.long
  <2>1. CASE failing.episode \in Item /\ row[failing.episode] = NoRow
    BY <1>1, <2>1 DEF ObserveFailure, Raise, RowAppears
  <2>2. CASE failing.episode \in Item /\ row[failing.episode] # NoRow
    BY <1>1, <2>2 DEF ObserveFailure, Raise, RowAppears
  <2>3. CASE failing.episode \notin Item
    <3>1. row = [k \in Item |-> row[k]]
      BY DEF IInv, TypeOK
    <3>2. [row EXCEPT ![failing.episode] = Unsent] = [k \in Item |-> row[k]]
      BY <2>3, <3>1
    <3>. QED
      BY <1>1, <3>1, <3>2 DEF ObserveFailure, Raise, RowAppears
  <2>. QED
    BY <2>1, <2>2, <2>3
<1>2. CASE ObserveFailure /\ ~failing.long
  BY <1>2 DEF ObserveFailure, RowAppears
<1>3. CASE ObserveHealthy \/ ObserveNewFailure \/ Elapse
  BY <1>3 DEF ObserveHealthy, ObserveNewFailure, Elapse, RowAppears
<1>. QED
  BY <1>1, <1>2, <1>3

LEMMA ObserveInv ==
  ASSUME IInv, ObserveHealthy \/ ObserveNewFailure \/ ObserveFailure \/ Elapse
  PROVE  IInv'
<1>1. RowAppears
  BY ObserveAppears
<1>2. /\ failing' \in [episode : 0..MaxEpisode, long : BOOLEAN]
      /\ episode' \in 0..MaxEpisode
      /\ UNCHANGED <<task, accepted, translator>>
  <2>0. /\ failing \in [episode : 0..MaxEpisode, long : BOOLEAN]
        /\ episode \in 0..MaxEpisode
    BY DEF IInv, TypeOK
  <2>1. CASE ObserveHealthy
    BY <2>0, <2>1, DeliveryAssumption DEF ObserveHealthy, Healthy
  <2>2. CASE ObserveNewFailure
    <3>1. episode + 1 \in 0..MaxEpisode
      BY <2>0, <2>2, DeliveryAssumption DEF ObserveNewFailure
    <3>. QED
      BY <2>2, <3>1 DEF ObserveNewFailure
  <2>3. CASE ObserveFailure
    BY <2>0, <2>3 DEF ObserveFailure
  <2>4. CASE Elapse
    BY <2>0, <2>4 DEF Elapse
  <2>. QED
    BY <2>1, <2>2, <2>3, <2>4
<1>. QED
  BY <1>1, <1>2, AppearsInv DEF IInv, TypeOK

-----------------------------------------------------------------------------
(* The worker tasks.                                                         *)

LEMMA ClaimInv ==
  ASSUME IInv, NEW t \in Task, NEW i \in Item, Claim(t, i)
  PROVE  IInv'
<1>1. /\ task'[t] = [step |-> "sending", item |-> i, sent |-> 0]
      /\ \A u \in Task \ {t} : task'[u] = task[u]
      /\ task[t].step = "idle"
      /\ UNCHANGED <<row, accepted, failing, episode, translator>>
  BY DEF Claim, IInv, TypeOK, Idle
<1>2. task'[t] \in Sending
  BY <1>1, DeliveryAssumption DEF Sending
<1>3. TypeOK'
  BY <1>1, <1>2 DEF IInv, TypeOK, Claim
<1>4. Fresh(i)
  <2>1. ~Settled(row[i])
    BY ClaimableRow DEF IInv, Claim
  <2>2. \A u \in Task : ~Holds(u, i)
    BY <1>1, Queues DEF Claim, IInv, TasksFit, Holds
  <2>. QED
    BY <2>1, <2>2 DEF IInv, ItemsFit, TypeOK, Fresh
<1>5. ItemsFit'
  BY <1>1 DEF IInv, ItemsFit, Holds, Held
<1>6. TasksFit'
  BY <1>1, <1>4 DEF IInv, TasksFit, Held, Fresh, Claim
<1>. QED
  BY <1>3, <1>5, <1>6 DEF IInv

\* Two tasks never hold the same item.
LEMMA HeldApart ==
  ASSUME IInv, NEW t \in Task, NEW u \in Task,
         task[t].step = "sending", task[u].step = "sending", Held(t) = Held(u)
  PROVE  t = u
BY Queues, TaskType DEF IInv, TasksFit

LEMMA PartInv ==
  ASSUME IInv, NEW t \in Task, PartAccepted(t)
  PROVE  IInv'
<1>0. PICK i \in Item : Held(t) = i
  BY TaskType DEF PartAccepted, IInv
<1>1. task[t].step = "sending" /\ task[t] \in Sending /\ task[t].sent \in 0..MaxParts
  BY TaskType DEF PartAccepted, IInv
<1>2. task[t].sent + 1 \in 0..MaxParts /\ task[t].sent + 1 > 0
  BY <1>0, <1>1, PartsBound, DeliveryAssumption DEF PartAccepted
<1>3. /\ task'[t] \in Sending /\ task'[t].step = "sending"
      /\ task'[t].item = i /\ task'[t].sent > 0
      /\ \A u \in Task \ {t} : task'[u] = task[u]
  BY <1>0, <1>1, <1>2 DEF PartAccepted, IInv, TypeOK, Sending, Held
<1>4. /\ accepted' \in [Item -> AcceptedState]
      /\ \A k \in Item \ {i} : accepted'[k] = accepted[k]
      /\ accepted'[i] # "repeated"
  <2>1. CASE task[t].sent = 0
    <3>1. Fresh(i)
      BY <1>0, <1>1, <2>1 DEF IInv, TasksFit
    <3>. QED
      BY <1>0, <2>1, <3>1 DEF PartAccepted, Accept, Fresh, IInv, TypeOK, AcceptedState
  <2>2. CASE task[t].sent # 0
    BY <1>0, <2>2 DEF PartAccepted, IInv, TypeOK, ItemsFit, AcceptedState
  <2>. QED
    BY <2>1, <2>2
<1>5. UNCHANGED <<row, failing, episode, translator>>
  BY DEF PartAccepted
<1>6. TypeOK'
  BY <1>3, <1>4, <1>5 DEF IInv, TypeOK, AcceptedState, PartAccepted
<1>7. ItemsFit'
  <2>1. ASSUME NEW k \in Item, accepted'[k] = "known"
        PROVE  Settled(row'[k]) \/ \E u \in Task : Holds(u, k)' /\ task'[u].sent > 0
    <3>1. CASE k = i
      BY <1>3, <3>1 DEF Holds, Held
    <3>2. CASE k # i
      <4>1. accepted[k] = "known"
        BY <1>4, <2>1, <3>2
      <4>2. \A u \in Task : Holds(u, k) => u # t
        BY <1>0, <3>2 DEF Holds
      <4>. QED
        BY <1>3, <1>5, <4>1, <4>2 DEF IInv, ItemsFit, Holds, Held
    <3>. QED
      BY <3>1, <3>2
  <2>. QED
    BY <1>4, <1>5, <2>1 DEF ItemsFit, IInv
<1>8. TasksFit'
  <2>1. ASSUME NEW u \in Task \ {t}, task[u].step = "sending"
        PROVE  Held(u) \in Item \ {i}
    BY <1>0, <1>1, <2>1, HeldApart, TaskType DEF IInv
  <2>2. ASSUME NEW u \in Task \ {t}, task'[u].step = "sending"
        PROVE  /\ Held(u)' \in Queue(u)
               /\ Claimable(row'[Held(u)'])
               /\ task'[u].sent = 0 => accepted'[Held(u)'] \in {"no", "unknown"}
    BY <1>3, <1>4, <1>5, <2>1, <2>2 DEF IInv, TasksFit, Held, Fresh
  <2>3. /\ Held(t)' \in Queue(t)
        /\ Claimable(row'[Held(t)'])
        /\ task'[t].sent # 0
    BY <1>0, <1>1, <1>3, <1>5 DEF IInv, TasksFit, Held
  <2>. QED
    BY <2>2, <2>3 DEF TasksFit, Held, Fresh
<1>. QED
  BY <1>6, <1>7, <1>8 DEF IInv

\* A task gives its item back, settled or to be retried.
LEMMA RecordInv ==
  ASSUME IInv, NEW t \in Task, task[t].step = "sending",
         NEW status \in {"sent", "failed", "retry"},
         status = "retry" => Retryable(t),
         Record(t, status),
         accepted' \in [Item -> AcceptedState],
         \A k \in Item : k # Held(t) => accepted'[k] = accepted[k],
         accepted'[Held(t)] # "repeated",
         status = "retry" => accepted'[Held(t)] # "known"
  PROVE  IInv'
<1>0. PICK i \in Item : Held(t) = i
  BY TaskType DEF IInv
<1>1. /\ row[i] \in Row /\ row[i].attempts \in 0..MaxAttempts
      /\ row[i].attempts < MaxAttempts
  BY <1>0, ClaimableRow DEF IInv, TasksFit, ItemsFit
<1>2. row[i].attempts + 1 \in 0..MaxAttempts
  BY <1>1, DeliveryAssumption
<1>3. /\ row'[i] = [status |-> status, attempts |-> row[i].attempts + 1]
      /\ \A k \in Item \ {i} : row'[k] = row[k]
      /\ task'[t] = Idle /\ \A u \in Task \ {t} : task'[u] = task[u]
      /\ UNCHANGED <<failing, episode, translator>>
  BY <1>0 DEF Record, IInv, TypeOK
<1>4. row'[i] \in Row
  BY <1>2, <1>3 DEF Row
<1>5. TypeOK'
  BY <1>0, <1>3, <1>4 DEF Record, IInv, TypeOK, AcceptedState
<1>6. ItemsFit'
  <2>1. ASSUME NEW k \in Item
        PROVE  /\ accepted'[k] # "repeated"
               /\ Claimable(row'[k]) => row'[k].attempts < MaxAttempts
               /\ accepted'[k] = "known" =>
                    Settled(row'[k]) \/ \E u \in Task : Holds(u, k)' /\ task'[u].sent > 0
    <3>1. CASE k = i
      <4>1. status = "retry" => row[i].attempts + 1 < MaxAttempts
        BY <1>0 DEF Retryable
      <4>. QED
        BY <1>0, <1>3, <3>1, <4>1 DEF Claimable, Settled
    <3>2. CASE k # i
      <4>1. \A u \in Task : Holds(u, k) => u # t
        BY <1>0, <3>2 DEF Holds
      <4>. QED
        BY <1>0, <1>3, <3>2, <4>1 DEF IInv, ItemsFit, Holds, Held
    <3>. QED
      BY <3>1, <3>2
  <2>. QED
    BY <2>1 DEF ItemsFit
<1>7. TasksFit'
  <2>1. ASSUME NEW u \in Task \ {t}, task[u].step = "sending"
        PROVE  Held(u) \in Item \ {i}
    BY <1>0, <2>1, HeldApart, TaskType DEF IInv
  <2>. QED
    BY <1>0, <1>3, <2>1 DEF IInv, TasksFit, Held, Fresh, Idle
<1>. QED
  BY <1>5, <1>6, <1>7 DEF IInv

LEMMA OutcomeInv ==
  ASSUME IInv, NEW t \in Task, MarkSent(t) \/ SendFails(t) \/ AnswerLost(t)
  PROVE  IInv'
<1>0. PICK i \in Item : Held(t) = i
  BY TaskType DEF IInv, MarkSent, SendFails, AnswerLost
<1>1. /\ task[t].step = "sending"
      /\ accepted \in [Item -> AcceptedState]
      /\ accepted[i] # "repeated"
      /\ task[t].sent = 0 => accepted[i] \in {"no", "unknown"}
  BY <1>0 DEF IInv, TypeOK, ItemsFit, TasksFit, Fresh, AcceptedState,
     MarkSent, SendFails, AnswerLost
<1>2. CASE MarkSent(t)
  BY <1>0, <1>1, <1>2, RecordInv DEF MarkSent
<1>3. CASE SendFails(t)
  <2>1. PICK status \in {"retry", "failed"} :
          Record(t, status) /\ (status = "retry" => Retryable(t))
    BY <1>3 DEF SendFails
  <2>2. status = "retry" => accepted[i] # "known"
    BY <1>1, <2>1 DEF Retryable
  <2>3. accepted' = accepted
    BY <1>3 DEF SendFails
  <2>. QED
    BY <1>0, <1>1, <2>1, <2>2, <2>3, RecordInv
<1>4. CASE AnswerLost(t)
  <2>1. PICK status \in {"retry", "failed"} :
          Record(t, status) /\ (status = "retry" => Retryable(t))
    BY <1>4 DEF AnswerLost
  <2>2. /\ accepted' \in [Item -> AcceptedState]
        /\ accepted'[i] = "unknown"
        /\ \A k \in Item : k # i => accepted'[k] = accepted[k]
    BY <1>0, <1>1, <1>4 DEF AnswerLost, Accept, AcceptedState
  <2>. QED
    BY <1>0, <1>1, <2>1, <2>2, RecordInv
<1>. QED
  BY <1>2, <1>3, <1>4

\* A set of tasks loses what it holds.
LEMMA ForgetInv ==
  ASSUME IInv, NEW tasks \in SUBSET Task, Forget(tasks),
         task' \in [Task -> {Idle, Dead} \cup Sending],
         \A t \in tasks : task'[t] \in {Idle, Dead},
         \A t \in Task \ tasks : task'[t] = task[t],
         UNCHANGED <<row, failing, episode, translator>>
  PROVE  IInv'
<1>1. \A i \in Item :
        /\ accepted'[i] # "known" => accepted'[i] \in {"no", "unknown"}
        /\ accepted'[i] = "known" =>
             accepted[i] = "known" /\ \A t \in tasks : ~Holds(t, i)
        /\ accepted[i] \in {"no", "unknown"} => accepted'[i] \in {"no", "unknown"}
  BY DEF Forget, Holds, IInv, ItemsFit, TypeOK
<1>2. TypeOK'
  BY DEF IInv, TypeOK, Forget
<1>3. \A t \in Task : task'[t].step = "sending" => t \notin tasks /\ task'[t] = task[t]
  BY DEF Idle, Dead
<1>4. ItemsFit'
  BY <1>1 DEF IInv, ItemsFit, Holds, Held
<1>5. TasksFit'
  BY <1>1, <1>3, TaskType DEF IInv, TasksFit, Held, Fresh
<1>. QED
  BY <1>2, <1>4, <1>5 DEF IInv

LEMMA DiesInv ==
  ASSUME IInv, NEW t \in Task, TaskDies(t)
  PROVE  IInv'
BY ForgetInv DEF TaskDies, IInv, TypeOK

LEMMA RestartInv ==
  ASSUME IInv, Restart
  PROVE  IInv'
BY ForgetInv DEF Restart

LEMMA NextInv ==
  ASSUME IInv, [Next]_vars
  PROVE  IInv'
<1>1. CASE UNCHANGED vars
  BY <1>1 DEF vars, IInv, TypeOK, ItemsFit, TasksFit, Holds, Held, Fresh
<1>2. CASE Next
  BY <1>2, NotifyInv, ObserveInv, ClaimInv, PartInv, OutcomeInv, DiesInv, RestartInv
     DEF Next
<1>. QED
  BY <1>1, <1>2

-----------------------------------------------------------------------------
(* The composition.                                                          *)

ManagerProofs == INSTANCE TranslationManager_proofs

\* What the manager does to the translator keeps its type.
LEMMA ManagerKeepsTranslator ==
  ASSUME translator \in {"up", "down"}, Manager!Next
  PROVE  translator' \in {"up", "down"}
BY DEF Manager!Next, Manager!Enqueue, Manager!Claim, Manager!Execute, Manager!Kill,
   Manager!StartInstall, Manager!InstallFrom, Manager!InstallTo, Manager!MarkInstalled,
   Manager!Toggle, Manager!StartDelete, Manager!RemoveFrom, Manager!RemoveTo,
   Manager!Reload, Manager!Succeed, Manager!Refuse, Manager!CommandFails, Manager!Finish,
   Manager!TranslatorRecovers, Manager!TranslatorFails

LEMMA OperationsNextInv ==
  ASSUME IInv, [OperationsNext]_operationsVars
  PROVE  IInv'
<1>1. CASE Next \/ UNCHANGED operationsVars
  BY <1>1, NextInv DEF operationsVars, botVars, vars
<1>2. CASE Manager!Next /\ UNCHANGED botVars
  <2>1. translator' \in {"up", "down"}
    BY <1>2, ManagerKeepsTranslator DEF IInv, TypeOK
  <2>2. TypeOK'
    BY <1>2, <2>1 DEF IInv, TypeOK, botVars
  <2>. QED
    BY <1>2, <2>2 DEF botVars, IInv, ItemsFit, TasksFit, Holds, Held, Fresh
<1>. QED
  BY <1>1, <1>2 DEF OperationsNext

LEMMA Inductive == OperationsSpec => []IInv
<1>1. OperationsInit => IInv
  BY InitInv DEF OperationsInit
<1>. QED
  BY <1>1, OperationsNextInv, PTL DEF OperationsSpec

\* The manager of the composition is the one the proofs are about.
LEMMA SameInit == Manager!Init => ManagerProofs!Init
BY DEF
     Manager!Init, ManagerProofs!Init, Manager!Installed,
     ManagerProofs!Installed, Manager!Package, ManagerProofs!Package,
     Manager!NoRow, ManagerProofs!NoRow, Manager!NoJob, ManagerProofs!NoJob,
     Manager!Job, ManagerProofs!Job, Manager!Action, ManagerProofs!Action,
     Manager!Idle, ManagerProofs!Idle

LEMMA SameNext == Manager!Next => ManagerProofs!Next
BY DEF
     Manager!Installed, ManagerProofs!Installed, Manager!Code,
     ManagerProofs!Code, Manager!Enqueue, ManagerProofs!Enqueue, Manager!Claim,
     ManagerProofs!Claim, Manager!Continue, ManagerProofs!Continue,
     Manager!Installing, ManagerProofs!Installing, Manager!StartInstall,
     ManagerProofs!StartInstall, Manager!InstallFrom, ManagerProofs!InstallFrom,
     Manager!InstallTo, ManagerProofs!InstallTo, Manager!MarkInstalled,
     ManagerProofs!MarkInstalled, Manager!Allowed, ManagerProofs!Allowed,
     Manager!Toggle, ManagerProofs!Toggle, Manager!StartDelete,
     ManagerProofs!StartDelete, Manager!RemoveFrom, ManagerProofs!RemoveFrom,
     Manager!RemoveTo, ManagerProofs!RemoveTo, Manager!Reload,
     ManagerProofs!Reload, Manager!Finish, ManagerProofs!Finish, Manager!Succeed,
     ManagerProofs!Succeed, Manager!Refuse, ManagerProofs!Refuse,
     Manager!CommandFails, ManagerProofs!CommandFails, Manager!Kill,
     ManagerProofs!Kill, Manager!TranslatorRecovers,
     ManagerProofs!TranslatorRecovers, Manager!TranslatorFails,
     ManagerProofs!TranslatorFails, Manager!Execute, ManagerProofs!Execute,
     Manager!Next, ManagerProofs!Next, Manager!Package, ManagerProofs!Package,
     Manager!NoRow, ManagerProofs!NoRow, Manager!NoJob, ManagerProofs!NoJob,
     Manager!Job, ManagerProofs!Job, Manager!Action, ManagerProofs!Action,
     Manager!Idle, ManagerProofs!Idle

\* The bot's steps are stutters of the manager: nothing that TranslationManager
\* guarantees is lost in the composition.
THEOREM ManagerImplemented == OperationsSpec => ManagerProofs!Spec
<1>1. OperationsInit => ManagerProofs!Init
  BY SameInit DEF OperationsInit
<1>2. ASSUME [OperationsNext]_operationsVars
      PROVE  [ManagerProofs!Next]_(ManagerProofs!vars)
  <2>1. CASE Manager!Next
    BY <2>1, SameNext
  <2>2. CASE Next /\ UNCHANGED managerVars
    <3>1. UNCHANGED translator
      BY <2>2 DEF Next, Notify, ObserveHealthy, ObserveNewFailure, ObserveFailure, Elapse,
         Claim, PartAccepted, MarkSent, SendFails, AnswerLost, Record, TaskDies, Restart
    <3>. QED
      BY <2>2, <3>1 DEF managerVars, ManagerProofs!vars
  <2>3. CASE UNCHANGED operationsVars
    BY <2>3 DEF operationsVars, managerVars, ManagerProofs!vars
  <2>. QED
    BY <1>2, <2>1, <2>2, <2>3 DEF OperationsNext
<1>. QED
  BY <1>1, <1>2, PTL DEF OperationsSpec, ManagerProofs!Spec

-----------------------------------------------------------------------------
\* Nothing that the bot knows to be sent is sent again (delivery.py and
\* operational_alerts.py, run_once and run_forever).
THEOREM NoKnownRepetition == OperationsSpec => []RepeatedOnlyUnknown
<1>1. IInv => RepeatedOnlyUnknown
  BY DEF IInv, ItemsFit, RepeatedOnlyUnknown
<1>. QED
  BY <1>1, Inductive, PTL

\* A language shown as installed has both packages, whatever the jobs, the
\* scheduler and the bot do (jobs.py, execute; control.py, install and delete).
THEOREM ManagerComplete == OperationsSpec => []InstalledIsComplete
<1>1. ManagerProofs!Spec => []ManagerProofs!InstalledIsComplete
  BY ManagerProofs!InstalledComplete, JobsAssumption, DeliveryAssumption
<1>2. ManagerProofs!InstalledIsComplete => InstalledIsComplete
  BY DEF InstalledIsComplete, Manager!InstalledIsComplete, ManagerProofs!InstalledIsComplete,
     Manager!Interrupted, ManagerProofs!Interrupted, Manager!Job, ManagerProofs!Job,
     Manager!Package, ManagerProofs!Package
<1>. QED
  BY <1>1, <1>2, ManagerImplemented, PTL

\* The rows, the tasks and the condition of the bot, and the languages, the
\* packages, the jobs and the open transaction of the manager keep their types;
\* attempts stay within RetryPolicy (worker.py).
THEOREM PartsTypeCorrect == OperationsSpec => []PartsTypeOK
<1>1. ManagerProofs!Spec => []ManagerProofs!TypeOK
  BY ManagerProofs!TypeCorrect, JobsAssumption, DeliveryAssumption
<1>2. IInv /\ ManagerProofs!TypeOK => PartsTypeOK
  BY DEF IInv, PartsTypeOK, Manager!TypeOK, ManagerProofs!TypeOK, Manager!Row,
     ManagerProofs!Row, Manager!NoRow, ManagerProofs!NoRow, Manager!Package,
     ManagerProofs!Package, Manager!Job, ManagerProofs!Job, Manager!JobRow,
     ManagerProofs!JobRow, Manager!NoJob, ManagerProofs!NoJob, Manager!Action,
     ManagerProofs!Action, Manager!Work, ManagerProofs!Work, Manager!Idle, ManagerProofs!Idle
<1>. QED
  BY <1>1, <1>2, Inductive, ManagerImplemented, PTL

-----------------------------------------------------------------------------
(* The bot implements the promise of delivery (module DeliveryPromise).  What *)
(* IInv lacks for it: a task that has sent a part knows of it.               *)

SendersKnow ==
  \A t \in Task : task[t].step = "sending" /\ task[t].sent # 0 => accepted[Held(t)] = "known"

LEMMA SendersKnowNext ==
  ASSUME IInv, SendersKnow, [OperationsNext]_operationsVars
  PROVE  SendersKnow'
<1>0. ASSUME UNCHANGED <<task, accepted>>
      PROVE  SendersKnow'
  BY <1>0 DEF SendersKnow, Held
<1>1. ASSUME NEW t \in Task, NEW i \in Item, Claim(t, i)
      PROVE  SendersKnow'
  <2>1. /\ task'[t].step = "sending" /\ task'[t].sent = 0
        /\ \A u \in Task \ {t} : task'[u] = task[u]
        /\ UNCHANGED accepted
    BY <1>1 DEF Claim, IInv, TypeOK
  <2>. QED
    BY <2>1 DEF SendersKnow, Held
<1>2. ASSUME NEW t \in Task, PartAccepted(t)
      PROVE  SendersKnow'
  <2>1. /\ task[t].step = "sending" /\ Held(t) \in Item
        /\ task[t] \in Sending /\ accepted[Held(t)] # "repeated"
    BY <1>2, TaskType DEF PartAccepted, IInv, TypeOK, ItemsFit, Idle, Dead
  <2>2. /\ Held(t)' = Held(t)
        /\ \A u \in Task \ {t} : task'[u] = task[u]
    BY <1>2, <2>1 DEF PartAccepted, IInv, TypeOK, Sending, Held
  <2>3. accepted'[Held(t)] = "known"
    <3>1. CASE task[t].sent = 0
      <4>1. accepted[Held(t)] \in {"no", "unknown"}
        BY <2>1, <3>1 DEF IInv, TasksFit, Fresh
      <4>. QED
        BY <1>2, <2>1, <3>1, <4>1 DEF PartAccepted, Accept, IInv, TypeOK
    <3>2. CASE task[t].sent # 0
      BY <1>2, <2>1, <3>2 DEF PartAccepted, SendersKnow
    <3>. QED
      BY <3>1, <3>2
  <2>4. \A u \in Task \ {t} : task[u].step = "sending" =>
          accepted'[Held(u)] = accepted[Held(u)]
    <3>1. \A u \in Task \ {t} : task[u].step = "sending" => Held(u) \in Item \ {Held(t)}
      BY <2>1, HeldApart, TaskType DEF IInv
    <3>. QED
      BY <1>2, <2>1, <3>1 DEF PartAccepted, Accept, IInv, TypeOK
  <2>. QED
    BY <2>2, <2>3, <2>4 DEF SendersKnow, Held
<1>3. ASSUME NEW t \in Task, MarkSent(t) \/ SendFails(t) \/ AnswerLost(t)
      PROVE  SendersKnow'
  <2>1. /\ task[t].step = "sending" /\ Held(t) \in Item
        /\ task'[t] = Idle /\ \A u \in Task \ {t} : task'[u] = task[u]
    BY <1>3, TaskType DEF MarkSent, SendFails, AnswerLost, Record, IInv, TypeOK
  <2>2. \A u \in Task \ {t} : task[u].step = "sending" => Held(u) \in Item \ {Held(t)}
    BY <2>1, HeldApart, TaskType DEF IInv
  <2>3. \A k \in Item \ {Held(t)} : accepted'[k] = accepted[k]
    BY <1>3, <2>1 DEF MarkSent, SendFails, AnswerLost, Accept, IInv, TypeOK
  <2>. QED
    BY <2>1, <2>2, <2>3 DEF SendersKnow, Held, Idle
<1>4. ASSUME NEW tasks \in SUBSET Task, Forget(tasks),
             \A t \in tasks : task'[t] \in {Idle, Dead},
             \A t \in Task \ tasks : task'[t] = task[t] \/ task'[t] \in {Idle, Dead}
      PROVE  SendersKnow'
  <2>1. ASSUME NEW u \in Task, task'[u].step = "sending", task'[u].sent # 0
        PROVE  accepted'[Held(u)'] = "known"
    <3>1. u \notin tasks /\ task'[u] = task[u] /\ task[u].step = "sending"
      BY <1>4, <2>1 DEF Idle, Dead
    <3>2. Held(u) \in Item /\ Held(u)' = Held(u) /\ accepted[Held(u)] = "known"
      BY <2>1, <3>1, TaskType DEF Held, SendersKnow, IInv
    <3>3. ~ \E t \in tasks : task[t].step = "sending" /\ Held(t) = Held(u)
      BY <3>1, HeldApart
    <3>. QED
      BY <1>4, <3>2, <3>3 DEF Forget
  <2>. QED
    BY <2>1 DEF SendersKnow, Held
<1>5. ASSUME NEW t \in Task, TaskDies(t)
      PROVE  SendersKnow'
  BY <1>4, <1>5 DEF TaskDies, IInv, TypeOK
<1>6. ASSUME Restart
      PROVE  SendersKnow'
  BY <1>4, <1>6 DEF Restart
<1>7. CASE Next
  BY <1>0, <1>1, <1>2, <1>3, <1>5, <1>6, <1>7 DEF Next, Notify, ObserveHealthy,
     ObserveNewFailure, ObserveFailure, Elapse
<1>8. CASE UNCHANGED operationsVars \/ (Manager!Next /\ UNCHANGED botVars)
  BY <1>0, <1>8 DEF operationsVars, botVars
<1>. QED
  BY <1>7, <1>8 DEF OperationsNext

\* Only the entry of one item changes.
LEMMA PhaseMoves ==
  ASSUME NEW i \in Item, \A k \in Item \ {i} : row'[k] = row[k], NEW outcome, Phase(i)' = outcome
  PROVE  [k \in Item |-> Phase(k)]' = [[k \in Item |-> Phase(k)] EXCEPT ![i] = outcome]
<1>1. \A k \in Item : k # i => Phase(k)' = Phase(k)
  BY DEF Phase, Settled
<1>. QED
  BY <1>1

LEMMA ShownMoves ==
  ASSUME NEW i \in Item, \A k \in Item \ {i} : accepted'[k] = accepted[k],
         NEW known, Shown(i)' = known
  PROVE  [k \in Item |-> Shown(k)]' = [[k \in Item |-> Shown(k)] EXCEPT ![i] = known]
<1>1. \A k \in Item : k # i => Shown(k)' = Shown(k)
  BY DEF Shown
<1>. QED
  BY <1>1

LEMMA TriesMove ==
  ASSUME NEW i \in Item, \A k \in Item \ {i} : row'[k] = row[k], NEW tried, Tries(i)' = tried
  PROVE  [k \in Item |-> Tries(k)]' = [[k \in Item |-> Tries(k)] EXCEPT ![i] = tried]
<1>1. \A k \in Item : k # i => Tries(k)' = Tries(k)
  BY DEF Tries
<1>. QED
  BY <1>1

\* What a step leaves alone stays for the promise.
LEMMA DeliveryStays ==
  /\ UNCHANGED row => /\ [k \in Item |-> Phase(k)]' = [k \in Item |-> Phase(k)]
                      /\ [k \in Item |-> Tries(k)]' = [k \in Item |-> Tries(k)]
  /\ UNCHANGED accepted => [k \in Item |-> Shown(k)]' = [k \in Item |-> Shown(k)]
BY DEF Phase, Settled, Tries, Shown

LEMMA RaisesDelivery ==
  ASSUME IInv, RowAppears
  PROVE  [Delivery!Next]_(Delivery!delivery)
<1>1. UNCHANGED accepted
  BY DEF RowAppears
<1>2. CASE UNCHANGED row
  BY <1>1, <1>2, DeliveryStays DEF Delivery!delivery
<1>3. ASSUME NEW i \in Item, row[i] = NoRow, row' = [row EXCEPT ![i] = Unsent]
      PROVE  Delivery!Raise(i)
  <2>1. row'[i] = Unsent /\ \A k \in Item \ {i} : row'[k] = row[k]
    BY <1>3 DEF IInv, TypeOK
  <2>2. Phase(i) = "none" /\ Phase(i)' = "due"
    BY <1>3, <2>1 DEF Phase, NoRow, Unsent, Settled
  <2>3. Tries(i) = 0 /\ Tries(i)' = 0
    BY <1>3, <2>1 DEF Tries, NoRow, Unsent
  <2>4. [k \in Item |-> Tries(k)]' = [k \in Item |-> Tries(k)]
    BY <2>1, <2>3 DEF Tries
  <2>. QED
    BY <1>1, <2>1, <2>2, <2>4, PhaseMoves, DeliveryStays DEF Delivery!Raise
<1>. QED
  BY <1>2, <1>3 DEF RowAppears, Delivery!Next

LEMMA ShowsDelivery ==
  ASSUME IInv, NEW t \in Task, PartAccepted(t)
  PROVE  [Delivery!Next]_(Delivery!delivery)
<1>0. PICK i \in Item : Held(t) = i
  BY TaskType DEF PartAccepted, IInv
<1>1. UNCHANGED row /\ task[t].step = "sending"
  BY DEF PartAccepted
<1>2. CASE task[t].sent # 0
  BY <1>1, <1>2, DeliveryStays DEF PartAccepted, Delivery!delivery
<1>3. CASE task[t].sent = 0
  <2>1. Claimable(row[i]) /\ accepted[i] \in {"no", "unknown"}
    BY <1>0, <1>1, <1>3 DEF IInv, TasksFit, Fresh
  <2>2. Phase(i) = "due"
    BY <2>1 DEF Phase, Claimable, Settled, NoRow
  <2>3. accepted'[i] = "known" /\ \A k \in Item \ {i} : accepted'[k] = accepted[k]
    BY <1>0, <1>3, <2>1 DEF PartAccepted, Accept, IInv, TypeOK
  <2>4. Shown(i) # "yes" /\ Shown(i)' = "yes"
    BY <2>1, <2>3 DEF Shown
  <2>5. Delivery!Show(i)
    BY <1>1, <2>2, <2>3, <2>4, ShownMoves, DeliveryStays DEF Delivery!Show
  <2>. QED
    BY <2>5 DEF Delivery!Next
<1>. QED
  BY <1>2, <1>3

\* The end of an attempt.
LEMMA AttemptEnds ==
  ASSUME IInv, NEW t \in Task, task[t].step = "sending",
         NEW status \in {"sent", "failed", "retry"}, Record(t, status)
  PROVE  LET i == Held(t)
             outcome == IF status = "retry" THEN "due" ELSE status
         IN  i \in Item /\ Tries(i) = row[i].attempts /\ Delivery!Attempted(i, outcome)
<1> DEFINE outcome == IF status = "retry" THEN "due" ELSE status
<1>0. PICK i \in Item : Held(t) = i
  BY TaskType DEF IInv
<1>1. /\ Claimable(row[i]) /\ row[i] # NoRow
      /\ row[i].attempts \in 0..MaxAttempts /\ row[i].attempts < MaxAttempts
  BY <1>0, ClaimableRow DEF IInv, TasksFit, ItemsFit, Claimable, NoRow
<1>2. /\ row'[i] = [status |-> status, attempts |-> row[i].attempts + 1]
      /\ \A k \in Item \ {i} : row'[k] = row[k]
  BY <1>0 DEF Record, IInv, TypeOK
<1>3. Phase(i) = "due" /\ Phase(i)' = outcome
  BY <1>1, <1>2 DEF Phase, Claimable, Settled, NoRow
<1>4. Tries(i) = row[i].attempts /\ Tries(i)' = Tries(i) + 1
  BY <1>1, <1>2 DEF Tries, NoRow
<1>5. Delivery!Attempted(i, outcome)
  BY <1>1, <1>2, <1>3, <1>4, PhaseMoves, TriesMove DEF Delivery!Attempted
<1>. QED
  BY <1>0, <1>4, <1>5

LEMMA EndsDelivery ==
  ASSUME IInv, SendersKnow, NEW t \in Task, MarkSent(t) \/ SendFails(t) \/ AnswerLost(t)
  PROVE  Delivery!Next
<1>0. PICK i \in Item : Held(t) = i
  BY TaskType DEF IInv, MarkSent, SendFails, AnswerLost
<1>1. task[t].step = "sending" /\ task[t].sent \in 0..MaxParts
  BY TaskType DEF IInv, MarkSent, SendFails, AnswerLost
<1>2. CASE MarkSent(t)
  <2>1. task[t].sent # 0
    BY <1>0, <1>2, PartsBound, DeliveryAssumption DEF MarkSent
  <2>2. Shown(i) = "yes"
    BY <1>0, <1>1, <2>1 DEF SendersKnow, Shown
  <2>3. Delivery!Attempted(i, "sent")
    BY <1>0, <1>1, <1>2, AttemptEnds DEF MarkSent
  <2>4. Delivery!Deliver(i)
    BY <1>2, <2>2, <2>3, DeliveryStays DEF MarkSent, Delivery!Deliver
  <2>. QED
    BY <2>4 DEF Delivery!Next
<1>3. ASSUME SendFails(t) \/ AnswerLost(t)
      PROVE  Delivery!PutOff(i) \/ Delivery!GiveUp(i)
  <2>1. CASE Retryable(t)
    <3>1. Record(t, "retry")
      BY <1>3, <2>1 DEF SendFails, AnswerLost
    <3>2. Tries(i) = row[i].attempts /\ Delivery!Attempted(i, "due")
      BY <1>0, <1>1, <3>1, AttemptEnds
    <3>3. accepted[i] \in {"no", "unknown"} /\ row[i].attempts + 1 < MaxAttempts
      BY <1>0, <1>1, <2>1 DEF Retryable, IInv, TasksFit, Fresh
    <3>4. Shown(i) # "yes"
      BY <3>3 DEF Shown
    <3>. QED
      BY <3>2, <3>3, <3>4 DEF Delivery!PutOff
  <2>2. CASE ~Retryable(t)
    <3>1. Record(t, "failed")
      BY <1>3, <2>2 DEF SendFails, AnswerLost
    <3>2. Delivery!Attempted(i, "failed")
      BY <1>0, <1>1, <3>1, AttemptEnds
    <3>. QED
      BY <3>2 DEF Delivery!GiveUp
  <2>. QED
    BY <2>1, <2>2
<1>4. CASE SendFails(t)
  <2>1. Delivery!Unanswered(i)
    BY <1>4, DeliveryStays DEF SendFails, Delivery!Unanswered
  <2>. QED
    BY <1>3, <1>4, <2>1 DEF Delivery!Next
<1>5. CASE AnswerLost(t)
  <2>1. accepted[i] \in {"no", "unknown"}
    BY <1>0, <1>5 DEF AnswerLost, IInv, TasksFit, Fresh
  <2>2. accepted'[i] = "unknown" /\ \A k \in Item \ {i} : accepted'[k] = accepted[k]
    BY <1>0, <1>5, <2>1 DEF AnswerLost, Accept, IInv, TypeOK
  <2>3. Shown(i) # "yes" /\ Shown(i)' = "maybe"
    BY <2>1, <2>2 DEF Shown
  <2>4. Delivery!Unanswered(i)
    BY <2>2, <2>3, ShownMoves DEF Delivery!Unanswered
  <2>. QED
    BY <1>3, <1>5, <2>4 DEF Delivery!Next
<1>. QED
  BY <1>2, <1>4, <1>5

LEMMA ForgetsDelivery ==
  ASSUME IInv, SendersKnow, NEW tasks \in SUBSET Task, Forget(tasks), UNCHANGED row
  PROVE  Delivery!Next
<1> DEFINE lost == {i \in Item : accepted[i] = "known" /\ \E t \in tasks : Holds(t, i)}
<1>1. \A i \in lost : Phase(i) = "due" /\ Shown(i) = "yes"
  <2>1. ASSUME NEW i \in lost
        PROVE  Claimable(row[i])
    BY DEF IInv, TasksFit, Holds
  <2>. QED
    BY <2>1 DEF Phase, Shown, Claimable, Settled, NoRow
<1>2. \A i \in Item : Shown(i)' = IF i \in lost THEN "maybe" ELSE Shown(i)
  BY DEF Forget, Holds, Shown
<1>3. [k \in Item |-> Shown(k)]' =
        [i \in Item |-> IF i \in lost THEN "maybe" ELSE [k \in Item |-> Shown(k)][i]]
  BY <1>2
<1>4. Delivery!Forget(lost)
  BY <1>1, <1>3, DeliveryStays DEF Delivery!Forget
<1>. QED
  BY <1>4 DEF Delivery!Next

\* For any notifications, outages and limits, the two tasks, their deaths, lost
\* answers and restarts do to an item only what the promise of delivery allows
\* (delivery.py and operational_alerts.py, run_once and run_forever).
THEOREM DeliversAsPromised == OperationsSpec => DeliveryKept
<1>1. OperationsInit => Delivery!Init
  <2>. SUFFICES ASSUME Init
                PROVE  Delivery!Init
    BY DEF OperationsInit
  <2>1. \A i \in Item : row[i] = NoRow /\ accepted[i] = "no"
    BY DEF Init
  <2>2. \A i \in Item : Phase(i) = "none"
    BY <2>1 DEF Phase, Settled, NoRow
  <2>3. \A i \in Item : Shown(i) = "no"
    BY <2>1 DEF Shown
  <2>4. \A i \in Item : Tries(i) = 0
    BY <2>1 DEF Tries
  <2>. QED
    BY <2>2, <2>3, <2>4 DEF Delivery!Init
<1>2. OperationsInit => SendersKnow
  BY DEF OperationsInit, Init, SendersKnow, Idle
<1>3. ASSUME IInv, SendersKnow, [OperationsNext]_operationsVars
      PROVE  [Delivery!Next]_(Delivery!delivery)
  <2>0. ASSUME UNCHANGED <<row, accepted>>
        PROVE  UNCHANGED Delivery!delivery
    BY <2>0, DeliveryStays DEF Delivery!delivery
  <2>1. ASSUME NEW n \in Notification, Notify(n)
        PROVE  RowAppears
    BY <2>1 DEF Notify, RowAppears, Item
  <2>2. ASSUME ObserveHealthy \/ ObserveNewFailure \/ Elapse
        PROVE  UNCHANGED <<row, accepted>>
    BY <2>2 DEF ObserveHealthy, ObserveNewFailure, Elapse
  <2>3. ASSUME ObserveFailure
        PROVE  RowAppears
    BY <1>3, <2>3, ObserveAppears
  <2>4. ASSUME NEW t \in Task, NEW i \in Item, Claim(t, i)
        PROVE  UNCHANGED <<row, accepted>>
    BY <2>4 DEF Claim
  <2>5. ASSUME NEW t \in Task, TaskDies(t)
        PROVE  Delivery!Next
    BY <1>3, <2>5, ForgetsDelivery DEF TaskDies
  <2>6. ASSUME Restart
        PROVE  Delivery!Next
    BY <1>3, <2>6, ForgetsDelivery DEF Restart
  <2>7. CASE Next
    BY <2>7, <2>0, <2>1, <2>2, <2>3, <2>4, <2>5, <2>6, <1>3, RaisesDelivery, ShowsDelivery,
       EndsDelivery DEF Next
  <2>8. CASE UNCHANGED operationsVars \/ (Manager!Next /\ UNCHANGED botVars)
    BY <2>0, <2>8 DEF operationsVars, botVars
  <2>. QED
    BY <1>3, <2>7, <2>8 DEF OperationsNext
<1>. QED
  BY <1>1, <1>2, <1>3, Inductive, SendersKnowNext, PTL
     DEF OperationsSpec, DeliveryKept, Delivery!Spec

\* An item recorded as sent was shown, and the bot knew it when it recorded it;
\* proved of the promise alone, so it holds of whatever implements it.
THEOREM SentWasAccepted == OperationsSpec => []Delivery!SentWasShown
<1>1. Delivery!Init => Delivery!SentWasShown
  BY DEF Delivery!Init, Delivery!SentWasShown
<1>2. ASSUME Delivery!SentWasShown, [Delivery!Next]_(Delivery!delivery)
      PROVE  Delivery!SentWasShown'
  <2>1. CASE UNCHANGED Delivery!delivery
    BY <1>2, <2>1 DEF Delivery!delivery, Delivery!SentWasShown
  <2>2. ASSUME NEW i \in Item, Delivery!Raise(i) \/ Delivery!Show(i) \/ Delivery!Deliver(i)
        PROVE  Delivery!SentWasShown'
    BY <1>2, <2>2 DEF Delivery!Raise, Delivery!Show, Delivery!Deliver, Delivery!Attempted,
       Delivery!SentWasShown
  <2>3. ASSUME NEW i \in Item, Delivery!PutOff(i) \/ Delivery!GiveUp(i), Delivery!Unanswered(i)
        PROVE  Delivery!SentWasShown'
    BY <1>2, <2>3 DEF Delivery!PutOff, Delivery!GiveUp, Delivery!Attempted,
       Delivery!Unanswered, Delivery!SentWasShown
  <2>4. ASSUME NEW items \in SUBSET Item, Delivery!Forget(items)
        PROVE  Delivery!SentWasShown'
    BY <1>2, <2>4 DEF Delivery!Forget, Delivery!SentWasShown
  <2>. QED
    BY <1>2, <2>1, <2>2, <2>3, <2>4 DEF Delivery!Next
<1>. QED
  BY <1>1, <1>2, DeliversAsPromised, PTL DEF DeliveryKept, Delivery!Spec
=============================================================================
