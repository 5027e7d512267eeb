---------------------------- MODULE ReplyPromise ----------------------------
(***************************************************************************)
(* What the reply machinery promises the operator, with nothing of how it   *)
(* keeps it: no versions, no commands, no workers, no transactions.         *)
(*                                                                         *)
(* Nothing is shown in Telegram before the operator has approved a text;    *)
(* what is shown is always a text the operator approved for that question;  *)
(* "sent" is recorded only when something is shown; an outcome is recorded  *)
(* once; and nothing more appears once the question is gone.                *)
(*                                                                         *)
(* OutboundReplies implements it; the mapping is its definition Promise.    *)
(***************************************************************************)
CONSTANTS
  Question,  \* the questions of the operator
  Text       \* the texts an operator can approve

VARIABLES
  phase,     \* how far each question is
  approved,  \* the texts the operator has approved for it
  shown      \* the texts that its messages in Telegram show

promise == <<phase, approved, shown>>

Phase == {"open", "confirmed", "sent", "failed", "gone"}

PromiseTypeOK ==
  /\ phase \in [Question -> Phase]
  /\ approved \in [Question -> SUBSET Text]
  /\ shown \in [Question -> SUBSET Text]

Init ==
  /\ phase = [q \in Question |-> "open"]
  /\ approved = [q \in Question |-> {}]
  /\ shown = [q \in Question |-> {}]

\* The operator confirms a preview: the first and only approval of a reply.
Approve(q, t) ==
  /\ phase[q] = "open"
  /\ phase' = [phase EXCEPT ![q] = "confirmed"]
  /\ approved' = [approved EXCEPT ![q] = {t}]
  /\ UNCHANGED shown

\* Telegram shows the approved reply; the program may not have noticed yet.
Publish(q) ==
  /\ phase[q] = "confirmed"
  /\ shown' = [shown EXCEPT ![q] = approved[q]]
  /\ UNCHANGED <<phase, approved>>

Settle(q, outcome) ==
  /\ phase[q] = "confirmed"
  /\ outcome = "sent" => shown[q] # {}
  /\ phase' = [phase EXCEPT ![q] = outcome]
  /\ UNCHANGED <<approved, shown>>

ApproveEdit(q, t) ==
  /\ phase[q] = "sent"
  /\ approved' = [approved EXCEPT ![q] = @ \cup {t}]
  /\ UNCHANGED <<phase, shown>>

\* An approved text takes the place of a shown one, of one message or of all.
PublishEdit(q, new) ==
  /\ phase[q] = "sent"
  /\ new \in approved[q]
  /\ \E kept \in SUBSET shown[q] : shown' = [shown EXCEPT ![q] = kept \cup {new}]
  /\ UNCHANGED <<phase, approved>>

\* Retention forgets the question; what Telegram shows stays as it is.
Close(q) ==
  /\ phase[q] # "gone"
  /\ phase' = [phase EXCEPT ![q] = "gone"]
  /\ approved' = [approved EXCEPT ![q] = {}]
  /\ UNCHANGED shown

Next ==
  \E q \in Question :
    \/ \E t \in Text : Approve(q, t) \/ ApproveEdit(q, t) \/ PublishEdit(q, t)
    \/ Publish(q)
    \/ \E outcome \in {"sent", "failed"} : Settle(q, outcome)
    \/ Close(q)

Spec == Init /\ [][Next]_promise
=============================================================================
