--------------------------- MODULE DeliveryPromise ---------------------------
(***************************************************************************)
(* What the bot promises of the notifications and alerts it delivers, with  *)
(* nothing of how it keeps it: no tasks, no claims, no transactions.        *)
(*                                                                         *)
(* An item is raised once.  It is shown again only as long as the bot       *)
(* cannot know that it was shown; it is put off only then, and only as long *)
(* as attempts are left; "sent" is recorded only when the bot knows it, and *)
(* what it has recorded it neither forgets nor changes.                     *)
(*                                                                         *)
(* BotDeliveries implements it; the mapping is its definition Delivery.     *)
(***************************************************************************)
EXTENDS Naturals

CONSTANTS
  Item,        \* the notifications and the alerts
  MaxAttempts  \* attempts that are recorded of an item, at most

VARIABLES
  phase,  \* how far each item is
  shown,  \* what the bot knows of its first part: not shown, perhaps, shown
  tries   \* how many attempts were recorded

delivery == <<phase, shown, tries>>

Init ==
  /\ phase = [i \in Item |-> "none"]
  /\ shown = [i \in Item |-> "no"]
  /\ tries = [i \in Item |-> 0]

Raise(i) ==
  /\ phase[i] = "none"
  /\ phase' = [phase EXCEPT ![i] = "due"]
  /\ UNCHANGED <<shown, tries>>

Show(i) ==
  /\ phase[i] = "due"
  /\ shown[i] # "yes"
  /\ shown' = [shown EXCEPT ![i] = "yes"]
  /\ UNCHANGED <<phase, tries>>

\* The end of an attempt: with every part shown, put off, or given up.
Attempted(i, outcome) ==
  /\ phase[i] = "due"
  /\ tries[i] < MaxAttempts
  /\ phase' = [phase EXCEPT ![i] = outcome]
  /\ tries' = [tries EXCEPT ![i] = @ + 1]

Deliver(i) == shown[i] = "yes" /\ Attempted(i, "sent") /\ UNCHANGED shown

PutOff(i) == shown[i] # "yes" /\ tries[i] + 1 < MaxAttempts /\ Attempted(i, "due")

GiveUp(i) == Attempted(i, "failed")

\* It may have been shown by an attempt of which the bot got no answer.
Unanswered(i) == shown' = shown \/ (shown[i] # "yes" /\ shown' = [shown EXCEPT ![i] = "maybe"])

\* A crash: of what is still due the bot does not know any more that it was shown.
Forget(items) ==
  /\ \A i \in items : phase[i] = "due" /\ shown[i] = "yes"
  /\ shown' = [i \in Item |-> IF i \in items THEN "maybe" ELSE shown[i]]
  /\ UNCHANGED <<phase, tries>>

Next ==
  \/ \E i \in Item :
       \/ Raise(i) \/ Show(i) \/ Deliver(i)
       \/ (PutOff(i) \/ GiveUp(i)) /\ Unanswered(i)
  \/ \E items \in SUBSET Item : Forget(items)

Spec == Init /\ [][Next]_delivery

-----------------------------------------------------------------------------
\* What the promise amounts to: "sent" is said of nothing that was not shown.
SentWasShown == \A i \in Item : phase[i] = "sent" => shown[i] = "yes"
=============================================================================
