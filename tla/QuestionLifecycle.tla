-------------------------- MODULE QuestionLifecycle --------------------------
(***************************************************************************)
(* The life of a question, as docs/SPEC.md section 11 draws it and the      *)
(* repositories implement it: which statuses follow one another, and that   *)
(* a reply is written before it is confirmed.  Nothing is said of who takes *)
(* a step, nor of commands, handlers, sessions or transactions.             *)
(*                                                                         *)
(* The diagram and the code differ at two edges, and this module follows    *)
(* the code: a dismissed question can be reopened (QuestionFeedback-        *)
(* Repository), and a failed send leads nowhere (no repository takes        *)
(* "send_failed" back to a preview).                                        *)
(*                                                                         *)
(* Two modules look at the table detected_questions from two sides and both *)
(* implement this one: OutboundReplies with the commands and the workers,   *)
(* OperatorDialog with the handlers and the session of the operator.        *)
(***************************************************************************)
CONSTANT Question

VARIABLES
  status,   \* detected_questions.status; "deleted" when the row is gone
  drafted   \* questions with at least one reply version

life == <<status, drafted>>

Status ==
  {"detected", "waiting_for_draft", "waiting_confirmation", "send_requested",
   "sent", "send_failed", "dismissed", "cancelled", "deleted"}

Init ==
  /\ status = [q \in Question |-> "detected"]
  /\ drafted = {}

\* One question's part of a step.
Moves(q, from, to) == status[q] \in from /\ status'[q] \in to
Keeps(q) == (q \in drafted') = (q \in drafted)

Open(q) ==
  /\ Moves(q, {"detected", "waiting_for_draft", "waiting_confirmation"},
           {"waiting_for_draft"})
  /\ Keeps(q)

Write(q) ==
  /\ Moves(q, {"waiting_for_draft"}, {"waiting_confirmation"})
  /\ q \in drafted'

Cancel(q) ==
  /\ Moves(q, {"waiting_for_draft", "waiting_confirmation"}, {"cancelled"})
  /\ Keeps(q)

Confirm(q) == Moves(q, {"waiting_confirmation"}, {"send_requested"}) /\ Keeps(q)

Settle(q) == Moves(q, {"send_requested"}, {"sent", "send_failed"}) /\ Keeps(q)

Dismiss(q) == Moves(q, {"detected"}, {"dismissed"}) /\ Keeps(q)

Reopen(q) == Moves(q, {"dismissed"}, {"detected"}) /\ Keeps(q)

Delete(q) == Moves(q, Status \ {"deleted"}, {"deleted"}) /\ q \notin drafted'

Stay(q) == status'[q] = status[q] /\ Keeps(q)

\* Replacing the active draft cancels one question and opens another at once.
Next ==
  /\ status' \in [Question -> Status]
  /\ drafted' \in SUBSET Question
  /\ \A q \in Question :
       \/ Open(q) \/ Write(q) \/ Cancel(q) \/ Confirm(q) \/ Settle(q)
       \/ Dismiss(q) \/ Reopen(q) \/ Delete(q) \/ Stay(q)

Spec == Init /\ [][Next]_life

\* Nothing waits for a confirmation, is sent or fails that was never written.
WrittenFirst ==
  \A q \in Question :
    status[q] \in {"waiting_confirmation", "send_requested", "sent", "send_failed"}
      => q \in drafted
=============================================================================
