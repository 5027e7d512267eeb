----------------------------- MODULE LeadPromise -----------------------------
(***************************************************************************)
(* What the pipeline promises of the messages of the monitored chats, with  *)
(* nothing of how it keeps it: no jobs, no attempts, no reply chains, no    *)
(* workers, no transactions.                                               *)
(*                                                                         *)
(* A message is judged by the classification while it waits, a second time  *)
(* only when the first answer asked for context; each answer is charged     *)
(* once; a message becomes a lead only when it was found relevant, and      *)
(* ends as rejected only when it was found irrelevant; what has ended       *)
(* never waits again, and only the retention of data and the removal of a   *)
(* chat make a message vanish without an answer.                           *)
(*                                                                         *)
(* ProcessingPipeline implements it; the mapping is its definition Promise. *)
(***************************************************************************)
EXTENDS Naturals

CONSTANT Message  \* the messages of the monitored chats

VARIABLES
  fate,     \* what has become of each message
  verdict,  \* what the classification has last said of it
  charged   \* how many answers of the classification the usage counts

lead == <<fate, verdict, charged>>

Fate == {"new", "waiting", "lead", "rejected", "failed", "closed", "dropped"}
Verdict == {"none", "context_required", "relevant", "irrelevant"}

Init ==
  /\ fate = [m \in Message |-> "new"]
  /\ verdict = [m \in Message |-> "none"]
  /\ charged = 0

Accept(m) ==
  /\ fate[m] = "new"
  /\ fate' = [fate EXCEPT ![m] = "waiting"]
  /\ UNCHANGED <<verdict, charged>>

\* The answers that may follow what was said before.
After(said) ==
  CASE said = "none"             -> {"context_required", "relevant", "irrelevant"}
    [] said = "context_required" -> {"relevant", "irrelevant"}
    [] OTHER                     -> {}

Judge(m, answer) ==
  /\ fate[m] = "waiting"
  /\ answer \in After(verdict[m])
  /\ verdict' = [verdict EXCEPT ![m] = answer]
  /\ charged' = charged + 1
  /\ fate' = [fate EXCEPT ![m] = IF answer = "irrelevant" THEN "rejected" ELSE "waiting"]

Present(m) ==
  /\ fate[m] = "waiting"
  /\ verdict[m] = "relevant"
  /\ fate' = [fate EXCEPT ![m] = "lead"]
  /\ UNCHANGED <<verdict, charged>>

GiveUp(m) ==
  /\ fate[m] = "waiting"
  /\ fate' = [fate EXCEPT ![m] = "failed"]
  /\ UNCHANGED <<verdict, charged>>

\* Retention deletes old work and old leads in batches, the removal of a chat
\* the work that is left for it.
Forget(work, leads) ==
  /\ \A m \in work : fate[m] \in {"waiting", "failed"}
  /\ \A m \in leads : fate[m] = "lead"
  /\ fate' = [m \in Message |-> IF m \in work THEN "dropped"
                                ELSE IF m \in leads THEN "closed" ELSE fate[m]]
  /\ UNCHANGED <<verdict, charged>>

Next ==
  \/ \E m \in Message :
       \/ Accept(m) \/ Present(m) \/ GiveUp(m)
       \/ \E answer \in Verdict : Judge(m, answer)
  \/ \E work, leads \in SUBSET Message : Forget(work, leads)

Spec == Init /\ [][Next]_lead
=============================================================================
