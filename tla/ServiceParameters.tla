------------------------- MODULE ServiceParameters -------------------------
(* The constants of the services beside the pipeline: the languages and jobs *)
(* of TranslationManager, the items and limits of BotDeliveries.             *)
EXTENDS Naturals

CONSTANTS
  Language,      \* allow-listed languages that are not required
  MaxJobs,       \* language jobs that are ever enqueued (bound)
  Notification,  \* notifications of questions
  MaxEpisode,    \* outages of the translator that are told apart (bound)
  MaxAttempts,   \* one more than the delays of RetryPolicy
  MaxParts       \* parts a notification is split into

ASSUME JobsAssumption == MaxJobs \in Nat

ASSUME DeliveryAssumption ==
  /\ MaxEpisode \in Nat
  /\ MaxAttempts \in Nat \ {0}
  /\ MaxParts \in Nat \ {0}
  /\ Notification \cap (1..MaxEpisode) = {}
=============================================================================
