----------------------------- MODULE Operations -----------------------------
(***************************************************************************)
(* The services beside the pipeline together: the translation manager, the  *)
(* maintenance scheduler and the bot's delivery tasks.  They meet in the    *)
(* translator: a reload takes it down for a moment, an outage may last, and *)
(* the scheduler alerts the operator of one that does.                      *)
(***************************************************************************)
EXTENDS BotDeliveries

VARIABLES language, package, job, work  \* of TranslationManager

Manager == INSTANCE TranslationManager

managerVars == <<language, package, job, work>>
botVars == <<row, task, accepted, failing, episode>>
operationsVars == <<managerVars, botVars, translator>>

\* Both parts keep to their types.
PartsTypeOK == Manager!TypeOK /\ TypeOK

OperationsInit == Manager!Init /\ Init

\* The bot only looks at the translator.
OperationsNext ==
  \/ Manager!Next /\ UNCHANGED botVars
  \/ Next /\ UNCHANGED managerVars

OperationsSpec == OperationsInit /\ [][OperationsNext]_operationsVars
FairOperations == OperationsSpec /\ Fairness

-----------------------------------------------------------------------------
\* A language shown as installed has both packages (InstalledIsComplete of
\* TranslationManager), although the scheduler and the bot run beside it.
InstalledIsComplete == Manager!InstalledIsComplete
=============================================================================
