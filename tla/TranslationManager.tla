------------------------- MODULE TranslationManager -------------------------
(***************************************************************************)
(* The translation manager: jobs the operator's language cards enqueue, and *)
(* the service that claims the oldest one and runs it against the Argos     *)
(* packages and LibreTranslate, all inside the transaction of the claim.    *)
(*                                                                         *)
(* The transaction covers the row of the language, but not the packages on  *)
(* disk: a job that fails is finished as failed in the same transaction and *)
(* keeps the row as it was left, a manager that is killed loses the row and *)
(* keeps the packages.                                                      *)
(*                                                                         *)
(* The languages are the ones that are not required; a job for a required   *)
(* one is refused before anything is written.  The actions reload and test  *)
(* are enqueued by nothing.                                                 *)
(***************************************************************************)
EXTENDS ServiceParameters

Job == 1..MaxJobs
Action == {"install", "enable", "disable", "delete"}

\* The two packages of a language: from it to English, and back.
Package == {"from", "to"}

NoRow == [status |-> "absent", enabled |-> FALSE]
Row == [status : {"installing", "installed"}, enabled : BOOLEAN] \cup {NoRow}

NoJob == [status |-> "none"]
JobRow ==
  [status : {"pending", "succeeded", "failed"}, action : Action, language : Language]

Idle == [step |-> "idle"]
\* The open transaction: the job, the row as changed so far, what comes next.
Work == [step : {"claimed", "install_from", "install_to", "mark", "remove_from",
                 "remove_to", "reload", "done"},
         job : Job, row : Row]

VARIABLES
  language,    \* translation_languages
  package,     \* Argos packages on disk
  job,         \* translation_manager_jobs, oldest first
  work,        \* the manager
  translator   \* LibreTranslate: up, or down while it reloads

vars == <<language, package, job, work, translator>>

TypeOK ==
  /\ language \in [Language -> Row]
  /\ package \in [Language -> SUBSET Package]
  /\ job \in [Job -> JobRow \cup {NoJob}]
  /\ work \in Work \cup {Idle}
  /\ translator \in {"up", "down"}

\* A language may have been installed before.
Installed == [status |-> "installed", enabled |-> TRUE]
Init ==
  /\ language \in [Language -> {NoRow, Installed}]
  /\ package = [l \in Language |-> IF language[l] = NoRow THEN {} ELSE Package]
  /\ job = [j \in Job |-> NoJob]
  /\ work = Idle
  /\ translator = "up"

\* The language of the job that is being executed.
Code == job[work.job].language

-----------------------------------------------------------------------------
\* manage_language enqueues one job; a card may be out of date, so any action.
Enqueue(j, action, l) ==
  /\ job[j] = NoJob
  /\ \A i \in 1..(j - 1) : job[i] # NoJob
  /\ job' = [job EXCEPT ![j] = [status |-> "pending", action |-> action, language |-> l]]
  /\ UNCHANGED <<language, package, work, translator>>

Claim(j) ==
  /\ work = Idle
  /\ job[j].status = "pending"
  /\ \A i \in 1..(j - 1) : job[i].status # "pending"
  /\ work' = [step |-> "claimed", job |-> j, row |-> language[job[j].language]]
  /\ UNCHANGED <<language, package, job, translator>>

Continue(step, row) == work' = [work EXCEPT !.step = step, !.row = row]

\* mark_installing keeps is_enabled of a row that exists.
Installing(row) == [row EXCEPT !.status = "installing"]

StartInstall ==
  /\ work.step = "claimed"
  /\ job[work.job].action = "install"
  /\ Continue("install_from", Installing(work.row))
  /\ UNCHANGED <<language, package, job, translator>>

\* argospm install of the two packages, one command after the other.
InstallFrom ==
  /\ work.step = "install_from"
  /\ package' = [package EXCEPT ![Code] = @ \cup {"from"}]
  /\ Continue("install_to", work.row)
  /\ UNCHANGED <<language, job, translator>>

\* InstallHalf marks the language after the first command.
InstallHalf ==
  /\ work.step = "install_to"
  /\ Continue("mark", work.row)
  /\ UNCHANGED <<language, package, job, translator>>
InstallTo ==
  /\ work.step = "install_to"
  /\ package' = [package EXCEPT ![Code] = @ \cup {"to"}]
  /\ Continue("mark", work.row)
  /\ UNCHANGED <<language, job, translator>>

MarkInstalled ==
  /\ work.step = "mark"
  /\ Continue("reload", Installed)
  /\ UNCHANGED <<language, package, job, translator>>

\* Each change but an installation needs a row in the right state.
Allowed(action, row) ==
  CASE action = "install" -> TRUE
    [] action = "enable"  -> row.status = "installed" /\ ~row.enabled
    [] action = "disable" -> row.enabled
    [] action = "delete"  -> row.status # "absent"

Toggle ==
  /\ work.step = "claimed"
  /\ job[work.job].action \in {"enable", "disable"}
  /\ Allowed(job[work.job].action, work.row)
  /\ Continue("reload", [work.row EXCEPT !.enabled = ~@])
  /\ UNCHANGED <<language, package, job, translator>>

StartDelete ==
  /\ work.step = "claimed"
  /\ job[work.job].action = "delete"
  /\ Allowed("delete", work.row)
  /\ Continue("remove_from", NoRow)
  /\ UNCHANGED <<language, package, job, translator>>

RemoveFrom ==
  /\ work.step = "remove_from"
  /\ package' = [package EXCEPT ![Code] = @ \ {"from"}]
  /\ Continue("remove_to", work.row)
  /\ UNCHANGED <<language, job, translator>>

RemoveTo ==
  /\ work.step = "remove_to"
  /\ package' = [package EXCEPT ![Code] = @ \ {"to"}]
  /\ Continue("reload", work.row)
  /\ UNCHANGED <<language, job, translator>>

\* SIGHUP: the workers of LibreTranslate are replaced.
Reload ==
  /\ work.step = "reload"
  /\ translator' = "down"
  /\ Continue("done", work.row)
  /\ UNCHANGED <<language, package, job>>

\* finish and commit: the row is written whether the job succeeded or failed.
Finish(outcome) ==
  /\ job' = [job EXCEPT ![work.job].status = outcome]
  /\ language' = [language EXCEPT ![Code] = work.row]
  /\ work' = Idle
  /\ UNCHANGED <<package, translator>>

Succeed == work.step = "done" /\ Finish("succeeded")

\* A refused action.
Refuse ==
  /\ work.step = "claimed"
  /\ ~Allowed(job[work.job].action, work.row)
  /\ Finish("failed")

\* A command fails, or the process of LibreTranslate is not found.
CommandFails ==
  /\ work.step \in {"install_from", "install_to", "remove_from", "remove_to", "reload"}
  /\ Finish("failed")

\* The manager is killed, or loses the database: the transaction is undone.
Kill ==
  /\ work # Idle
  /\ work' = Idle
  /\ UNCHANGED <<language, package, job, translator>>

TranslatorRecovers ==
  /\ translator = "down"
  /\ translator' = "up"
  /\ UNCHANGED <<language, package, job, work>>

TranslatorFails ==
  /\ translator = "up"
  /\ translator' = "down"
  /\ UNCHANGED <<language, package, job, work>>

Execute ==
  \/ StartInstall \/ InstallFrom \/ InstallTo \/ MarkInstalled
  \/ Toggle \/ StartDelete \/ RemoveFrom \/ RemoveTo
  \/ Reload \/ Succeed \/ Refuse \/ CommandFails

Next ==
  \/ \E j \in Job, action \in Action, l \in Language : Enqueue(j, action, l)
  \/ \E j \in Job : Claim(j)
  \/ Execute \/ Kill
  \/ TranslatorRecovers \/ TranslatorFails

Spec == Init /\ [][Next]_vars

-----------------------------------------------------------------------------
(* Properties.                                                               *)

\* A language that the bot shows as installed has both its packages, whatever
\* failed or was killed before: only a deletion that was interrupted may have
\* removed some, and that job is still there and runs next.
Interrupted(l) ==
  \E j \in Job :
    /\ job[j].status = "pending" /\ job[j].action = "delete" /\ job[j].language = l
    /\ \A i \in 1..(j - 1) : job[i].status # "pending"
InstalledIsComplete ==
  \A l \in Language :
    language[l].status = "installed" => package[l] = Package \/ Interrupted(l)
=============================================================================
