---------------------- MODULE TranslationManager_proofs ----------------------
(* The invariants of TranslationManager for any languages and any number of  *)
(* jobs.  What makes InstalledIsComplete hold is that the job being executed *)
(* is the oldest pending one, and that the row is committed only in states   *)
(* that agree with the packages.                                             *)
EXTENDS TranslationManager, TLAPS

-----------------------------------------------------------------------------
(* Types.                                                                    *)

LEMMA RowType ==
  ASSUME NEW r \in Row
  PROVE  /\ Installing(r) \in Row
         /\ r.status \in {"absent", "installing", "installed"}
         /\ r.enabled \in BOOLEAN
         /\ r # NoRow => [r EXCEPT !.enabled = ~@] \in Row
         /\ r.status = "absent" => ~r.enabled
<1>1. CASE r = NoRow
  <2>a. r.enabled = FALSE
    BY <1>1 DEF NoRow
  <2>b. r.status = "absent"
    BY <1>1 DEF NoRow
  <2>1. r.enabled \in BOOLEAN /\ ~r.enabled /\ r.status = "absent"
    BY <2>a, <2>b
  <2>2. r \in [status : {"absent"}, enabled : BOOLEAN]
    BY <1>1 DEF NoRow
  <2>3. Installing(r) \in Row
    BY <2>2 DEF Installing, Row
  <2>. QED
    BY <1>1, <2>1, <2>3
<1>2. CASE r \in [status : {"installing", "installed"}, enabled : BOOLEAN]
  <2>1. r.enabled \in BOOLEAN /\ r.status \in {"installing", "installed"}
    BY <1>2
  <2>2. Installing(r) \in Row
    BY <1>2 DEF Installing, Row
  <2>3. (~r.enabled) \in BOOLEAN
    OBVIOUS
  <2>4. [r EXCEPT !.enabled = ~@] \in Row
    BY <1>2, <2>3 DEF Row
  <2>. QED
    BY <2>1, <2>2, <2>4
<1>. QED
  BY <1>1, <1>2 DEF Row

\* Only a row that exists can be switched.
LEMMA ToggleNeedsRow ==
  ASSUME Toggle
  PROVE  work.row # NoRow
<1>1. SUFFICES ASSUME work.row = NoRow PROVE FALSE
  OBVIOUS
<1>2. work.row.status = "absent" /\ work.row.enabled = FALSE
  BY <1>1 DEF NoRow
<1>3. job[work.job].action \in {"enable", "disable"} /\ Allowed(job[work.job].action, work.row)
  BY DEF Toggle
<1>4. CASE job[work.job].action = "enable"
  BY <1>2, <1>3, <1>4 DEF Allowed
<1>5. CASE job[work.job].action = "disable"
  <2>1. Allowed("disable", work.row) = work.row.enabled
    BY DEF Allowed
  <2>. QED
    BY <1>2, <1>3, <1>5, <2>1
<1>. QED
  BY <1>3, <1>4, <1>5

LEMMA JobType ==
  ASSUME TypeOK, NEW j \in Job
  PROVE  /\ job[j].status # "none" => job[j] \in JobRow
         /\ job[j] # NoJob => job[j] \in JobRow
         /\ job[j].status = "pending" => job[j].language \in Language
BY DEF TypeOK, JobRow, NoJob

LEMMA WorkType ==
  ASSUME TypeOK, work # Idle
  PROVE  work \in Work /\ work.job \in Job /\ work.row \in Row
BY DEF TypeOK, Work

LEMMA NotIdle ==
  ASSUME work.step # "idle"
  PROVE  work # Idle
BY DEF Idle

\* The steps of the manager between the claim and the commit.
Continues ==
  \/ StartInstall \/ InstallFrom \/ InstallTo \/ MarkInstalled
  \/ Toggle \/ StartDelete \/ RemoveFrom \/ RemoveTo \/ Reload

\* Those that commit.
Finishes == Succeed \/ Refuse \/ CommandFails

LEMMA ContinueStep ==
  ASSUME TypeOK, NEW step \in {"claimed", "install_from", "install_to", "mark",
           "remove_from", "remove_to", "reload", "done"},
         NEW r \in Row, work # Idle, Continue(step, r)
  PROVE  /\ work' \in Work
         /\ work'.step = step /\ work'.job = work.job /\ work'.row = r
BY WorkType DEF Continue, Work

LEMMA ContinuesNotIdle ==
  ASSUME Continues
  PROVE  work # Idle
BY DEF Continues, StartInstall, InstallFrom, InstallTo, MarkInstalled, Toggle,
   StartDelete, RemoveFrom, RemoveTo, Reload, Idle

LEMMA FinishesNotIdle ==
  ASSUME Finishes
  PROVE  work # Idle
BY DEF Finishes, Succeed, Refuse, CommandFails, Idle

LEMMA InstalledRow == Installed \in Row /\ NoRow \in Row
BY DEF Installed, Row

\* What a step of the manager does to the transaction.
LEMMA ContinuesType ==
  ASSUME TypeOK, Continues
  PROVE  /\ work' \in Work
         /\ work'.job = work.job
         /\ UNCHANGED <<language, job>>
<1>0. work # Idle /\ work \in Work /\ work.row \in Row
  BY ContinuesNotIdle, WorkType
<1>1. CASE StartInstall
  BY <1>0, <1>1, RowType, ContinueStep DEF StartInstall
<1>2. CASE InstallFrom
  BY <1>0, <1>2, ContinueStep DEF InstallFrom
<1>3. CASE InstallTo
  BY <1>0, <1>3, ContinueStep DEF InstallTo
<1>4. CASE MarkInstalled
  BY <1>0, <1>4, InstalledRow, ContinueStep DEF MarkInstalled
<1>5. CASE Toggle
  <2>1. work.row # NoRow
    BY <1>5, ToggleNeedsRow
  <2>. QED
    BY <1>0, <1>5, <2>1, RowType, ContinueStep DEF Toggle
<1>6. CASE StartDelete
  BY <1>0, <1>6, InstalledRow, ContinueStep DEF StartDelete
<1>7. CASE RemoveFrom
  BY <1>0, <1>7, ContinueStep DEF RemoveFrom
<1>8. CASE RemoveTo
  BY <1>0, <1>8, ContinueStep DEF RemoveTo
<1>9. CASE Reload
  BY <1>0, <1>9, ContinueStep DEF Reload
<1>. QED
  BY <1>1, <1>2, <1>3, <1>4, <1>5, <1>6, <1>7, <1>8, <1>9 DEF Continues

LEMMA PackagesType ==
  ASSUME TypeOK, Continues
  PROVE  package' \in [Language -> SUBSET Package] /\ translator' \in {"up", "down"}
BY DEF TypeOK, Continues, StartInstall, InstallFrom, InstallTo, MarkInstalled, Toggle,
   StartDelete, RemoveFrom, RemoveTo, Reload, Package

\* The job in the transaction is pending for everybody else, and the oldest.
\* Jobs are numbered in the order of created_at.
Oldest(j) == job[j].status = "pending" /\ \A i \in 1..(j - 1) : job[i].status # "pending"
JobsInOrder ==
  /\ \A j \in Job : job[j] # NoJob => \A i \in 1..(j - 1) : job[i] # NoJob
  /\ work # Idle => Oldest(work.job)

LEMMA FinishType ==
  ASSUME TypeOK, JobsInOrder, Finishes
  PROVE  TypeOK'
<1>0. work # Idle /\ work \in Work /\ work.job \in Job /\ work.row \in Row
  BY FinishesNotIdle, WorkType
<1>1. job[work.job] \in JobRow /\ Code \in Language
  BY <1>0, JobType DEF JobsInOrder, Oldest, JobRow, Code
<1>2. PICK outcome \in {"succeeded", "failed"} : Finish(outcome)
  BY DEF Finishes, Succeed, Refuse, CommandFails
<1>3. [job[work.job] EXCEPT !.status = outcome] \in JobRow
  BY <1>1 DEF JobRow
<1>4. job' \in [Job -> JobRow \cup {NoJob}]
  BY <1>0, <1>2, <1>3 DEF Finish, TypeOK
<1>5. language' \in [Language -> Row]
  BY <1>0, <1>1, <1>2 DEF Finish, TypeOK
<1>. QED
  BY <1>2, <1>4, <1>5 DEF Finish, TypeOK

LEMMA EnqueueType ==
  ASSUME TypeOK, NEW j \in Job, NEW action \in Action, NEW l \in Language,
         Enqueue(j, action, l)
  PROVE  TypeOK'
<1>1. [status |-> "pending", action |-> action, language |-> l] \in JobRow
  BY DEF JobRow
<1>. QED
  BY <1>1 DEF Enqueue, TypeOK

LEMMA ClaimType ==
  ASSUME TypeOK, NEW j \in Job, Claim(j)
  PROVE  TypeOK'
<1>1. language[job[j].language] \in Row
  BY JobType DEF Claim, TypeOK
<1>2. work' \in Work
  BY <1>1 DEF Claim, Work
<1>. QED
  BY <1>2 DEF Claim, TypeOK

-----------------------------------------------------------------------------
(* The inductive invariant.                                                  *)

Complete(l) == package[l] = Package

\* What the open transaction has done so far, to its row and to the packages.
WorkFits ==
  work # Idle =>
    /\ work.step = "claimed" => work.row = language[Code]
    /\ work.step \in {"install_from", "install_to", "mark"} =>
         job[work.job].action = "install" /\ work.row.status = "installing"
    /\ work.step \in {"install_to", "mark"} => "from" \in package[Code]
    /\ work.step = "mark" => "to" \in package[Code]
    /\ work.step \in {"remove_from", "remove_to"} =>
         job[work.job].action = "delete" /\ work.row = NoRow
    /\ work.step \in {"reload", "done"} /\ work.row.status = "installed" => Complete(Code)

IInv == TypeOK /\ JobsInOrder /\ InstalledIsComplete /\ WorkFits

LEMMA InitInv ==
  ASSUME Init
  PROVE  IInv
<1>1. TypeOK
  BY InstalledRow DEF Init, TypeOK, NoJob, Package
<1>2. JobsInOrder /\ WorkFits
  BY DEF Init, JobsInOrder, WorkFits
<1>3. InstalledIsComplete
  BY DEF Init, InstalledIsComplete, NoRow
<1>. QED
  BY <1>1, <1>2, <1>3 DEF IInv

LEMMA EnqueueInv ==
  ASSUME IInv, NEW j \in Job, NEW action \in Action, NEW l \in Language,
         Enqueue(j, action, l)
  PROVE  IInv'
<1>1. \A i \in Job \ {j} : job'[i] = job[i]
  BY DEF Enqueue, IInv, TypeOK
<1>2. job'[j] # NoJob /\ job[j] = NoJob /\ job[j].status # "pending"
  BY DEF Enqueue, IInv, TypeOK, NoJob
<1>3. \A i \in Job : job[i] # NoJob => i < j
  BY <1>2, JobsAssumption DEF IInv, JobsInOrder, Job
<1>4. \A i \in Job : Oldest(i) => Oldest(i)'
  <2>1. SUFFICES ASSUME NEW i \in Job, Oldest(i) PROVE Oldest(i)'
    OBVIOUS
  <2>2. i # j /\ i < j
    BY <1>2, <1>3, <2>1 DEF Oldest, NoJob
  <2>3. \A k \in 1..(i - 1) : k \in Job /\ k # j
    BY <2>2, JobsAssumption DEF Job
  <2>. QED
    BY <1>1, <2>1, <2>2, <2>3 DEF Oldest
<1>5. JobsInOrder'
  <2>1. \A i \in Job : job'[i] # NoJob => \A k \in 1..(i - 1) : job'[k] # NoJob
    <3>1. SUFFICES ASSUME NEW i \in Job, job'[i] # NoJob, NEW k \in 1..(i - 1)
                   PROVE  job'[k] # NoJob
      OBVIOUS
    <3>2. k \in Job
      BY JobsAssumption DEF Job
    <3>. QED
      BY <1>1, <1>2, <3>1, <3>2 DEF IInv, JobsInOrder, Enqueue
  <2>2. work # Idle => Oldest(work.job)'
    BY <1>4, WorkType DEF IInv, JobsInOrder, Enqueue, Oldest
  <2>. QED
    BY <2>1, <2>2 DEF JobsInOrder, Oldest, Enqueue
<1>6. InstalledIsComplete'
  <2>1. SUFFICES ASSUME NEW m \in Language, language'[m].status = "installed"
                 PROVE  package'[m] = Package \/ Interrupted(m)'
    BY DEF InstalledIsComplete
  <2>2. CASE Interrupted(m)
    <3>1. PICK i \in Job : /\ Oldest(i)
                           /\ job[i].action = "delete" /\ job[i].language = m
      BY <2>2 DEF Interrupted, Oldest
    <3>2. i # j
      BY <1>2, <3>1 DEF Oldest
    <3>. QED
      BY <1>1, <1>4, <3>1, <3>2 DEF Interrupted, Oldest
  <2>. QED
    BY <2>1, <2>2 DEF Enqueue, IInv, InstalledIsComplete
<1>7. WorkFits'
  <2>1. work # Idle => work.job \in Job /\ work.job # j
    BY <1>2, WorkType DEF IInv, JobsInOrder, Oldest
  <2>. QED
    BY <1>1, <2>1 DEF WorkFits, IInv, Enqueue, Code, Complete
<1>. QED
  BY <1>5, <1>6, <1>7, EnqueueType DEF IInv

LEMMA ClaimInv ==
  ASSUME IInv, NEW j \in Job, Claim(j)
  PROVE  IInv'
<1>1. work'.step = "claimed" /\ work'.job = j /\ work'.row = language[job[j].language]
      /\ UNCHANGED <<language, package, job>>
  BY DEF Claim
<1>2. JobsInOrder'
  BY <1>1 DEF Claim, IInv, JobsInOrder, Oldest
<1>3. WorkFits'
  BY <1>1 DEF WorkFits, Code
<1>. QED
  BY <1>1, <1>2, <1>3, ClaimType DEF IInv, InstalledIsComplete, Interrupted

\* The oldest pending job is that of the transaction: nobody else's deletion
\* was interrupted.
LEMMA OnlyWork ==
  ASSUME IInv, work # Idle, NEW l \in Language, Interrupted(l)
  PROVE  l = Code /\ job[work.job].action = "delete"
<1>1. PICK i \in Job : Oldest(i) /\ job[i].action = "delete" /\ job[i].language = l
  BY DEF Interrupted, Oldest
<1>2. work.job \in Job /\ Oldest(work.job)
  BY WorkType DEF IInv, JobsInOrder
<1>3. i = work.job
  BY <1>1, <1>2, JobsAssumption DEF Oldest, Job
<1>. QED
  BY <1>1, <1>3 DEF Code

LEMMA ContinuesInv ==
  ASSUME IInv, Continues
  PROVE  IInv'
<1>0. work # Idle /\ work \in Work /\ work.job \in Job /\ work.row \in Row
  BY ContinuesNotIdle, WorkType DEF IInv
<1>1. work' \in Work /\ work'.job = work.job /\ UNCHANGED <<language, job>>
  BY ContinuesType DEF IInv
<1>2. TypeOK'
  BY <1>1, PackagesType DEF IInv, TypeOK
<1>3. JobsInOrder'
  BY <1>0, <1>1 DEF IInv, JobsInOrder, Oldest
<1>4. Code \in Language /\ Code' = Code
  BY <1>0, <1>1, JobType DEF IInv, JobsInOrder, Oldest, Code
<1>5. work' # Idle
  BY <1>1 DEF Work, Idle
<1>6. package \in [Language -> SUBSET Package]
  BY DEF IInv, TypeOK
<1>7. \A l \in Language : Interrupted(l)' = Interrupted(l)
  BY <1>1 DEF Interrupted
<1>8. (job[work.job].action = "delete" /\ Oldest(work.job)) => Interrupted(Code)
  BY <1>0 DEF Interrupted, Oldest, Code
<1>9. Oldest(work.job)
  BY <1>0 DEF IInv, JobsInOrder
<1>10. InstalledIsComplete'
  <2>1. CASE RemoveFrom \/ RemoveTo
    <3>1. Interrupted(Code)
      BY <1>0, <1>8, <1>9, <2>1 DEF RemoveFrom, RemoveTo, IInv, WorkFits
    <3>2. \A l \in Language \ {Code} : package'[l] = package[l]
      BY <1>6, <2>1 DEF RemoveFrom, RemoveTo
    <3>. QED
      BY <1>1, <1>7, <3>1, <3>2 DEF IInv, InstalledIsComplete
  <2>2. CASE ~(RemoveFrom \/ RemoveTo)
    <3>1. \A l \in Language : package[l] = Package => package'[l] = Package
      BY <1>6, <2>2 DEF Continues, StartInstall, InstallFrom, InstallTo, MarkInstalled,
         Toggle, StartDelete, Reload, Package
    <3>. QED
      BY <1>1, <1>7, <3>1 DEF IInv, InstalledIsComplete
  <2>. QED
    BY <2>1, <2>2
<1>11. WorkFits'
  <2>0. WorkFits
    BY DEF IInv
  <2>1. CASE StartInstall
    <3>1. work'.step = "install_from" /\ work'.row = Installing(work.row)
      BY <1>0, <2>1, RowType, ContinueStep DEF StartInstall, IInv
    <3>2. work'.row.status = "installing"
      BY <1>0, <3>1 DEF Installing, Row, NoRow
    <3>. QED
      BY <1>1, <1>4, <2>1, <3>1, <3>2 DEF WorkFits, StartInstall
  <2>2. CASE InstallFrom
    <3>1. work'.step = "install_to" /\ work'.row = work.row
      BY <1>0, <2>2, ContinueStep DEF InstallFrom, IInv
    <3>2. "from" \in package'[Code]
      BY <1>4, <1>6, <2>2 DEF InstallFrom
    <3>. QED
      BY <1>0, <1>1, <1>4, <2>0, <2>2, <3>1, <3>2 DEF WorkFits, InstallFrom
  <2>3. CASE InstallTo
    <3>1. work'.step = "mark" /\ work'.row = work.row
      BY <1>0, <2>3, ContinueStep DEF InstallTo, IInv
    <3>2. "from" \in package[Code]
      BY <1>0, <2>0, <2>3 DEF WorkFits, InstallTo
    <3>3. "from" \in package'[Code] /\ "to" \in package'[Code]
      BY <1>4, <1>6, <2>3, <3>2 DEF InstallTo
    <3>. QED
      BY <1>0, <1>1, <1>4, <2>0, <2>3, <3>1, <3>3 DEF WorkFits, InstallTo
  <2>4. CASE MarkInstalled
    <3>1. work'.step = "reload" /\ package' = package
      BY <1>0, <2>4, InstalledRow, ContinueStep DEF MarkInstalled, IInv
    <3>2. "from" \in package[Code] /\ "to" \in package[Code]
      BY <1>0, <2>0, <2>4 DEF WorkFits, MarkInstalled
    <3>3. package[Code] = Package
      BY <1>4, <1>6, <3>2 DEF Package
    <3>. QED
      BY <1>1, <1>4, <3>1, <3>3 DEF WorkFits, Complete
  <2>5. CASE Toggle
    <3>1. work.row = language[Code] /\ package' = package
      BY <1>0, <2>0, <2>5 DEF WorkFits, Toggle
    <3>2. work.row # NoRow
      BY <2>5, ToggleNeedsRow
    <3>3. work'.step = "reload" /\ work'.row = [work.row EXCEPT !.enabled = ~@]
      BY <1>0, <2>5, <3>2, RowType, ContinueStep DEF Toggle, IInv
    <3>4. work'.row.status = work.row.status
      BY <1>0, <3>2, <3>3 DEF Row
    <3>5. ~Interrupted(Code)
      BY <1>0, <1>4, <2>5, OnlyWork DEF Toggle
    <3>6. work.row.status = "installed" => package[Code] = Package
      BY <1>4, <3>1, <3>5 DEF IInv, InstalledIsComplete
    <3>. QED
      BY <1>1, <1>4, <3>1, <3>3, <3>4, <3>6 DEF WorkFits, Complete
  <2>6. CASE StartDelete
    <3>1. work'.step = "remove_from" /\ work'.row = NoRow
      BY <1>0, <2>6, InstalledRow, ContinueStep DEF StartDelete, IInv
    <3>. QED
      BY <1>1, <1>4, <2>6, <3>1 DEF WorkFits, StartDelete
  <2>7. CASE RemoveFrom
    <3>1. work'.step = "remove_to" /\ work'.row = work.row
      BY <1>0, <2>7, ContinueStep DEF RemoveFrom, IInv
    <3>. QED
      BY <1>0, <1>1, <1>4, <2>0, <2>7, <3>1 DEF WorkFits, RemoveFrom
  <2>8. CASE RemoveTo
    <3>1. work'.step = "reload" /\ work'.row = work.row /\ work.row = NoRow
      BY <1>0, <2>0, <2>8, ContinueStep DEF RemoveTo, IInv, WorkFits
    <3>. QED
      BY <1>1, <1>4, <3>1 DEF WorkFits, NoRow
  <2>9. CASE Reload
    <3>1. work'.step = "done" /\ work'.row = work.row /\ package' = package
      BY <1>0, <2>9, ContinueStep DEF Reload, IInv
    <3>. QED
      BY <1>0, <1>1, <1>4, <2>0, <2>9, <3>1 DEF WorkFits, Reload, Complete
  <2>. QED
    BY <2>1, <2>2, <2>3, <2>4, <2>5, <2>6, <2>7, <2>8, <2>9 DEF Continues
<1>. QED
  BY <1>2, <1>3, <1>10, <1>11 DEF IInv

LEMMA FinishesInv ==
  ASSUME IInv, Finishes
  PROVE  IInv'
<1>0. work # Idle /\ work \in Work /\ work.job \in Job /\ work.row \in Row
  BY FinishesNotIdle, WorkType DEF IInv
<1>1. PICK outcome \in {"succeeded", "failed"} : Finish(outcome)
  BY DEF Finishes, Succeed, Refuse, CommandFails
<1>2. job[work.job] \in JobRow /\ Code \in Language /\ Oldest(work.job)
  BY <1>0, JobType DEF IInv, JobsInOrder, Oldest, JobRow, Code
<1>3. /\ \A i \in Job \ {work.job} : job'[i] = job[i]
      /\ job'[work.job] = [job[work.job] EXCEPT !.status = outcome]
      /\ \A l \in Language \ {Code} : language'[l] = language[l]
      /\ language'[Code] = work.row
      /\ work' = Idle
      /\ package' = package
  BY <1>0, <1>1, <1>2 DEF Finish, IInv, TypeOK
<1>4. TypeOK'
  BY FinishType DEF IInv
<1>5. JobsInOrder'
  <2>1. job'[work.job] # NoJob
    BY <1>2, <1>3 DEF JobRow, NoJob
  <2>2. \A i \in Job : job[i] # NoJob <=> job'[i] # NoJob
    BY <1>2, <1>3, <2>1 DEF JobRow, NoJob
  <2>3. \A i \in Job : \A k \in 1..(i - 1) : k \in Job
    BY JobsAssumption DEF Job
  <2>. QED
    BY <1>3, <2>2, <2>3 DEF IInv, JobsInOrder
<1>6. work.row.status = "installed" => package[Code] = Package
  <2>1. CASE work.step = "claimed"
    <3>1. ~Interrupted(Code) \/ work.row.status = "absent"
      BY <1>0, <1>2, <2>1, OnlyWork DEF Finishes, Succeed, Refuse, CommandFails, Allowed
    <3>2. work.row = language[Code]
      BY <1>0, <2>1 DEF IInv, WorkFits
    <3>. QED
      BY <1>2, <3>1, <3>2 DEF IInv, InstalledIsComplete
  <2>2. CASE work.step # "claimed"
    BY <1>0, <2>2 DEF Work, IInv, WorkFits, NoRow, Finishes, Succeed, Refuse,
       CommandFails, Complete
  <2>. QED
    BY <2>1, <2>2
<1>7. InstalledIsComplete'
  <2>1. \A l \in Language \ {Code} : ~Interrupted(l)
    BY <1>0, OnlyWork
  <2>2. \A l \in Language \ {Code} : language[l].status = "installed" => package[l] = Package
    BY <2>1 DEF IInv, InstalledIsComplete
  <2>. QED
    BY <1>3, <1>6, <2>2 DEF InstalledIsComplete
<1>8. WorkFits'
  BY <1>3 DEF WorkFits
<1>. QED
  BY <1>4, <1>5, <1>7, <1>8 DEF IInv

LEMMA AsideInv ==
  ASSUME IInv, Kill \/ TranslatorRecovers \/ TranslatorFails \/ UNCHANGED vars
  PROVE  IInv'
<1>1. /\ UNCHANGED <<language, package, job>>
      /\ work' \in {work, Idle}
      /\ translator' \in {"up", "down"}
  BY DEF Kill, TranslatorRecovers, TranslatorFails, vars, IInv, TypeOK
<1>2. TypeOK'
  BY <1>1 DEF IInv, TypeOK
<1>3. JobsInOrder' /\ WorkFits'
  BY <1>1 DEF IInv, JobsInOrder, Oldest, WorkFits, Code, Complete
<1>4. InstalledIsComplete'
  BY <1>1 DEF IInv, InstalledIsComplete, Interrupted
<1>. QED
  BY <1>2, <1>3, <1>4 DEF IInv

LEMMA NextInv ==
  ASSUME IInv, [Next]_vars
  PROVE  IInv'
<1>1. CASE \E j \in Job, action \in Action, l \in Language : Enqueue(j, action, l)
  BY <1>1, EnqueueInv
<1>2. CASE \E j \in Job : Claim(j)
  BY <1>2, ClaimInv
<1>3. CASE Execute
  BY <1>3, ContinuesInv, FinishesInv DEF Execute, Continues, Finishes
<1>4. CASE Kill \/ TranslatorRecovers \/ TranslatorFails \/ UNCHANGED vars
  BY <1>4, AsideInv
<1>. QED
  BY <1>1, <1>2, <1>3, <1>4 DEF Next

LEMMA Inductive == Spec => []IInv
BY InitInv, NextInv, PTL DEF Spec

-----------------------------------------------------------------------------
\* The rows, the packages, the jobs and the transaction keep their types
\* (entities.py, TranslationLanguage and TranslationManagerJob).
THEOREM TypeCorrect == Spec => []TypeOK
<1>1. IInv => TypeOK
  BY DEF IInv
<1>. QED
  BY <1>1, Inductive, PTL

\* A language shown as installed has both its packages unless its deletion was
\* interrupted and is the next job, whatever failed or was killed before
\* (manager.py, run; jobs.py, TranslationJobHandler.execute).
THEOREM InstalledComplete == Spec => []InstalledIsComplete
<1>1. IInv => InstalledIsComplete
  BY DEF IInv
<1>. QED
  BY <1>1, Inductive, PTL
=============================================================================
