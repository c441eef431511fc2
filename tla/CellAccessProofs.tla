-------------------------- MODULE CellAccessProofs --------------------------
(***************************************************************************)
(* Proofs about CellAccess: a lock comes back as it was, imports exclude    *)
(* each other, a status of running is true, and an importer's lock always   *)
(* has a job that owes its return, for any number of requests.              *)
(***************************************************************************)
EXTENDS CellAccess, TLAPS

\* A request that may import is alone, and none is left once an import runs.
ImporterAlone ==
  /\ \A r, s \in Reqs : req[r] = "importer" /\ req[s] = "importer" => r = s
  /\ Active # {} => \A r \in Reqs : req[r] # "importer"

\* What a restarted worker finds in the file is no living job's.
FileOfTheDead == status = "none" => statusFile # "running"

\* An importer's lock that is not given up for lost has a job that will give it
\* back.
LockOwed == lock = "importing" /\ ~orphan => Active # {}

TruthInv == TypeOK /\ StatusTruthful /\ FileOfTheDead
ExclusionInv == TypeOK /\ ImportExclusive /\ ImporterAlone

\* An importing Cell has everything disabled (cell/lock.go, DefaultLock).
LEMMA ImportingDisables == \A cap \in Capabilities : lock = "importing" => ~Allowed(cap)
  BY DEF Allowed, Disables, Capabilities, LockTypes, PanelLocks

LEMMA TypeInit == Init => TypeOK
  BY DEF Init, TypeOK, LockTypes, PanelLocks, Capabilities, Statuses

\* Each handler leaves a lock for a lock and a state for a state.
LEMMA TypeStep ==
  ASSUME TypeOK, [Next]_vars
  PROVE  TypeOK'
<1> USE DEF TypeOK, LockTypes, PanelLocks, Capabilities, Statuses, Done, SaveLock, DeleteLock, Unlock,
            Report, locks, progress
<1>1. CASE \E t \in PanelLocks : LockCell(t)
  BY <1>1 DEF LockCell
<1>2. CASE UnlockCell
  BY <1>2 DEF UnlockCell
<1>3. CASE \E r \in Reqs, cap \in Capabilities : Ask(r, cap)
  BY <1>3 DEF Ask
<1>4. CASE \E r \in Reqs : StartCell(r) \/ WriteFile(r)
  BY <1>4 DEF StartCell, WriteFile
<1>5. CASE \E r \in Reqs : RestoreBackup(r)
  BY <1>5 DEF RestoreBackup
<1>6. CASE \E r \in Reqs : StartImporter(r)
  BY <1>6 DEF StartImporter
<1>7. CASE Exit \/ Reinstall \/ UpdateDefinition \/ ImporterStatus
  BY <1>7 DEF Exit, Reinstall, UpdateDefinition, ImporterStatus
<1>8. CASE \E r \in Reqs : JobScans(r) \/ JobCopies(r)
  BY <1>8 DEF JobScans, JobCopies
<1>9. CASE \E r \in Reqs : JobEnds(r) \/ JobUnlocks(r)
  BY <1>9 DEF JobEnds, JobUnlocks, ReportEnd, GiveBack
<1>10. CASE Crash
  BY <1>10 DEF Crash, Loaded
<1>11. CASE UNCHANGED vars
  BY <1>11 DEF vars
<1> QED
  BY <1>1, <1>2, <1>3, <1>4, <1>5, <1>6, <1>7, <1>8, <1>9, <1>10, <1>11 DEF Next

\* Whoever changes the lock writes the file in the same critical section, or says
\* that the file is lost (cell/lock.go:81).
LEMMA LockStep ==
  ASSUME TypeOK, LockSurvives, [Next]_vars
  PROVE  LockSurvives'
<1> USE DEF TypeOK, LockSurvives, Loaded, SaveLock, DeleteLock, Unlock, PanelLocks, locks
<1>1. CASE \E t \in PanelLocks : LockCell(t)
  BY <1>1 DEF LockCell
<1>2. CASE UnlockCell
  BY <1>2 DEF UnlockCell
<1>3. CASE \E r \in Reqs, cap \in Capabilities : Ask(r, cap)
  BY <1>3 DEF Ask
<1>4. CASE \E r \in Reqs : StartCell(r) \/ WriteFile(r) \/ RestoreBackup(r)
  BY <1>4 DEF StartCell, WriteFile, RestoreBackup
<1>5. CASE \E r \in Reqs : StartImporter(r)
  BY <1>5 DEF StartImporter
<1>6. CASE Exit \/ Reinstall \/ UpdateDefinition \/ ImporterStatus
  BY <1>6 DEF Exit, Reinstall, UpdateDefinition, ImporterStatus
<1>7. CASE \E r \in Reqs : JobScans(r) \/ JobCopies(r) \/ JobEnds(r)
  BY <1>7 DEF JobScans, JobCopies, JobEnds
<1>8. CASE \E r \in Reqs : JobUnlocks(r)
  BY <1>8 DEF JobUnlocks, GiveBack
<1>9. CASE Crash
  BY <1>9 DEF Crash
<1>10. CASE UNCHANGED vars
  BY <1>10 DEF vars
<1> QED
  BY <1>1, <1>2, <1>3, <1>4, <1>5, <1>6, <1>7, <1>8, <1>9, <1>10 DEF Next

\* A job sets the status while it is at work, and the file of a dead one never
\* says running by the time somebody falls back on it (handlers.go:1904).
LEMMA TruthStep ==
  ASSUME TruthInv, [Next]_vars
  PROVE  StatusTruthful' /\ FileOfTheDead'
<1> USE DEF TruthInv, TypeOK, StatusTruthful, FileOfTheDead, Report, progress
<1>1. CASE (\E t \in PanelLocks : LockCell(t)) \/ UnlockCell
  BY <1>1 DEF LockCell, UnlockCell
<1>2. CASE \E r \in Reqs, cap \in Capabilities : Ask(r, cap)
  BY <1>2 DEF Ask
<1>3. CASE \E r \in Reqs : StartCell(r) \/ WriteFile(r) \/ RestoreBackup(r)
  BY <1>3 DEF StartCell, WriteFile, RestoreBackup
<1>4. CASE \E r \in Reqs : StartImporter(r)
  BY <1>4 DEF StartImporter
<1>5. CASE Exit \/ Reinstall \/ UpdateDefinition \/ ImporterStatus
  BY <1>5 DEF Exit, Reinstall, UpdateDefinition, ImporterStatus
<1>6. CASE \E r \in Reqs : JobScans(r) \/ JobCopies(r)
  BY <1>6 DEF JobScans, JobCopies
<1>7. CASE \E r \in Reqs : JobEnds(r) \/ JobUnlocks(r)
  BY <1>7 DEF JobEnds, JobUnlocks, ReportEnd
<1>8. CASE Crash
  BY <1>8 DEF Crash
<1>9. CASE UNCHANGED vars
  BY <1>9 DEF vars
<1> QED
  BY <1>1, <1>2, <1>3, <1>4, <1>5, <1>6, <1>7, <1>8, <1>9 DEF Next

\* An importer's lock keeps the next importer out until the job gives it back; a
\* request allowed before that is alone (handlers.go:1855).
LEMMA ExclusionStep ==
  ASSUME Serial, ExclusionInv, [Next]_vars
  PROVE  ImportExclusive' /\ ImporterAlone'
<1> USE DEF ExclusionInv, TypeOK, ImportExclusive, ImporterAlone, Active, Done, locks
<1>1. CASE (\E t \in PanelLocks : LockCell(t)) \/ UnlockCell
  BY <1>1 DEF LockCell, UnlockCell, PanelFree
<1>2. CASE \E r \in Reqs, cap \in Capabilities : Ask(r, cap)
  BY <1>2, ImportingDisables DEF Ask
<1>3. CASE \E r \in Reqs : StartCell(r) \/ WriteFile(r) \/ RestoreBackup(r)
  BY <1>3 DEF StartCell, WriteFile, RestoreBackup
<1>4. CASE \E r \in Reqs : StartImporter(r)
  BY <1>4 DEF StartImporter
<1>5. CASE Exit \/ Reinstall \/ UpdateDefinition \/ ImporterStatus
  BY <1>5 DEF Exit, Reinstall, UpdateDefinition, ImporterStatus
<1>6. CASE \E r \in Reqs : JobScans(r) \/ JobCopies(r) \/ JobEnds(r)
  BY <1>6 DEF JobScans, JobCopies, JobEnds
<1>7. CASE \E r \in Reqs : JobUnlocks(r)
  BY <1>7 DEF JobUnlocks
<1>8. CASE Crash
  BY <1>8 DEF Crash
<1>9. CASE UNCHANGED vars
  BY <1>9 DEF vars
<1> QED
  BY <1>1, <1>2, <1>3, <1>4, <1>5, <1>6, <1>7, <1>8, <1>9 DEF Next

\* The lock turns "importing" only where a job is left behind that will unlock
\* the Cell, or where nobody is and the Cell is known to stay locked
\* (handlers.go:1894-1912); a worker that starts has no job to find the lock with.
LEMMA OwedStep ==
  ASSUME TypeOK, LockOwed, [Next]_vars
  PROVE  LockOwed'
<1> USE DEF TypeOK, LockOwed, Active, Unlock, locks
<1>1. CASE (\E t \in PanelLocks : LockCell(t)) \/ UnlockCell
  BY <1>1 DEF LockCell, UnlockCell, PanelLocks
<1>2. CASE \E r \in Reqs, cap \in Capabilities : Ask(r, cap)
  BY <1>2 DEF Ask
<1>3. CASE \E r \in Reqs : StartCell(r) \/ WriteFile(r) \/ RestoreBackup(r)
  BY <1>3 DEF StartCell, WriteFile, RestoreBackup
<1>4. CASE \E r \in Reqs : StartImporter(r)
  BY <1>4 DEF StartImporter
<1>5. CASE Exit \/ Reinstall \/ UpdateDefinition \/ ImporterStatus
  BY <1>5 DEF Exit, Reinstall, UpdateDefinition, ImporterStatus
<1>6. CASE \E r \in Reqs : JobScans(r) \/ JobCopies(r) \/ JobEnds(r)
  BY <1>6 DEF JobScans, JobCopies, JobEnds
<1>7. CASE \E r \in Reqs : JobUnlocks(r)
  BY <1>7 DEF JobUnlocks, GiveBack
<1>8. CASE Crash
  BY <1>8 DEF Crash
<1>9. CASE UNCHANGED vars
  BY <1>9 DEF vars
<1> QED
  BY <1>1, <1>2, <1>3, <1>4, <1>5, <1>6, <1>7, <1>8, <1>9 DEF Next

-----------------------------------------------------------------------------
\* The copies of the lock are locks, requests and jobs are where they can be.
THEOREM TypeCorrect == Spec => []TypeOK
  BY TypeInit, TypeStep, PTL DEF Spec

\* Unless the file was taken or could not be written, a restart locks a locked Cell
\* the same way, on whatever disk and with whatever requests (manager.go:75).
THEOREM LockSurvivesRestart == Spec => []LockSurvives
<1>1. Init => LockSurvives
  BY DEF Init, LockSurvives
<1> QED
  BY <1>1, TypeInit, TypeStep, LockStep, PTL DEF Spec

\* Nobody is told that an import runs that does not (handlers.go:1904-2013).
THEOREM StatusIsTrue == Spec => []StatusTruthful
<1>1. Init => TruthInv
  BY TypeInit DEF Init, TruthInv, StatusTruthful, FileOfTheDead
<1>2. TruthInv /\ [Next]_vars => TruthInv'
  BY TypeStep, TruthStep DEF TruthInv
<1>3. TruthInv => StatusTruthful
  BY DEF TruthInv
<1> QED
  BY <1>1, <1>2, <1>3, PTL DEF Spec

\* With StartImporters one after the other and a panel that leaves the lock alone
\* during a job, the lock is all it takes to have one import at a time
\* (handlers.go:1894).
THEOREM ImportsExclude ==
  ASSUME Serial
  PROVE  Spec => []ImportExclusive
<1>1. Init => ExclusionInv
  BY TypeInit DEF Init, ExclusionInv, ImportExclusive, ImporterAlone, Active
<1>2. ExclusionInv /\ [Next]_vars => ExclusionInv'
  BY TypeStep, ExclusionStep DEF ExclusionInv
<1>3. ExclusionInv => ImportExclusive
  BY DEF ExclusionInv
<1> QED
  BY <1>1, <1>2, <1>3, PTL DEF Spec

\* A Cell locked by an importer has a job that will unlock it, whatever the panel
\* locks and unlocks meanwhile: what ImportUnlocks needs besides a goroutine that
\* is scheduled (handlers.go:1912).
THEOREM ImportLockIsOwed == Spec => []LockOwed
<1>1. Init => LockOwed
  BY DEF Init, LockOwed
<1> QED
  BY <1>1, TypeInit, TypeStep, OwedStep, PTL DEF Spec
=============================================================================
