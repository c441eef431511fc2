------------------------------ MODULE CellAccess ------------------------------
(***************************************************************************)
(* internal/cell/lock.go and the handlers that go by it (internal/api): the *)
(* lock of one Cell in its three copies, the requests that look at it and   *)
(* act afterwards, and the importer, which uses it to keep them away while  *)
(* it copies (handlers.go:1847, internal/importer).                         *)
(*                                                                          *)
(* A lock is its type; DefaultLock decides what it disables.  m.mutex       *)
(* covers a look or a change, never the two together, so each is an action. *)
(***************************************************************************)
CONSTANTS
  Reqs,     \* concurrent requests; an import job runs on behalf of one
  DiskFails,\* TRUE: writing or removing lock.json may fail
  Serial    \* TRUE: the panel has one StartImporter in flight at a time, and
            \* neither locks nor unlocks the Cell while a job is at work

ASSUME CellAccessAssumption == DiskFails \in BOOLEAN /\ Serial \in BOOLEAN

VARIABLES
  lock,        \* gameCell.Lock, in memory
  lockFile,    \* <dir>/.hivepanel/lock.json
  saved,       \* the lock in dataDir/cells/<id>.json, written by UpdateDefinition
  fileLost,    \* lock.json is no longer what the last lock or unlock meant
  orphan,      \* the "importing" lock is nobody's: its job has never run or is dead
  running,     \* the Cell's game server runs
  req,         \* what each request has been allowed, and has yet to do
  job,         \* the import jobs
  status,      \* importProgressStore
  statusFile   \* <dir>/.hivepanel/import-progress.json

locks == <<lock, lockFile, saved, fileLost, orphan>>
progress == <<status, statusFile>>
vars == <<locks, running, req, job, progress>>

Capabilities == {"power", "files", "backups", "importer"}
PanelLocks == {"suspended", "maintenance"}
LockTypes == PanelLocks \cup {"importing", "none"}
Disables == [t \in LockTypes |->
  CASE t \in {"suspended", "importing"} -> Capabilities
    [] t = "maintenance" -> {"power", "importer"}
    [] t = "none" -> {}]
\* "stale": it says running, and the job that was to correct it is dead.
Statuses == {"none", "running", "stale", "ended"}

\* The copies of the lock are locks, and a request waits to do what some lock
\* may disable (cell.go:88, handlers.go:109).
TypeOK ==
  /\ {lock, lockFile, saved} \subseteq LockTypes
  /\ {fileLost, orphan, running} \subseteq BOOLEAN
  /\ req \in [Reqs -> Capabilities \cup {"idle"}]
  /\ job \in [Reqs -> {"none", "scan", "copy", "done"}]
  /\ {status, statusFile} \subseteq Statuses

Init ==
  /\ lock = "none" /\ lockFile = "none" /\ saved = "none"
  /\ fileLost = FALSE /\ orphan = FALSE /\ running = FALSE
  /\ req = [r \in Reqs |-> "idle"] /\ job = [r \in Reqs |-> "none"]
  /\ status = "none" /\ statusFile = "none"

-----------------------------------------------------------------------------
Active == {r \in Reqs : job[r] # "none"}
PanelFree == Serial => Active = {}
Done(r) == req' = [req EXCEPT ![r] = "idle"]
Report(s) == status' = s /\ (statusFile' = s \/ (DiskFails /\ UNCHANGED statusFile))

\* Slips: a Load that prefers the Cell's JSON, a job that leaves the lock, one that
\* ends without a report, a StartImporter that does not look, an unlock that
\* empties the file.
JsonFirst == IF saved # "none" THEN saved ELSE lockFile
LockKept == UNCHANGED locks
Unreported == UNCHANGED progress
AlwaysAllowed(cap) == TRUE
FileBlanked == lockFile' = "blank" /\ fileLost' = FALSE

Allowed(cap) == cap \notin Disables[lock]

\* Load takes lock.json, and the Cell's JSON only where there is none.
Loaded == IF lockFile # "none" THEN lockFile ELSE saved

SaveLock(t) ==
  \/ lockFile' = t /\ fileLost' = FALSE
  \/ DiskFails /\ UNCHANGED lockFile /\ fileLost' = TRUE

DeleteLock ==
  \/ lockFile' = "none" /\ fileLost' = FALSE
  \/ DiskFails /\ UNCHANGED lockFile /\ fileLost' = TRUE

Unlock == lock' = "none" /\ DeleteLock /\ orphan' = FALSE /\ UNCHANGED saved

-----------------------------------------------------------------------------
LockCell(t) ==
  /\ PanelFree
  /\ lock' = t
  /\ SaveLock(t)
  /\ orphan' = FALSE
  /\ UNCHANGED <<saved, running, req, job, progress>>

UnlockCell ==
  /\ PanelFree
  /\ Unlock
  /\ UNCHANGED <<running, req, job, progress>>

\* A handler asks for its capability, and acts later.
Ask(r, cap) ==
  /\ req[r] = "idle" /\ job[r] = "none"
  /\ Serial /\ cap = "importer" => \A s \in Reqs : req[s] # "importer"
  /\ Allowed(cap)
  /\ req' = [req EXCEPT ![r] = cap]
  /\ UNCHANGED <<locks, running, job, progress>>

StartCell(r) ==
  /\ req[r] = "power"
  /\ running' = TRUE
  /\ Done(r)
  /\ UNCHANGED <<locks, job, progress>>

\* StopCell, or the end of the game server by itself
Exit ==
  /\ running' = FALSE
  /\ UNCHANGED <<locks, req, job, progress>>

\* A file operation may take .hivepanel with it.
WriteFile(r) ==
  /\ req[r] = "files"
  /\ \/ UNCHANGED <<lockFile, fileLost, statusFile>>
     \/ lockFile' = "none" /\ fileLost' = TRUE /\ statusFile' = "none"
  /\ Done(r)
  /\ UNCHANGED <<lock, saved, orphan, running, job, status>>

\* Reinstall empties the directory of a stopped Cell, whatever its lock says.
Reinstall ==
  /\ ~running
  /\ lockFile' = "none" /\ fileLost' = TRUE /\ statusFile' = "none"
  /\ UNCHANGED <<lock, saved, orphan, running, req, job, status>>

\* Restore puts an archived directory in its place, with the files of its time.
RestoreBackup(r) ==
  /\ req[r] = "backups"
  /\ ~running
  /\ lockFile' \in LockTypes /\ fileLost' = TRUE
  /\ statusFile' \in Statuses \ {"running"}
  /\ Done(r)
  /\ UNCHANGED <<lock, saved, orphan, running, job, status>>

\* UpdateDefinition saves the whole Cell, its lock included.
UpdateDefinition ==
  /\ ~running
  /\ saved' = lock
  /\ UNCHANGED <<lock, lockFile, fileLost, orphan, running, req, job, progress>>

-----------------------------------------------------------------------------
\* StartImporter locks the Cell and leaves its job behind.  A lock that cannot be
\* saved ends the request and stays.  A running server is not noticed: the Status
\* of the Cell StartImporter got is never "running".
StartImporter(r) ==
  /\ req[r] = "importer"
  /\ lock' = "importing"
  /\ SaveLock("importing")
  /\ IF fileLost'
     THEN orphan' = TRUE /\ UNCHANGED <<job, progress>>
     ELSE orphan' = FALSE /\ job' = [job EXCEPT ![r] = "scan"] /\ Report("running")
  /\ Done(r)
  /\ UNCHANGED <<saved, running>>

\* Reading the source, and with wipeBeforeImport emptying the directory but for
\* .hivepanel.
JobScans(r) ==
  /\ job[r] = "scan"
  /\ job' = [job EXCEPT ![r] = "copy"]
  /\ Report("running")
  /\ UNCHANGED <<locks, running, req>>

JobCopies(r) ==
  /\ job[r] = "copy"
  /\ Report("running")
  /\ UNCHANGED <<locks, running, req, job>>

\* Complete or failed, at whatever point.
ReportEnd == Report("ended")
JobEnds(r) ==
  /\ job[r] \in {"scan", "copy"}
  /\ job' = [job EXCEPT ![r] = "done"]
  /\ ReportEnd
  /\ UNCHANGED <<locks, running, req>>

\* defer h.Manager.UnlockCell(id)
GiveBack == Unlock
JobUnlocks(r) ==
  /\ job[r] = "done"
  /\ GiveBack
  /\ job' = [job EXCEPT ![r] = "none"]
  /\ UNCHANGED <<running, req, progress>>

\* ImporterStatus falls back on the file, and keeps what it finds there.
ImporterStatus ==
  /\ status = "none"
  /\ status' = statusFile
  /\ UNCHANGED <<locks, running, req, job, statusFile>>

-----------------------------------------------------------------------------
\* The worker dies, with its jobs, and loads the Cell again.
Crash ==
  LET left == IF statusFile = "running" THEN "stale" ELSE statusFile IN
  /\ lock' = Loaded
  /\ orphan' = (Loaded = "importing")
  /\ fileLost' = FALSE
  /\ status' = "none" /\ statusFile' = left
  /\ req' = [r \in Reqs |-> "idle"] /\ job' = [r \in Reqs |-> "none"]
  /\ running' \in {running, FALSE}
  /\ UNCHANGED <<lockFile, saved>>

Next ==
  \/ \E t \in PanelLocks : LockCell(t)
  \/ UnlockCell
  \/ \E r \in Reqs, cap \in Capabilities : Ask(r, cap)
  \/ \E r \in Reqs : StartCell(r) \/ WriteFile(r) \/ RestoreBackup(r) \/ StartImporter(r)
  \/ Exit \/ Reinstall \/ UpdateDefinition \/ ImporterStatus
  \/ \E r \in Reqs : JobScans(r) \/ JobCopies(r) \/ JobEnds(r) \/ JobUnlocks(r)
  \/ Crash

\* A job's goroutine is scheduled and its source comes to an end or fails.
Fairness == \A r \in Reqs : WF_vars(JobEnds(r)) /\ WF_vars(JobUnlocks(r))

Spec == Init /\ [][Next]_vars /\ Fairness

-----------------------------------------------------------------------------
\* A restart locks a locked Cell the same way, unless the file was taken from
\* under it or could not be written: whatever UpdateDefinition had saved
\* (manager.go:75, lock.go:81-83).
LockSurvives == lock # "none" /\ ~fileLost => Loaded = lock

\* One import at a time, behind its own lock (handlers.go:1855, :1894): the lock
\* alone keeps the next StartImporter out, across crashes and wiped directories.
ImportExclusive ==
  /\ \A r, s \in Active : r = s
  /\ Active # {} => lock = "importing"

\* A status of running is a job's that will correct it (handlers.go:1904-2013).
StatusTruthful == status = "running" => \E r \in Reqs : job[r] \in {"scan", "copy"}

\* An import that has taken the lock gives it back, unless it dies
\* (handlers.go:1912).
ImportUnlocks == lock = "importing" /\ ~orphan ~> lock # "importing" \/ orphan
=============================================================================
