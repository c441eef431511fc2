----------------------------- MODULE CellManager -----------------------------
(***************************************************************************)
(* The cell manager (internal/cell: storage.go, update.go, lifecycle.go,   *)
(* install.go, manager.go) with the allocation manager it owns             *)
(* (internal/allocation): the Cells in memory, their definitions and their *)
(* directories on disk, the reserved allocations, what the runtime runs,   *)
(* and the HTTP requests that change them concurrently.                    *)
(*                                                                         *)
(* A request is a goroutine.  What it does under m.mutex is one action     *)
(* (UpdateDefinition, which also saves under it, takes two and keeps the   *)
(* mutex in between); each file system call and each call of the runtime   *)
(* outside it is an action of its own.                                     *)
(*                                                                         *)
(* A definition is a member of Defs, of which only the allocations it      *)
(* names are looked into.  The runtime is CellRuntime's, Cell by Cell.     *)
(***************************************************************************)
EXTENDS Naturals

CONSTANTS
  Ids,            \* Cell IDs
  Reqs,           \* concurrent requests
  Allocs,         \* allocations (IP and port)
  Defs,           \* definitions of a Cell
  Uses,           \* the allocations each definition names
  Kinds,          \* the requests made, and crashes: which of the AllKinds
  Faults,         \* where the disk may fail, and "halfway": a crash may come after a
                  \* Reinstall has removed the directory
  SerialCreates,  \* TRUE: the panel never has two Creates of one ID in flight, nor a
                  \* Reinstall of it beside a Create or a Delete
  Recoverable,    \* TRUE: RecoverRuntime finds the running game servers (Docker)
  Absent, Torn, NoCell  \* no entry or file; an unreadable file; no Cell

AllKinds == {"create", "delete", "update", "start", "install", "reinstall", "crash"}
AllFaults == {"create", "update", "remove", "wipe", "recreate", "halfway"}

ASSUME CellManagerAssumption ==
  /\ Uses \in [Defs -> SUBSET Allocs]
  /\ Kinds \subseteq AllKinds
  /\ Faults \subseteq AllFaults
  /\ SerialCreates \in BOOLEAN
  /\ Recoverable \in BOOLEAN
  /\ Absent \notin Defs
  /\ Torn \notin Defs
  /\ Absent # Torn
  /\ NoCell \notin Ids

VARIABLES
  cells,    \* m.cells: the definition of each Cell in memory
  config,   \* dataDir/cells/<id>.json
  dirs,     \* the Cells whose instance directory exists
  used,     \* allocation.Manager.used
  allowed,  \* allocation.Manager.allowed
  running,  \* the definition each game server was launched with
  req       \* the requests in flight

store == <<cells, config, dirs>>
allocations == <<used, allowed>>
vars == <<cells, config, dirs, used, allowed, running, req>>

CreateSteps == {"stat", "mkdir", "save", "undo", "insert"}
DeleteSteps == {"unlink", "rmdir"}
StartSteps == {"check", "prepare", "announce", "launch"}
ReinstallSteps == {"wipe", "recreate"}
Steps == CreateSteps \cup DeleteSteps \cup StartSteps \cup ReinstallSteps
           \cup {"idle", "persist", "install"}

NoRequest == [pc |-> "idle", id |-> NoCell, def |-> Absent]

\* Every variable keeps its type; a request in flight names its Cell, and a
\* definition where it works with one (the arguments of storage.go:19, update.go:10
\* and the copy of lifecycle.go:21).
TypeOK ==
  /\ cells \in [Ids -> Defs \cup {Absent}]
  /\ config \in [Ids -> Defs \cup {Absent, Torn}]
  /\ dirs \subseteq Ids
  /\ used \subseteq Allocs
  /\ allowed \subseteq Allocs
  /\ running \in [Ids -> Defs \cup {Absent}]
  /\ req \in [Reqs -> [pc : Steps, id : Ids \cup {NoCell}, def : Defs \cup {Absent}]]
  /\ \A r \in Reqs : req[r].pc # "idle" => req[r].id \in Ids
  /\ \A r \in Reqs : req[r].pc \in CreateSteps \cup StartSteps \cup {"persist"} =>
                       req[r].def \in Defs

Init ==
  /\ cells = [id \in Ids |-> Absent]
  /\ config = [id \in Ids |-> Absent]
  /\ dirs = {}
  /\ used = {}
  /\ allowed = Allocs
  /\ running = [id \in Ids |-> Absent]
  /\ req = [r \in Reqs |-> NoRequest]

-----------------------------------------------------------------------------
Known(id) == cells[id] # Absent
IsRunning(id) == running[id] # Absent

Begin(r, pc, id, def) ==
  /\ req[r].pc = "idle"
  /\ req' = [req EXCEPT ![r] = [pc |-> pc, id |-> id, def |-> def]]

At(r, pc) == req[r].pc = pc
Goto(r, pc) == req' = [req EXCEPT ![r].pc = pc]
Finish(r) == req' = [req EXCEPT ![r] = NoRequest]

AllocsOf(id) == IF Known(id) THEN Uses[cells[id]] ELSE {}

-----------------------------------------------------------------------------
\* Slips the definitions below would not survive.
DirIgnored(id) == TRUE
OldKept(old, new) == used' = used \cup Uses[new]
UnlinkSkipped(id) == UNCHANGED config
ErasedInPlace(id) == config' = [config EXCEPT ![id] = "deleted"]

\* UpdateDefinition keeps m.mutex while it saves; nothing else keeps it from
\* one action to the next.
MutexFree == \A r \in Reqs : req[r].pc # "persist"

\* os.Stat(dir) must fail: a Cell under deletion still has its directory.
DirFree(id) == id \notin dirs

\* ReplaceReservations: drop the old keys, then add the new ones.
Replace(old, new) == used' = (used \ Uses[old]) \cup Uses[new]

\* os.Remove(m.cellConfigPath(id))
Unlink(id) == config' = [config EXCEPT ![id] = Absent]

\* os.MkdirAll(dir)
MakeDir(id) == dirs' = dirs \cup {id}

\* Load keeps the files it can read and skips the others.
Loaded(id) == IF config'[id] \in Defs THEN config'[id] ELSE Absent

-----------------------------------------------------------------------------
\* Create looks the ID up, then looks for its directory, then builds the Cell
\* on disk, and only then inserts it; it reserves no allocation.
InFlight(id, steps) == \E r \in Reqs : req[r].pc \in steps /\ req[r].id = id
Creating(id) == InFlight(id, CreateSteps)
Reinstalling(id) == InFlight(id, ReinstallSteps)

CreateLookup(r, id, def) ==
  /\ "create" \in Kinds
  /\ SerialCreates => ~Creating(id) /\ ~Reinstalling(id)
  /\ MutexFree
  /\ ~Known(id)
  /\ Begin(r, "stat", id, def)
  /\ UNCHANGED <<store, allocations, running>>

CreateStat(r) ==
  /\ At(r, "stat")
  /\ IF DirFree(req[r].id) THEN Goto(r, "mkdir") ELSE Finish(r)
  /\ UNCHANGED <<store, allocations, running>>

\* A failing MkdirAll releases the allocations Create never reserved.
CreateMkdir(r) ==
  /\ At(r, "mkdir")
  /\ \/ /\ MakeDir(req[r].id)
        /\ Goto(r, "save")
        /\ UNCHANGED used
     \/ /\ "create" \in Faults
        /\ used' = used \ Uses[req[r].def]
        /\ Finish(r)
        /\ UNCHANGED dirs
  /\ UNCHANGED <<cells, config, allowed, running>>

\* os.WriteFile truncates and rewrites in place: a failure may tear the file.
CreateSave(r) ==
  LET id == req[r].id IN
  /\ At(r, "save")
  /\ \/ /\ config' = [config EXCEPT ![id] = req[r].def]
        /\ Goto(r, "insert")
     \/ /\ "create" \in Faults
        /\ config' \in {config, [config EXCEPT ![id] = Torn]}
        /\ Goto(r, "undo")
  /\ UNCHANGED <<cells, dirs, allocations, running>>

CreateUndo(r) ==
  /\ At(r, "undo")
  /\ dirs' = dirs \ {req[r].id}
  /\ used' = used \ Uses[req[r].def]
  /\ Finish(r)
  /\ UNCHANGED <<cells, config, allowed, running>>

CreateInsert(r) ==
  /\ At(r, "insert")
  /\ MutexFree
  /\ cells' = [cells EXCEPT ![req[r].id] = req[r].def]
  /\ Finish(r)
  /\ UNCHANGED <<config, dirs, allocations, running>>

-----------------------------------------------------------------------------
\* Delete takes a stopped Cell out of memory, then removes its file, then its
\* directory.
DeleteBegin(r, id) ==
  /\ "delete" \in Kinds
  /\ SerialCreates => ~Reinstalling(id)
  /\ MutexFree
  /\ Known(id)
  /\ ~IsRunning(id)
  /\ used' = used \ Uses[cells[id]]
  /\ cells' = [cells EXCEPT ![id] = Absent]
  /\ Begin(r, "unlink", id, Absent)
  /\ UNCHANGED <<config, dirs, allowed, running>>

\* The error of os.Remove is dropped.
DeleteUnlink(r) ==
  /\ At(r, "unlink")
  /\ \/ Unlink(req[r].id)
     \/ "remove" \in Faults /\ UNCHANGED config
  /\ Goto(r, "rmdir")
  /\ UNCHANGED <<cells, dirs, allocations, running>>

DeleteRmdir(r) ==
  /\ At(r, "rmdir")
  /\ \/ dirs' = dirs \ {req[r].id}
     \/ "remove" \in Faults /\ UNCHANGED dirs
  /\ Finish(r)
  /\ UNCHANGED <<cells, config, allocations, running>>

-----------------------------------------------------------------------------
\* UpdateDefinition of a stopped Cell: reservations, then the Cell in memory,
\* then the file, all under m.mutex.  The request keeps the old definition.
UpdateBegin(r, id, def) ==
  /\ "update" \in Kinds
  /\ MutexFree
  /\ Known(id)
  /\ ~IsRunning(id)
  /\ Replace(cells[id], def)
  /\ cells' = [cells EXCEPT ![id] = def]
  /\ Begin(r, "persist", id, cells[id])
  /\ UNCHANGED <<config, dirs, allowed, running>>

\* A failing save puts the reservations back, and not the Cell in memory.
UpdatePersist(r) ==
  LET id == req[r].id IN
  /\ At(r, "persist")
  /\ \/ /\ config' = [config EXCEPT ![id] = cells[id]]
        /\ UNCHANGED used
     \/ /\ "update" \in Faults
        /\ config' \in {config, [config EXCEPT ![id] = Torn]}
        /\ Replace(cells[id], req[r].def)
  /\ Finish(r)
  /\ UNCHANGED <<cells, dirs, allowed, running>>

-----------------------------------------------------------------------------
\* Start copies the Cell under m.mutex and works with the copy after it.
StartCopy(r, id) ==
  /\ "start" \in Kinds
  /\ MutexFree
  /\ Known(id)
  /\ Begin(r, "check", id, cells[id])
  /\ UNCHANGED <<store, allocations, running>>

StartCheck(r) ==
  /\ At(r, "check")
  /\ IF IsRunning(req[r].id) THEN Finish(r) ELSE Goto(r, "prepare")
  /\ UNCHANGED <<store, allocations, running>>

\* The error of MkdirAll is dropped.
StartPrepare(r) ==
  /\ At(r, "prepare")
  /\ \/ MakeDir(req[r].id)
     \/ "create" \in Faults /\ UNCHANGED dirs
  /\ Goto(r, "announce")
  /\ UNCHANGED <<cells, config, allocations, running>>

\* broadcastByID takes m.mutex; that the Cell is gone stops only the broadcast.
StartAnnounce(r) ==
  /\ At(r, "announce")
  /\ MutexFree
  /\ Goto(r, "launch")
  /\ UNCHANGED <<store, allocations, running>>

\* runtime.Start: refused for a running Cell, impossible without a directory
\* (the working directory of the child, the bind mount of the container), and
\* free to fail for reasons of its own.
StartLaunch(r) ==
  LET id == req[r].id IN
  /\ At(r, "launch")
  /\ \/ /\ ~IsRunning(id)
        /\ id \in dirs
        /\ running' = [running EXCEPT ![id] = req[r].def]
     \/ UNCHANGED running
  /\ Finish(r)
  /\ UNCHANGED <<store, allocations>>

\* The game server ends, stopped or not, and the runtime forgets it.
Exit(id) ==
  /\ IsRunning(id)
  /\ running' = [running EXCEPT ![id] = Absent]
  /\ UNCHANGED <<store, allocations, req>>

-----------------------------------------------------------------------------
\* Install of a stopped Cell: the steps of its comb write into its directory,
\* make it where it is missing, and may fail, outside m.mutex.
InstallBegin(r, id) ==
  /\ "install" \in Kinds
  /\ MutexFree
  /\ Known(id)
  /\ ~IsRunning(id)
  /\ Begin(r, "install", id, Absent)
  /\ UNCHANGED <<store, allocations, running>>

InstallStep(r) ==
  /\ At(r, "install")
  /\ \/ MakeDir(req[r].id) /\ UNCHANGED req
     \/ Finish(r) /\ UNCHANGED dirs
  /\ UNCHANGED <<cells, config, allocations, running>>

\* Reinstall of a stopped Cell: empty its directory, outside m.mutex.
ReinstallBegin(r, id) ==
  /\ "reinstall" \in Kinds
  /\ SerialCreates => ~InFlight(id, CreateSteps \cup DeleteSteps)
  /\ MutexFree
  /\ Known(id)
  /\ ~IsRunning(id)
  /\ Begin(r, "wipe", id, Absent)
  /\ UNCHANGED <<store, allocations, running>>

ReinstallWipe(r) ==
  /\ At(r, "wipe")
  /\ \/ dirs' = dirs \ {req[r].id} /\ Goto(r, "recreate")
     \/ "wipe" \in Faults /\ UNCHANGED dirs /\ Finish(r)
  /\ UNCHANGED <<cells, config, allocations, running>>

ReinstallRecreate(r) ==
  /\ At(r, "recreate")
  /\ \/ MakeDir(req[r].id)
     \/ "recreate" \in Faults /\ UNCHANGED dirs
  /\ Finish(r)
  /\ UNCHANGED <<cells, config, allocations, running>>

-----------------------------------------------------------------------------
\* allocation.Manager.Reconfigure, which holds its own mutex only.
Reconfigure(new) ==
  /\ new # {}
  /\ used \subseteq new
  /\ allowed' = new
  /\ UNCHANGED <<store, used, running, req>>

\* The worker dies, possibly inside a WriteFile, and starts again: Load reads
\* the files, reserves what they name, and RecoverRuntime asks the runtime.
\* The allowed list comes back from the worker's configuration.
Crash ==
  /\ "crash" \in Kinds
  /\ "halfway" \in Faults \/ \A r \in Reqs : ~At(r, "recreate")
  /\ \E torn \in SUBSET {id \in Ids : \E r \in Reqs :
                           req[r].pc \in {"save", "persist"} /\ req[r].id = id} :
       config' = [id \in Ids |-> IF id \in torn THEN Torn ELSE config[id]]
  /\ cells' = [id \in Ids |-> Loaded(id)]
  /\ used' = UNION {AllocsOf(id)' : id \in Ids}
  /\ running' = [id \in Ids |-> IF Recoverable /\ cells'[id] # Absent
                                THEN running[id] ELSE Absent]
  /\ req' = [r \in Reqs |-> NoRequest]
  /\ UNCHANGED <<dirs, allowed>>

RequestStep(r) ==
  \/ CreateStat(r) \/ CreateMkdir(r) \/ CreateSave(r) \/ CreateUndo(r) \/ CreateInsert(r)
  \/ DeleteUnlink(r) \/ DeleteRmdir(r)
  \/ UpdatePersist(r)
  \/ StartCheck(r) \/ StartPrepare(r) \/ StartAnnounce(r) \/ StartLaunch(r)
  \/ InstallStep(r) \/ ReinstallWipe(r) \/ ReinstallRecreate(r)

Next ==
  \/ \E r \in Reqs, id \in Ids, def \in Defs : CreateLookup(r, id, def) \/ UpdateBegin(r, id, def)
  \/ \E r \in Reqs, id \in Ids : DeleteBegin(r, id) \/ StartCopy(r, id) \/ InstallBegin(r, id)
                                  \/ ReinstallBegin(r, id)
  \/ \E r \in Reqs : RequestStep(r)
  \/ \E id \in Ids : Exit(id)
  \/ \E new \in SUBSET Allocs : Reconfigure(new)
  \/ Crash

Spec == Init /\ [][Next]_vars

-----------------------------------------------------------------------------
\* A request that will still write or remove the file of the Cell.
Unsettled(id) == \E r \in Reqs :
  req[r].pc \in CreateSteps \cup DeleteSteps \cup {"persist"} /\ req[r].id = id

\* A restart brings back exactly the Cells in memory, with their definitions,
\* but for those whose file some request is still working on: no Create,
\* Update or Delete that has answered is undone or lost (Load, manager.go:53).
SettledOnDisk ==
  \A id \in Ids : ~Unsettled(id) =>
    cells[id] = IF config[id] \in Defs THEN config[id] ELSE Absent

\* A Cell the manager knows has its directory, unless a Reinstall is about to
\* make it again: the tail of an earlier Delete, which runs without the mutex,
\* cannot take it (storage.go:156).
DirectoryKept ==
  \A id \in Ids : Known(id) =>
    id \in dirs \/ \E r \in Reqs : At(r, "recreate") /\ req[r].id = id

\* Every reservation is some Cell's: Reconfigure never refuses to drop an
\* allocation that nothing uses (allocation/manager.go:49).
NoLeakedReservation == used \subseteq UNION {AllocsOf(id) : id \in Ids}

\* A running game server is a known Cell's, under its current definition:
\* Delete and UpdateDefinition demand a stopped Cell (storage.go:144,
\* update.go:59).
RunsCurrentDefinition == \A id \in Ids : IsRunning(id) => running[id] = cells[id]

\* An allocation a Cell uses is not taken off the allowed list
\* (allocation/manager.go:52).
UsedStaysAllowed ==
  [][\A id \in Ids : allowed' # allowed => AllocsOf(id) \cap allowed \subseteq allowed']_vars
=============================================================================
