--------------------------- MODULE ProcessRuntime ---------------------------
(***************************************************************************)
(* internal/runtime/process: game servers as child processes of the        *)
(* worker.  Every method holds r.mutex for all it does to the table, so a  *)
(* method is one action; the goroutine Start leaves behind (cmd.Wait, then *)
(* delete under the mutex, then onExit) takes one action per step, and     *)
(* anything may happen between them.                                       *)
(*                                                                         *)
(* A member of Procs is one run: the child process with its goroutine.  It *)
(* is recycled once its goroutine has returned.  A failing spawn changes   *)
(* nothing and has no action.                                              *)
(***************************************************************************)
CONSTANTS
  Ids,    \* the Cells
  Procs,  \* identities of runs
  NoProc  \* no entry in the table

ASSUME NoProcAssumption == NoProc \notin Procs

VARIABLES
  processes,  \* r.processes: the entry of each Cell
  owner,      \* the Cell a run was started for
  stage       \* how far each run has come

vars == <<processes, owner, stage>>

(***************************************************************************)
(* free      no such run                                                   *)
(* live      the child process runs                                        *)
(* dead      it has ended, cmd.Wait has not returned                       *)
(* reaped    cmd.Wait has returned, the entry is still in the table        *)
(* exiting   the entry is deleted, onExit has not been called              *)
(* orphan    the worker died and the child process outlived it             *)
(***************************************************************************)
Stages == {"free", "live", "dead", "reaped", "exiting", "orphan"}
InTable == {"live", "dead", "reaped"}

\* The table holds runs or nothing, never an empty entry (runtime.go:68 and :83).
TypeOK ==
  /\ processes \in [Ids -> Procs \cup {NoProc}]
  /\ owner \in [Procs -> Ids]
  /\ stage \in [Procs -> Stages]

Init ==
  /\ processes = [id \in Ids |-> NoProc]
  /\ owner \in [Procs -> Ids]
  /\ stage = [p \in Procs |-> "free"]

IsRunning(id) == processes[id] # NoProc

-----------------------------------------------------------------------------
\* Three slips these definitions would not survive: no check in Start, a nil
\* entry in place of a delete, a goroutine that does not wait for the process.
AlwaysStartable(id) == TRUE
LeaveNilEntry(id) == processes' = [processes EXCEPT ![id] = "nil"]
WaitSkipped(p) == stage[p] \in {"live", "reaped"}

\* Start refuses while the table has an entry for the Cell.
Startable(id) == ~IsRunning(id)

\* delete(r.processes, cell.ID): by Cell, whichever run the entry is of.
DeleteEntry(id) == processes' = [processes EXCEPT ![id] = NoProc]

\* The waiting goroutine goes on to the table only after cmd.Wait.
WaitReturned(p) == stage[p] = "reaped"
-----------------------------------------------------------------------------

Start(id, p) ==
  /\ Startable(id)
  /\ stage[p] = "free"
  /\ processes' = [processes EXCEPT ![id] = p]
  /\ owner' = [owner EXCEPT ![p] = id]
  /\ stage' = [stage EXCEPT ![p] = "live"]

\* Kill does nothing to a process that has ended already.
Stop(id) ==
  /\ IsRunning(id)
  /\ stage[processes[id]] = "live"
  /\ stage' = [stage EXCEPT ![processes[id]] = "dead"]
  /\ UNCHANGED <<processes, owner>>

\* The game server ends by itself.
Exit(p) ==
  /\ stage[p] = "live"
  /\ stage' = [stage EXCEPT ![p] = "dead"]
  /\ UNCHANGED <<processes, owner>>

Reap(p) ==
  /\ stage[p] = "dead"
  /\ stage' = [stage EXCEPT ![p] = "reaped"]
  /\ UNCHANGED <<processes, owner>>

Forget(p) ==
  /\ WaitReturned(p)
  /\ DeleteEntry(owner[p])
  /\ stage' = [stage EXCEPT ![p] = "exiting"]
  /\ UNCHANGED owner

OnExit(p) ==
  /\ stage[p] = "exiting"
  /\ stage' = [stage EXCEPT ![p] = "free"]
  /\ UNCHANGED <<processes, owner>>

\* The worker dies and comes back with New(): an empty table, and no Recover
\* for this runtime.  Children it had may outlive it.
Crash ==
  /\ processes' = [id \in Ids |-> NoProc]
  /\ \E survivors \in SUBSET {p \in Procs : stage[p] = "live"} :
       stage' = [p \in Procs |->
                   IF p \in survivors \/ stage[p] = "orphan" THEN "orphan" ELSE "free"]
  /\ UNCHANGED owner

OrphanExit(p) ==
  /\ stage[p] = "orphan"
  /\ stage' = [stage EXCEPT ![p] = "free"]
  /\ UNCHANGED <<processes, owner>>

Next ==
  \/ \E id \in Ids : Stop(id)
  \/ \E id \in Ids, p \in Procs : Start(id, p)
  \/ \E p \in Procs : Exit(p) \/ Reap(p) \/ Forget(p) \/ OnExit(p) \/ OrphanExit(p)
  \/ Crash

\* The goroutine of a run is scheduled, and cmd.Wait returns once the child is
\* dead.  Nothing is assumed of requests, of the game server, or of a crash.
Fairness == \A p \in Procs : WF_vars(Reap(p)) /\ WF_vars(Forget(p)) /\ WF_vars(OnExit(p))

Spec == Init /\ [][Next]_vars /\ Fairness

-----------------------------------------------------------------------------
\* The table names exactly the runs of this worker that are not over, each
\* under its own Cell (r.processes, runtime.go:68 and :83).
TableExact ==
  /\ \A id \in Ids : IsRunning(id) =>
       owner[processes[id]] = id /\ stage[processes[id]] \in InTable
  /\ \A p \in Procs : stage[p] \in InTable => processes[owner[p]] = p

\* Two game servers of one Cell never run at once under one worker: the check
\* and the insertion of Start are under one critical section.
OneInstance ==
  \A p, q \in Procs :
    stage[p] = "live" /\ stage[q] = "live" /\ owner[p] = owner[q] => p = q

\* The waiting goroutine deletes by Cell ID, yet the entry it deletes is always
\* that of its own run, never that of a later one.
ForgetsOwnRun == [][\A p \in Procs : Forget(p) => processes[owner[p]] = p]_vars

\* The runtime as the cell manager sees it.
Promise == INSTANCE CellRuntime WITH
  alive <- {id \in Ids : \E p \in Procs : stage[p] = "live" /\ owner[p] = id},
  known <- {id \in Ids : IsRunning(id)},
  owing <- {id \in Ids : \E p \in Procs : stage[p] = "exiting" /\ owner[p] = id}

\* The process runtime keeps every promise of CellRuntime, including that a
\* Cell whose server has ended becomes startable again.
KeepsPromise == Promise!Spec
=============================================================================
