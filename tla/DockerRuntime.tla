---------------------------- MODULE DockerRuntime ----------------------------
(***************************************************************************)
(* internal/runtime/docker: game servers as containers.  r.mutex protects  *)
(* the tables and nothing else: Start checks the table, releases the mutex *)
(* and makes its calls of the Docker daemon before it takes it again, so   *)
(* each call is an action, and so is each critical section.                *)
(*                                                                         *)
(* The daemon is external: a container has one name, the Cell's, a name    *)
(* belongs to one container, and any call may fail.  A container that the  *)
(* daemon has removed and that no goroutine remembers may be reused as a   *)
(* new one.                                                                *)
(***************************************************************************)
CONSTANTS
  Ids,          \* the Cells
  Starters,     \* requests that start Cells
  Containers,   \* identities of containers
  NoContainer,
  SerialStarts, \* TRUE: the panel never has two Starts of a Cell in flight
  DaemonLost    \* TRUE: calls about a running container may fail: ContainerWait, the
                \* ContainerInspect of Recover, the removal of one nobody could attach to

ASSUME DockerAssumption ==
  /\ NoContainer \notin Containers
  /\ SerialStarts \in BOOLEAN
  /\ DaemonLost \in BOOLEAN

VARIABLES
  containers,  \* r.containers: the container of each Cell
  stdin,       \* r.stdin: the container each Cell's commands go to
  cancelLogs,  \* r.cancelLogs: the container whose log stream it ends
  phase,       \* the containers, as the daemon has them
  owner,       \* the Cell a container is named after
  logs,        \* the containers whose logs are streamed
  waiter,      \* the waiting goroutine of each container
  start,       \* the Starts in flight
  stops        \* the containers some Stop has yet to stop

tables == <<containers, stdin, cancelLogs>>
daemon == <<phase, owner>>
goroutines == <<logs, waiter>>
vars == <<tables, daemon, goroutines, start, stops>>

Entry == Containers \cup {NoContainer}
StartSteps == {"idle", "inspect", "remove", "create", "launch", "attach", "register", "hook"}
NoStart(id) == [pc |-> "idle", id |-> id, cont |-> NoContainer]

\* The tables name containers, a Start the Cell and the container it works with
\* (container.go:20, runtime.go:17).
TypeOK ==
  /\ containers \in [Ids -> Entry] /\ stdin \in [Ids -> Entry] /\ cancelLogs \in [Ids -> Entry]
  /\ phase \in [Containers -> {"none", "created", "running", "exited"}]
  /\ owner \in [Containers -> Ids]
  /\ logs \subseteq Containers
  /\ waiter \in [Containers -> {"none", "waiting", "returned", "exiting"}]
  /\ start \in [Starters -> [pc : StartSteps, id : Ids, cont : Entry]]
  /\ stops \subseteq Containers

Empty == [id \in Ids |-> NoContainer]

Init ==
  /\ containers = Empty /\ stdin = Empty /\ cancelLogs = Empty
  /\ phase = [c \in Containers |-> "none"]
  /\ \E id \in Ids : owner = [c \in Containers |-> id] /\ start = [s \in Starters |-> NoStart(id)]
  /\ logs = {}
  /\ waiter = [c \in Containers |-> "none"]
  /\ stops = {}

-----------------------------------------------------------------------------
IsRunning(id) == containers[id] # NoContainer
Named(id) == {c \in Containers : phase[c] # "none" /\ owner[c] = id}
Fresh(c) ==
  /\ phase[c] = "none" /\ waiter[c] = "none" /\ c \notin logs \cup stops
  /\ \A id \in Ids : c \notin {containers[id], stdin[id], cancelLogs[id]}
  /\ \A s \in Starters : start[s].cont # c

At(s, pc) == start[s].pc = pc
Goto(s, pc) == start' = [start EXCEPT ![s].pc = pc]
Finish(s) == start' = [start EXCEPT ![s] = NoStart(@.id)]
Starting(id) == \E s \in Starters : ~At(s, "idle") /\ start[s].id = id

\* Slips: a Start that does not look, an end that leaves the entry or blanks it, a
\* waiting goroutine that does not wait, a log stream nothing can end.
AlwaysStartable(id) == TRUE
EntryLeft(id) == UNCHANGED containers
EntryBlanked(id) == containers' = [containers EXCEPT ![id] = "blank"]
WaitSkipped(c) == TRUE
CancelForgotten(s) == UNCHANGED cancelLogs

Startable(id) == ~IsRunning(id)
DeleteEntry(id) == containers' = [containers EXCEPT ![id] = NoContainer]
KeepCancel(s) == cancelLogs' = [cancelLogs EXCEPT ![start[s].id] = start[s].cont]
Ended(c) == phase[c] # "running" \/ DaemonLost

-----------------------------------------------------------------------------
\* Start checks the table under the mutex and lets it go; pulling the image, and
\* any failure of it, falls between this step and the next.
StartCheck(s, id) ==
  /\ At(s, "idle")
  /\ SerialStarts => ~Starting(id)
  /\ Startable(id)
  /\ start' = [start EXCEPT ![s] = [pc |-> "inspect", id |-> id, cont |-> NoContainer]]
  /\ UNCHANGED <<tables, daemon, goroutines, stops>>

\* A call of the daemon, or pulling the image, fails before there is a container.
StartFails(s) ==
  /\ start[s].pc \in {"inspect", "create"}
  /\ Finish(s)
  /\ UNCHANGED <<tables, daemon, goroutines, stops>>

\* removeExistingContainer: look for a container of that name, then stop it if
\* it runs and remove it by its identity.  An error goes unnoticed.
StartInspect(s) ==
  /\ At(s, "inspect")
  /\ \/ \E c \in Named(start[s].id) :
          start' = [start EXCEPT ![s].pc = "remove", ![s].cont = c]
     \/ Goto(s, "create")
  /\ UNCHANGED <<tables, daemon, goroutines, stops>>

StartRemove(s) ==
  /\ At(s, "remove")
  /\ \/ phase' = [phase EXCEPT ![start[s].cont] = "none"]
     \/ UNCHANGED phase
  /\ start' = [start EXCEPT ![s].pc = "create", ![s].cont = NoContainer]
  /\ UNCHANGED <<tables, owner, goroutines, stops>>

\* The daemon refuses a name that is taken.
StartCreate(s) ==
  /\ At(s, "create")
  /\ Named(start[s].id) = {}
  /\ \E c \in Containers :
       /\ Fresh(c)
       /\ phase' = [phase EXCEPT ![c] = "created"]
       /\ owner' = [owner EXCEPT ![c] = start[s].id]
       /\ start' = [start EXCEPT ![s].pc = "launch", ![s].cont = c]
  /\ UNCHANGED <<tables, goroutines, stops>>

\* A failing ContainerStart or ContainerAttach removes the container by force.  An
\* error of that goes unnoticed, and the container stays where it is.
Discard(s) ==
  /\ \/ phase' = [phase EXCEPT ![start[s].cont] = "none"]
     \/ (phase[start[s].cont] = "running" => DaemonLost) /\ UNCHANGED phase
  /\ Finish(s)

StartLaunch(s) ==
  /\ At(s, "launch")
  /\ \/ /\ phase[start[s].cont] = "created"
        /\ phase' = [phase EXCEPT ![start[s].cont] = "running"]
        /\ Goto(s, "attach")
     \/ Discard(s)
  /\ UNCHANGED <<tables, owner, goroutines, stops>>

StartAttach(s) ==
  /\ At(s, "attach")
  /\ \/ phase[start[s].cont] # "none" /\ Goto(s, "register") /\ UNCHANGED phase
     \/ Discard(s)
  /\ UNCHANGED <<tables, owner, goroutines, stops>>

StartRegister(s) ==
  /\ At(s, "register")
  /\ containers' = [containers EXCEPT ![start[s].id] = start[s].cont]
  /\ stdin' = [stdin EXCEPT ![start[s].id] = start[s].cont]
  /\ Goto(s, "hook")
  /\ UNCHANGED <<cancelLogs, daemon, goroutines, stops>>

\* The second critical section, and the two goroutines.
StartHook(s) ==
  /\ At(s, "hook")
  /\ KeepCancel(s)
  /\ logs' = logs \cup {start[s].cont}
  /\ waiter' = [waiter EXCEPT ![start[s].cont] = "waiting"]
  /\ Finish(s)
  /\ UNCHANGED <<containers, stdin, daemon, stops>>

-----------------------------------------------------------------------------
\* The waiting goroutine.  It clears the tables of the Cell, whichever container
\* they name by then.
WaitReturns(c) ==
  /\ waiter[c] = "waiting" /\ Ended(c)
  /\ waiter' = [waiter EXCEPT ![c] = "returned"]
  /\ UNCHANGED <<tables, daemon, logs, start, stops>>

WaitForgets(c) ==
  /\ waiter[c] = "returned"
  /\ DeleteEntry(owner[c])
  /\ stdin' = [stdin EXCEPT ![owner[c]] = NoContainer]
  /\ logs' = logs \ {cancelLogs[owner[c]]}
  /\ cancelLogs' = [cancelLogs EXCEPT ![owner[c]] = NoContainer]
  /\ waiter' = [waiter EXCEPT ![c] = "exiting"]
  /\ UNCHANGED <<daemon, start, stops>>

WaitReports(c) ==
  /\ waiter[c] = "exiting"
  /\ waiter' = [waiter EXCEPT ![c] = "none"]
  /\ UNCHANGED <<tables, daemon, logs, start, stops>>

\* Stop answers at once; its goroutine stops the container Stop found.
Stop(id) ==
  /\ IsRunning(id)
  /\ stops' = stops \cup {containers[id]}
  /\ UNCHANGED <<tables, daemon, goroutines, start>>

StopContainer(c) ==
  /\ c \in stops
  /\ stops' = stops \ {c}
  /\ phase' \in {phase, [phase EXCEPT ![c] = IF @ = "running" THEN "exited" ELSE @]}
  /\ UNCHANGED <<tables, owner, goroutines, start>>

Exit(c) ==
  /\ phase[c] = "running"
  /\ phase' = [phase EXCEPT ![c] = "exited"]
  /\ UNCHANGED <<tables, owner, goroutines, start, stops>>

\* The worker dies, the containers do not.  Recover, before any request is
\* served, registers the running container of every Cell; an attach that fails
\* leaves the Cell without stdin.
Recover(found) ==
  LET Recovered(id) == IF \E c \in found : owner[c] = id
                       THEN CHOOSE c \in found : owner[c] = id ELSE NoContainer
  IN
  /\ containers' = [id \in Ids |-> Recovered(id)]
  /\ \E attached \in SUBSET Ids :
       stdin' = [id \in Ids |-> IF id \in attached THEN Recovered(id) ELSE NoContainer]
  /\ cancelLogs' = [id \in Ids |-> Recovered(id)]
  /\ logs' = found
  /\ waiter' = [c \in Containers |-> IF c \in found THEN "waiting" ELSE "none"]

Crash ==
  /\ \E seen \in IF DaemonLost THEN SUBSET Ids ELSE {Ids} :
       Recover({c \in Containers : phase[c] = "running" /\ owner[c] \in seen})
  /\ start' = [s \in Starters |-> NoStart(start[s].id)]
  /\ stops' = {}
  /\ UNCHANGED daemon

StartStep(s) ==
  \/ StartFails(s) \/ StartInspect(s) \/ StartRemove(s) \/ StartCreate(s)
  \/ StartLaunch(s) \/ StartAttach(s) \/ StartRegister(s) \/ StartHook(s)

Next ==
  \/ \E s \in Starters, id \in Ids : StartCheck(s, id)
  \/ \E s \in Starters : StartStep(s)
  \/ \E id \in Ids : Stop(id)
  \/ \E c \in Containers : WaitReturns(c) \/ WaitForgets(c) \/ WaitReports(c)
  \/ \E c \in Containers : StopContainer(c) \/ Exit(c)
  \/ Crash

\* Goroutines are scheduled, and ContainerWait returns for an ended container.
\* Nothing is assumed of requests, of the game server, or of a crash.
Fairness ==
  /\ \A s \in Starters : WF_vars(StartHook(s))
  /\ \A c \in Containers : WF_vars(WaitReturns(c)) /\ WF_vars(WaitForgets(c))

Spec == Init /\ [][Next]_vars /\ Fairness

-----------------------------------------------------------------------------
\* A running container is its Cell's entry, or a Start is about to make it so:
\* no game server runs that Stop would call "not running" (container.go:173).
ServerKnown ==
  \A c \in Containers : phase[c] = "running" =>
    \/ containers[owner[c]] = c
    \/ \E s \in Starters : start[s].cont = c /\ start[s].pc \in {"attach", "register"}

\* The console of a running Cell is its own: commands go to no other container,
\* and its log stream is the one its end will cancel (container.go:149-157).
ConsoleWired ==
  \A id \in Ids : IsRunning(id) /\ phase[containers[id]] = "running" =>
    /\ stdin[id] \in {containers[id], NoContainer}
    /\ \/ cancelLogs[id] = containers[id] /\ containers[id] \in logs
       \/ \E s \in Starters : At(s, "hook") /\ start[s].cont = containers[id]

\* The container a Start removes to make room is never one the table knows: a
\* Start of a running Cell is refused (container.go:22), not carried out on it.
RemovesUnknownOnly ==
  [][\A s \in Starters : StartRemove(s) => containers[start[s].id] # start[s].cont]_vars

\* The runtime as the cell manager sees it: an instance counts from the moment
\* it is registered, and as alive until its waiting goroutine has been started
\* at the earliest.
Registered(c) == containers[owner[c]] = c

Promise == INSTANCE CellRuntime WITH
  alive <- {id \in Ids : IsRunning(id) /\ (phase[containers[id]] = "running"
                                           \/ waiter[containers[id]] = "none")},
  known <- {id \in Ids : IsRunning(id)},
  owing <- {id \in Ids : \E c \in Containers : waiter[c] = "exiting" /\ owner[c] = id}

\* Docker keeps every promise of CellRuntime while the panel serialises the
\* Starts of a Cell, including that an ended Cell becomes startable again.
KeepsPromise == Promise!Spec
=============================================================================
