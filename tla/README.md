# HivePanel Worker: TLA+ models, checks and proofs

The HivePanel Worker is the daemon that runs game servers ("Cells") on a node for a
panel. It is an HTTP server over a cell manager, a runtime (plain processes or Docker
containers), backups and their mounts, an importer, an SFTP server and a configuration
file. This directory models the parts of it that keep state, checks them with TLC and
proves the most important of their properties with TLAPS.

Paths below are relative to `src/internal/` unless they start with `cmd/`.

## The system

`cmd/daemon/main.go` reads the configuration, loads the combs, picks the runtime, loads
the Cells, recovers the running containers, and only then starts the heartbeat, the SFTP
server and the HTTP router. Every HTTP request is a goroutine.

| Component | State | Operations | What makes it correct |
|---|---|---|---|
| Cell manager (`cell/`) | `m.cells` under `m.mutex`; `cells/<id>.json`; one directory per Cell | Create, Delete, UpdateDefinition, Start, Stop, SendCommand, Install, Reinstall, Load, RecoverRuntime | memory and disk agree on every Cell nobody works on; a known Cell has its directory; what runs is a known Cell's current definition |
| Allocations (`allocation/`) | `allowed`, `used` | ReserveExisting, ReplaceReservations, Reconfigure | a reservation is some Cell's; what a Cell uses stays allowed |
| Runtime (`runtime/runtime.go`) | an interface | Start, Stop, SendCommand, IsRunning, Recover | one server per Cell, onExit once per Start, an ended Cell becomes startable again |
| Process runtime (`runtime/process`) | `r.processes` under `r.mutex`; processes, pipes, one waiting and two capturing goroutines per run | the same, without Recover | the table is the living runs of this worker; a goroutine that deletes by Cell ID deletes its own run |
| Docker runtime (`runtime/docker`) | three tables under `r.mutex`; containers of the daemon; log streams and waiting goroutines | the same, with Recover | no container runs unknown; console and log stream are the Cell's own |
| Backups (`backup/manager.go`) | archives `<cell>/<backup>.tar.gz`, the Cell directory | Create, Delete, Restore, reads | an answered backup stays whole, a failed one leaves nothing, a Restore is exact |
| Backup mounts (`backup/mount_service.go`) | `<mount>`, `<mount>.mounting` | Mount, Unmount, RestorePath, browsing | a mount is complete from the moment it exists to its Unmount; a RestorePath that succeeds has restored all of it |
| Cell locks (`cell/lock.go`) | the lock in memory, in `lock.json`, in `cells/<id>.json` | LockCell, UnlockCell, the six Ensure...Allowed | a lock survives a restart |
| Importer (`importer/`, `api/handlers.go`) | a job per import, its progress in memory and on disk | StartImporter, ImporterStatus | one import at a time, behind its lock; the lock comes back; the status is true; what it copied is what was asked, and nothing else is touched |
| Console (`cell/console*.go`) | history and subscribers per Cell, one-time tokens; two goroutines per WebSocket | broadcast, Clear, SubscribeWithHistory, Unsubscribe, CreateConsoleSession, ValidateConsoleSession, ConsoleWebSocket | lines in order without a gap, a slow reader blocks nobody, a token opens one console once, a handler ends with its client |
| Files (`files/`) | a Cell directory, its recycle bin | list, read, write, move, archive, extract | nothing outside the directory, no file lost by creating or recycling, archives within the disk limit |
| SFTP server (`sftp/`) | 128 connection slots, the host key file | accept, authenticate, file requests | a slot comes back; one host key for good |
| Configuration (`config/`, `api/configuration.go`) | `worker.yml`, `h.Config`, the live allocation list | Load, RegisterWorker, Save, UpdateAllocationConfiguration | what the worker runs with is what a restart brings back |
| Migration detection (`migrationdetect/`) | none that outlives a call | Detect | the answer is the best place, in whatever order the places were looked at |
| Panel client, installer, combs, images, networks, statistics | none that outlives a call | | |

How they interact: a handler calls the manager (or backups, mounts, files and the importer
directly, on the Cell's directory); the manager calls the runtime both with and without
`m.mutex`; the runtime calls back (`onOutput`, `onExit`) from its goroutines, and the
callbacks take `m.mutex`. The Cell directory is shared by all of them without a lock.

What is hard: check-then-act pairs around both mutexes (Start against Delete and
UpdateDefinition; the Docker Start against itself; every Ensure...Allowed), goroutines
that clean up by Cell ID after a newer run may have begun, system calls outside any mutex
(Delete's tail, Reinstall, backups, mounts), in-place file writes and crashes between
them, three copies of a lock, a blocking pipe write under a mutex, bounded channels that
drop what does not fit, and a configuration kept in three places. `PROJECT.json`
lists each hazard at its line with the properties that cover it.

## The modules

| Module | Models | Extends or instantiates |
|---|---|---|
| `CellRuntime` | what a runtime promises the manager (abstract) | |
| `ProcessRuntime` | `runtime/process/runtime.go` without the pipes | implements `CellRuntime` |
| `DockerRuntime` | `runtime/docker`, one action per daemon call | implements `CellRuntime` |
| `CellManager` | `cell/` and `allocation/`: memory, disk, reservations, requests | |
| `ManagerLocks` | both mutexes, the pipes and the goroutines of one game server | |
| `Backups` | `backup/`: archives, the Cell directory, mounts | |
| `CellAccess` | `cell/lock.go`, the guarded handlers, the importer's job | |
| `SftpServer` | `sftp/host_key.go`, `sftp/server.go`: workers at their start, the host key file, connections | |
| `CellFiles` | `files/` and the file requests of SFTP sessions on one Cell directory | extends `SftpServer` |
| `Console` | `cell/console*.go`, `SendCommand` and `ConsoleWebSocket` | |
| `WorkerConfig` | `config/config.go`, the order of `cmd/daemon/main.go`, `api/configuration.go` | |
| `Importer` | `importer/local.go`, `importer/sftp.go`, the progress of `StartImporter` | |
| `Detection` | `migrationdetect/detector.go` | |
| `Services` | the four services above beside each other in one worker | extends `Console`, `WorkerConfig`, `Importer`, `Detection` |
| `CellManagerProofs`, `DockerRuntimeProofs`, `BackupsProofs`, `CellAccessProofs` | theorems | extend their component |
| `ProcessRuntimeProofs` | theorems about `ProcessRuntime` and `ManagerLocks` | extends both |
| `CellFilesProofs` | theorems about `CellFiles` and the `SftpServer` below it | extends `CellFiles`, `Sums` |
| `ServicesProofs` | theorems about the four services and about `Services` | extends `Services`, `Sums` |
| `Sums` | lemmas on sums and folds over finite sets, and the induction they need | |
| `MCCellManager`, `MCBackups`, `MCCellFiles`, `MCServices` | definitions, uses and symmetry for TLC | extend their component |

**CellRuntime / ProcessRuntime / DockerRuntime.** `CellRuntime` has three sets of Cells:
`alive` (a server runs), `known` (`IsRunning` says so), `owing` (an `onExit` is due).
`ProcessRuntime` gives every `Start` a run of its own; a run is launched, ended, reaped by
`cmd.Wait`, forgotten (`delete(r.processes, cell.ID)`), reported (`onExit`). The refinement
maps the table to `known` and the runs to `alive` and `owing`. A crash of the worker keeps
the processes as orphans. `DockerRuntime` splits `Start` at every call of the daemon,
because the mutex is not held there; a container has a phase at the daemon, a Cell it is
named after, a log stream and a waiting goroutine. `Recover` runs in the `Crash` action,
as it does before the router exists.

**CellManager.** A request is a record with a program counter. What `Create`, `Delete`,
`Start`, `Install` and `Reinstall` do under `m.mutex` is one action, every system call or call of the
runtime outside it another. `UpdateDefinition`, which saves under the mutex, is two
actions that keep the mutex in between, so that a crash or a disk error can fall between
memory and disk. `Kinds` chooses the requests a configuration makes, `Faults` where the
disk fails. `Torn` is a JSON document a crash cut off: `Load` passes over it.

**ManagerLocks.** One running server, bounded pipes, senders of console commands, checkers
(Delete, UpdateDefinition, Install, Reinstall: `IsRunning` under `m.mutex`), a Stop, the
capturing and the waiting goroutine. It is the module about who waits for whom. Its names begin
with `Locks` where `ProcessRuntime` has one of the same meaning, so that one module can reason
about both.

**Backups.** Nothing in `backup/` takes a mutex; an action is one system call. An archive
is a name and an inode, so that a reader or writer keeps its file when the name goes away
or comes back with another file. An inode's `state` says whether its stream has an end,
which is what the tar and gzip readers can tell. Contents of files are not modelled.
`Unmount` marks its mount (`leaving`, a variable no code has) and then takes it apart file
by file, as `os.RemoveAll` does; `RestorePath` of a directory lists the mount and copies the
entries one by one, so that an Unmount, a Restore or an edit may come between any two.
`want`, the files of the archive a mount was made of, is there to state `MountComplete`.

**CellAccess.** One Cell. A handler asks for a capability (one action) and acts later
(another). A lock is its type; `Disables` is `DefaultLock`. `StartImporter` locks and
leaves a job, which reports its progress, ends, and unlocks by its deferred call. Variables
that no code has: `fileLost` (lock.json is not what the last lock or unlock meant), `orphan`
(an "importing" lock with no living job) and the value "stale" of a progress record that
says running for a dead job. They are there to state the properties.

**SftpServer.** Several worker processes share one host key file (a restart that overlaps,
a second daemon). `LoadOrCreateHostKey` is split at each system call: look, `O_EXCL`
create, write, sync, remove on failure. A file that was created and not yet written is
`Torn`, and so is one a crash leaves behind: every later start ends on it. One worker gets
the address and serves; a connection takes a slot, asks the panel, and has one session at a
time. Any error of `Accept` or of the start is fatal to the whole worker (`Fatal`, `Die`).

**CellFiles.** One Cell directory with its recycle bin: a function from paths to files, a
file being its size and, for an archive, its entries and whether it has an end. What looks
and acts in two calls (recycle, restore, create, archive, extract) is a request with a
program counter; a single call is one action. `fd` is where the open file of a session or
an archive is: it follows a rename and is lost to a remove. `alone` is a variable that no
code has: nothing else has changed the directory since the request looked.

**Console.** A Cell's history and its table of channels change under `m.mutex`, in one
action each. A connection is two goroutines with a program counter each, the `handler` and
the `reader`, and a client that may go away at any moment. A line is its number, so that
order and gaps can be told. `shown` and `lost` are variables no code has: what the client
was handed, and what found its channel full. A command is echoed to every subscriber before
the runtime is asked. `ConsoleCrash` restarts the worker, its history and tokens gone.

**WorkerConfig.** A configuration is who the worker is, the rest of its settings and its
allocation list. Loading, the environment's list, registration and its save come before
anything else; `UpdateAllocationConfiguration` is split at the live list, `h.Config`, the
file and the two steps of its rollback, none of which is under a lock. `Save` truncates and
writes in place: `Cuts` is what a file cut short loads as, since `Load` fills what is missing
from `Default`. `cut` and `strayed` are variables no code has, for what the code cannot put
right: a file cut short, and a rollback the reservations refuse, which the answer says.

**Importer.** `CellAccess` has the job and its lock; this module has what it does: the scan
and its filter, the wipe of the Cell directory, each copy as an open that truncates and a
copy that ends, with a failure or a crash at any of them and a source that goes on changing.
Sizes are small numbers, so that the percentages are the code's arithmetic.

**Detection.** The candidates come out of a Go map, so the looks at them are in any order;
each look finds any of the servers asked for. The ranking is the comparison handed to
`sort.SliceStable`, and the stable sort is written as an insertion.

## The runs

| Run | What it shows | Bounds |
|---|---|---|
| `process_runtime` | one server per Cell, goroutines forget their own run, implements `CellRuntime` | 2 Cells, 3 runs: a new run beside two unfinished old ones |
| `docker_runtime` | no unknown server, consoles wired, nothing known removed, implements `CellRuntime` | 2 Cells, 2 Starts in flight, 3 containers, Starts of one Cell serialised |
| `docker_starts` (violation) | without that, two Starts of one Cell leave a running server that Stop calls not running | the same |
| `cell_manager` | settled Cells agree with the disk, directories kept, no leaked reservation | 2 Cells, 2 requests of all seven kinds, 3 definitions that do and do not share allocations, disk failing under Create and under the wiping of a Reinstall, crashes |
| `cell_manager_runs` (violation) | a Start overtaken by a Delete or an UpdateDefinition | the same |
| `cell_manager_allowed` (violation) | Reconfigure drops what a created Cell uses | the same |
| `manager_locks` | the manager's mutex always comes back, an accepted Stop ends the game | 1 server, 2 callers, one-line pipes, a game that goes on reading |
| `manager_locks_stuck` (violation) | with a game that does not read, all callers wait for each other | the same |
| `backups` | answered backups whole, failed ones gone, mounts complete, Restores exact, RestorePaths complete | 2 files, 1 backup, 1 mount, 2 inodes, 2 requests |
| `cell_access` | a lock survives a restart, imports exclude each other, status true, lock given back | 3 requests, failing disk, crashes |
| `cell_files` | one host key, archives within the disk limit, creating and recycling costs no file | 2 workers, 2 keys; 1 connection, 2 names, 2 files of size up to 2, limit 2, 1 request that looks before it acts |
| `services` | consoles in order and without a gap, tokens used once, no handler left behind; a restart changes nothing; imports exact, their percentage rising; the best place detected | 2 Cells, 2 clients, 1 token, channels of 1 line, 2 lines kept, 3 said; 2 allocations, 2 updates one at a time; 2 paths of size up to 1; 2 places, 2 servers, up to 2 bytes |

`services` checks four components that share no state: `focus`, chosen at the beginning, says
which of them moves, so that the states add up and do not multiply. Three lines are said to a
channel of one and a history of two, so that a line is trimmed and one is lost; with one token,
two clients race for it. The two paths are `plugins` and `.plugins`, which a stripped dot makes
one. Two bytes tell a place without data from two that have some and differ.

In `cell_files`, one such request is interleaved at each of its steps with writes, renames
and removals, which are single actions any handler may take at any moment, and with one
session that keeps a handle; a second such request multiplies the states beyond what TLC
finishes in minutes, and `NothingIsLost` below is proved for any number. `Bound` of `MCCellFiles` has
workers and connections settled while there are files, because those steps leave the files
alone (`FilesRunOnServer`); their own interleavings are explored in the empty directory.
Two files are what a rename over another and an archive beside its source need.

Two requests are enough for the races here because each is between one step of one request
and one of another, or a crash; the proofs below remove the bound where it matters most.
In `Backups`, a request holds at most one inode and a backup names one, so two inodes for
two requests never keep a Create from finding a free one while a Create is in flight.

Properties are of three kinds: invariants over two or more pieces of state
(`SettledOnDisk`, `ServerKnown`, `LockSurvives`), action properties (`ForgetsOwnRun`,
`RemovesUnknownOnly`, `RestoreExact`, `RestorePathComplete`, `ProgressAdvances`) and liveness
(`ManagerReleased`, `StopEndsGame`, `ImportUnlocks`, `ConsoleEnds`, the fairness part of
`KeepsPromise`). Each has a mutant in `PROJECT.json`,
a change of the code's definition such as a dropped check, under which TLC refutes it.

### Assumptions of the runs

- `SerialCreates`, `SerialStarts`, `Serial`, `SerialUpdates`: the panel does not have two
  requests of that kind for one thing in flight (`SerialCreates` also keeps a Reinstall of a
  Cell from running beside its Create or Delete). The code does not enforce it; where it matters a violation
  run (`docker_starts`) or a hazard in `PROJECT.json` says what happens otherwise.
- `DaemonLost = FALSE`: the Docker daemon answers about running containers, and removes one by
  force when told to. `Start` drops the error of the removal of a container that it could not
  start or attach to (`runtime/docker/container.go:108-121`): one that does not run may stay
  in the model whatever the daemon answers, and is the next Start's to remove.
- `StartsApart` (an assumption of the theorem `RunningIsCurrent`, no run needs it): no Delete
  and no UpdateDefinition of a Cell is at work while a Start of it is in flight. The run
  `cell_manager_runs` shows that nothing in the code keeps them apart.
- `SerialMoves`: one request at a time moves something into the recycle bin or out; with two
  at once, both may pick one free name and the second rename replaces the first file.
- `SelfArchive = FALSE`: no archive is made below a directory it is made of; `createZip`
  opens its destination before it walks the sources and would read what it writes.
- `SyncFails = FALSE`: the disk does not refuse a Sync, Chmod or Close of the host key; if it
  does, the deferred removal takes a file another worker may have loaded already.
- SFTP users have every permission and leave the recycle bin alone but for removing there.
- `Faults`: the disk fails under Create and under the wiping of a Reinstall. A failing save
  in UpdateDefinition leaves its new fields in memory, so that `NoLeakedReservation` does not
  hold with it; a Reinstall that cannot make the directory again, or a worker that dies
  between the two ("halfway"), leaves a known Cell without one; a Delete that cannot remove
  the file brings the Cell back at the next start. Each is an action of the model that a
  configuration may switch on.
- A mount ID is a UUID the panel makes once, so that no Mount of an ID begins while a
  RestorePath reads from it (part of `Serial`).
- `RootGiven`: the request of an SFTP import names the source's directory. Without that the
  root is "." and `TrimPrefix` takes the dot off hidden files (`importer/sftp.go:290`), and
  `ImportExact` does not hold; a hazard in `PROJECT.json`.
- `RestartKeeps` leaves out a list in the environment, which is meant to win over the file.

### Fairness

Goroutines the code has started are scheduled (`WF` on the waiting goroutines, on a
critical section once its mutex is free, on the job of an importer); `cmd.Wait` and
`ContainerWait` return for what has ended; an import's source ends or fails; once a client
has gone, the two goroutines of its console are scheduled, a write to it returns, and so does
a command. `select` chooses at random between a line and `done`; `LineBound` ends the lines,
so that no fairness of that choice is needed. Nothing is
assumed of requests, of a game server's wish to exit, or of crashes. `manager_locks`
assumes that the game reads its stdin, and `manager_locks_stuck` shows that it must.

## What is proved

TLAPS proves these for every value of the constants that meets the named assumptions.

- `ProcessRuntimeProofs`: `RuntimeInvariant`, the inductive invariant (the table names
  exactly the runs of this worker that are launched and not forgotten, each under its own
  Cell, one per Cell), and from it `AtMostOneInstance`, `GoroutineForgetsOwnRun` and
  `ImplementsCellRuntime`, the step simulation of `CellRuntime`.
- `CellManagerProofs`: `TypeCorrect`; `StoreSafe` and `DirectoriesAreKept`, that `SettledOnDisk` and
  `DirectoryKept` hold with any number of Cells and requests, Installs and Reinstalls among them, if `SerialCreates` and the
  disk fails only under Create and the wiping of a Reinstall; `ReservationsNeverLeak`; `RunningIsCurrent`.
  `SettledOnDisk` is not
  inductive: the strengthening says what each request in flight owns. The argument is that
  a Cell's directory keeps a Create out until the tail of the Delete before it, which runs
  without the mutex, is over, so that the tail only ever removes its own Cell's files.
  `RunningIsCurrent` is the other side of the run `cell_manager_runs`: under the same
  assumptions and `StartsApart`, what runs is the Cell's current definition, across crashes and
  recoveries, because the copy a Start works with is still the Cell in memory
  (`CopiesCurrent`) and a Cell whose definition is being saved does not run (`SavesStopped`).
- `BackupsProofs`: all six properties of the run `backups`. `TypeCorrect` needs `Shape`, that
  a request that reads or writes an archive has its inode in hand, and one that has not
  begun holds nothing. `AnsweredBackupsAreSound`
  and `ListedBackupsAreAnswered` rest on `ArchInv`: as long as a Create is under way, nobody
  was told of its backup, no other name and no other Create has its inode, and the inode is
  open while it walks and closed when it sums up. `MountsAreComplete` and
  `RestoredPathsAreComplete` rest on `MountInv`: while a mount is being made it does not exist
  and nobody restores from it, its staging directory holds what the one Mount has extracted,
  and what a RestorePath has done and has yet to do is the whole mount as long as that is
  intact; that an archive with an end is never written again (`ReadersKeep`) comes from
  `ArchInv`. `RestoresAreExact` has the directory follow the one Restore. All but the types
  are under `Serial`.
- `CellFilesProofs`: `OneHostKeyForGood` of `SftpServer`. The strengthening says that at most
  one worker has an unfinished file, that the file is `Torn` as long as it has, and that
  whoever is past the write holds what is stored: `O_EXCL` is what makes the writer unique,
  and a reader of an unfinished file ends instead of going on. `FilesRunOnServer`, that what
  `CellFiles` does to the server below is `SftpServer`'s specification, carries `OneHostKey`
  over (`OneHostKeyBelow`); `TypeCorrect`; `NothingIsLost`. The last needs that the name picked in the bin is free
  until the file arrives: nothing but a move puts a file into the bin, writing by handle
  adds no name, and one move is under way at a time. `LimitIsKept` proves `QuotaKept` for any
  finite set of names, any sizes and any limit. `QuotaInv` says that what the directory takes
  and what the request has yet to write (`Pending`: the rest of the sources it reads, or of
  the entries it unpacks) fit the limit together as long as the request is alone, that an
  archive is none of its own sources, and that the target of an entry is gone before the
  entry is placed; each write takes from the one what it adds to the other (`SumChange`).
- `CellAccessProofs`: `TypeCorrect`; `LockSurvivesRestart`, which is inductive as it stands;
  `StatusIsTrue`, from it and that the file of a dead job never says running once the memory
  is empty; `ImportsExclude` where StartImporters are serialised: a request allowed to import
  is alone, and none is left when an import runs, because its lock disables the importer;
  `ImportLockIsOwed`, that a Cell locked by an importer has a job that will unlock it, unless
  the lock could not be saved or its job died with a worker.
- `ServicesProofs`, on consoles: `ConsoleTypeCorrect`; `SubscribersStayAlive`;
  `ConsolesHaveReaders`, that a handler waits for lines only beside a reader, and that neither
  of the two is over before the client has gone or has sent what is no message;
  `TokensOpenOneConsole`, which needs that a token in a handler's hand is spent, and is nobody
  else's; `LinesArriveInOrder`. The last is inductive once `SubscribersAlive` says that a
  subscriber's channel belongs to a handler of that Cell, and a history is known to be the
  last lines said, without a gap unless `Clear` emptied it: then the lines shown, in hand,
  queued and lost form an interval that ends with the last line said.
  On the configuration: `ConfigTypeCorrect`; `RestartKeepsAll`, under `SerialUpdates`. While
  an update is at each of its steps, the strengthening says which of the file, `h.Config` and
  the live list are old and which are new.
  On imports: `ImportTypeCorrect`; `ImportsAreExact`, under `RootGiven`. `ExactInv` splits the
  files an import may touch into those still to do and those done: the Cell has nothing else
  than what it had but for them. `ProgressOnlyAdvances`: the percentage last reported is at
  most what the bytes copied so far come to (`ProgressInv`), and that quotient grows with the
  bytes and with the files done, the rounding of its divisions included.
  On detection: `DetectionFindsBest`. "Not beaten by" is carried along by the comparison
  (`LessOrders`), so that an insertion leaves in front what nothing inserted so far beats
  (`InsertKeepsTop`), whatever order the looks were in.
  On all four: `ServicesAreParts`, that a worker with all of them does for each what its own
  specification says, and `ServicesTypeCorrect`. Files and servers are finite sets there.
- `DockerRuntimeProofs`: `DockerTyped`, without any assumption on Starts; with `SerialStarts`
  and a daemon that answers, `ServersAreKnown`, `ConsolesAreWired`, `RemovalsSpareEntries` and
  `DockerImplementsCellRuntime`. None of the three is inductive alone: `DockerInv` says of
  each container who is responsible for it at the moment, the one Start of its Cell between
  creating it and making the entry (`StartShape`), the entry from then on (`EntryHeld`), or
  the goroutine that waits for it (`WaitersKnown`), and that the other two tables name the
  entry's container or nothing. A name at the daemon belongs to one container (`OneName`), so
  that the container a Start removes is none the tables name. From the same invariant,
  `EntriesAreAwaited`: each entry has the goroutine that will hear its container end, or a
  Start about to leave it behind; and `WaitersForgetTheirOwn`: that goroutine, which clears
  three tables by Cell ID, finds its own container, stdin and log stream there.
- `ProcessRuntimeProofs`, on `ManagerLocks`: `MutexesAreExclusive`, that each mutex is kept
  across steps by exactly the request inside it and that the pipes stay within their capacity,
  for any number of requests; `OnlyOneCircle`, that a mutex nobody on its way can free is part of
  the circle `manager_locks_stuck` shows (m.mutex waits for r.mutex, whose holder writes to a
  full stdin, whose game prints to a full stdout, whose line waits for m.mutex) and that a game
  that goes on reading has none; `KillsEndTheGame`, that the SIGKILL of a Stop leaves no game
  alive, because an entry that is gone is that of an ended game; `LocksStepTheRuntime`, that what the requests, the pipes and the
  goroutines of `ManagerLocks` do to the run is, step by step, what `ProcessRuntime` lets
  happen to a run, so that the two modules are about one runtime.
- `Sums`: sums over finite sets are independent of the order in which elements are taken
  (`SumTake`), change with one weight (`SumChange`) and exist (`FoldExists`); the folds of the
  community modules are shown to be such sums where they are used. Induction is a least
  counterexample (`LeastNatural`), because a theorem of the library that takes a predicate as
  a parameter cannot be instantiated.

What stays with TLC: liveness (`ManagerReleased`, `StopEndsGame`, `ImportUnlocks`,
`ConsoleEnds`, and the fairness half of `KeepsPromise` of both runtimes), which is out of the
prover's reach. What each of them needs besides fairness is a theorem: `OnlyOneCircle` for
`ManagerReleased`, `KillsEndTheGame` for `StopEndsGame`, `ImportLockIsOwed`,
`ConsolesHaveReaders`, `RuntimeInvariant` and `EntriesAreAwaited`. They say that somebody is
there to take the step that is hoped for; that it is taken in the end, TLC checks. Every
invariant and action property of a passing run is stated by a theorem. Of the violation runs,
`docker_starts` and `cell_manager_runs` have theorems that name the assumption their system lacks.

`ImporterAssumption` asks for `MaxSize` of at least 1 because the source's files have that
size at the beginning.

## What is not modelled

Wording, encodings, routing and logging; the content of files, ignored patterns of a
backup; folders, listings and pagination of the file manager; combs, images, networks;
statistics and player lists; the heartbeat; SFTP permissions and path checks (string
handling); the parsing of YAML and service files by the configuration and the detection, and
the warnings of the latter about free space and running containers; the temporary file of a
RestorePath; the framing of WebSockets. `rcon/client.go` has no caller.

Where the code and its own words part, apart from the violation runs: the field comment
`backup/mount_service.go:20-24` speaks of `.tgz` archives while Create writes `.tar.gz`;
`api/handlers.go:1892` asks a Status that is never "running", so that the branch "Stopping
server before import..." is dead; the lock types "restoring_backup" and "creating_backup"
of `cell/lock.go` are placed by nobody; `config.yaml.example` has the keys `listen_address`
and `api_token`, which `Config` does not; `Default` has a `worker.token`, so a worker
registers only when its file sets the token to nothing (`config/config.go:121`); `isServerJar`
takes every `.jar`, so the plugins of an import come only with `ImportServerJar`
(`importer/sftp.go:372`); `copyRemoteFile` does not look at the error of its Close, the local
copy does; a Cell made again under an ID shows the import status of the one before; a crash in
a RestorePath leaves a `.restore-*` file (`backup/mount_service.go:937`).

## Plan

1. (done) `CellRuntime`, `ProcessRuntime`, `CellManager`, `ManagerLocks`, `DockerRuntime`,
   `Backups`, `CellAccess`, `SftpServer`, `CellFiles`, their runs and first theorems.
2. (done) What is left around a Cell and the worker: `Console`, `WorkerConfig`, `Importer`,
   `Detection`, the run `services`, the theorems about the first two.
3. (done) The steps of Unmount, RestorePath and ExtractPath in `Backups`, Install and Reinstall
   in the run of the cell manager, and the theorems of `BackupsProofs`.
4. (done) The theorems about `DockerRuntime`, `ManagerLocks`, the disk limit, imports and
   detection, and the parts of `Services`.
5. (done) The theorem beside `cell_manager_runs`; what the liveness properties of the locks, the
   import, the consoles and the Docker runtime need besides fairness.
6. Left: folders in `CellFiles`; a `CellManager` that calls `CellRuntime` itself.
