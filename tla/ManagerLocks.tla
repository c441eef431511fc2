---------------------------- MODULE ManagerLocks ----------------------------
(***************************************************************************)
(* The two mutexes between a request and a game server of the process      *)
(* runtime, and the two pipes behind them: m.mutex of the cell manager,    *)
(* r.mutex of ProcessRuntime, the stdin pipe SendCommand writes to while   *)
(* it holds r.mutex, and the stdout pipe that capture empties line by line *)
(* into broadcastByID, which takes m.mutex.                                *)
(*                                                                         *)
(* A critical section that cannot block inside is one action whose guard   *)
(* is that the mutex is free.  m.mutex is otherwise held across an action  *)
(* only by requests that call IsRunning under it (Delete, Install,         *)
(* Reinstall, UpdateDefinition), r.mutex only by SendCommand.  One Cell,   *)
(* one run: every Cell of a worker shares both mutexes.  Names that        *)
(* ProcessRuntime has too begin with Locks.                                *)
(***************************************************************************)
EXTENDS Naturals

CONSTANTS
  Senders,     \* requests that send console commands
  Checkers,    \* requests that call IsRunning under m.mutex
  Stoppers,    \* requests that stop the Cell
  Capacity,    \* what a pipe holds, in lines
  ReadsAlways, \* TRUE: the game reads its stdin even while a write blocks it
  Nobody

Requests == Senders \cup Checkers \cup Stoppers

ASSUME ManagerLocksAssumption ==
  /\ Capacity \in Nat \ {0}
  /\ ReadsAlways \in BOOLEAN
  /\ Nobody \notin Requests

VARIABLES
  mHolder,  \* the request that holds m.mutex across actions
  rHolder,  \* the sender that holds r.mutex across actions
  at,       \* how far each request has come
  stdin, stdout,  \* lines in the two pipes
  game,     \* "loop", "print" (a line is to be written) or "dead"
  reader,   \* the capture goroutine: "scan", "deliver" or "done"
  waiter    \* the waiting goroutine: "wait", "forget", "exit" or "done"

lockVars == <<mHolder, rHolder, at, stdin, stdout, game, reader, waiter>>
locks == <<mHolder, rHolder>>
child == <<stdin, stdout, game>>
goroutines == <<reader, waiter>>

\* Neither pipe ever holds more than its capacity, and each mutex is held across
\* steps only by the requests that block with it (manager.go, runtime.go:105).
LocksTypeOK ==
  /\ mHolder \in Checkers \cup {Nobody}
  /\ rHolder \in Senders \cup {Nobody}
  /\ at \in [Requests -> {"idle", "echo", "write", "check", "announce", "kill", "lock"}]
  /\ stdin \in 0..Capacity /\ stdout \in 0..Capacity
  /\ game \in {"loop", "print", "dead"}
  /\ reader \in {"scan", "deliver", "done"}
  /\ waiter \in {"wait", "forget", "exit", "done"}

LocksInit ==
  /\ mHolder = Nobody /\ rHolder = Nobody
  /\ at = [q \in Requests |-> "idle"]
  /\ stdin = 0 /\ stdout = 0 /\ game = "loop"
  /\ reader = "scan" /\ waiter = "wait"

MFree == mHolder = Nobody
RFree == rHolder = Nobody
Alive == game # "dead"

\* The Cell has its entry in r.processes until the waiting goroutine is done.
Served == waiter \in {"wait", "forget"}

Move(q, from, to) == at[q] = from /\ at' = [at EXCEPT ![q] = to]

-----------------------------------------------------------------------------
\* SendCommand: look the Cell up, echo the command, write it under r.mutex.
SendLookup(s) ==
  /\ MFree
  /\ Move(s, "idle", "echo")
  /\ UNCHANGED <<locks, child, goroutines>>

SendEcho(s) ==
  /\ MFree
  /\ Move(s, "echo", "lock")
  /\ UNCHANGED <<locks, child, goroutines>>

SendLock(s) ==
  /\ RFree
  /\ IF Served
     THEN Move(s, "lock", "write") /\ rHolder' = s
     ELSE Move(s, "lock", "idle") /\ UNCHANGED rHolder
  /\ UNCHANGED <<mHolder, child, goroutines>>

\* A slip: a write that does not wait for room in the pipe.
WriteAtOnce(s) ==
  /\ Move(s, "write", "idle")
  /\ IF Alive THEN stdin' = stdin + 1 ELSE UNCHANGED stdin
  /\ rHolder' = Nobody
  /\ UNCHANGED <<mHolder, stdout, game, goroutines>>

\* The write blocks while the pipe is full, and fails once the game is dead.
SendWrite(s) ==
  /\ Move(s, "write", "idle")
  /\ IF Alive THEN stdin < Capacity /\ stdin' = stdin + 1 ELSE UNCHANGED stdin
  /\ rHolder' = Nobody
  /\ UNCHANGED <<mHolder, stdout, game, goroutines>>

\* Delete, Install, Reinstall and UpdateDefinition call IsRunning, which takes
\* r.mutex, before they release m.mutex.
CheckLock(c) ==
  /\ MFree
  /\ Move(c, "idle", "check")
  /\ mHolder' = c
  /\ UNCHANGED <<rHolder, child, goroutines>>

\* A slip: the return for a running Cell forgets m.mutex.Unlock().
CheckWithoutUnlock(c) ==
  /\ RFree
  /\ Move(c, "check", "idle")
  /\ mHolder' = IF Served THEN c ELSE Nobody
  /\ UNCHANGED <<rHolder, child, goroutines>>

CheckRunning(c) ==
  /\ RFree
  /\ Move(c, "check", "idle")
  /\ mHolder' = Nobody
  /\ UNCHANGED <<rHolder, child, goroutines>>

\* Stop answers after its lookup; a goroutine announces and kills.
StopLookup(s) ==
  /\ MFree
  /\ Move(s, "idle", "announce")
  /\ UNCHANGED <<locks, child, goroutines>>

StopAnnounce(s) ==
  /\ MFree
  /\ Move(s, "announce", "kill")
  /\ UNCHANGED <<locks, child, goroutines>>

StopKill(s) ==
  /\ RFree
  /\ Move(s, "kill", "idle")
  /\ game' = IF Served THEN "dead" ELSE game
  /\ UNCHANGED <<locks, stdin, stdout, goroutines>>

-----------------------------------------------------------------------------
\* The game reads a command and answers it, or prints on its own.
GameRead ==
  /\ game = "loop" \/ (ReadsAlways /\ game = "print")
  /\ stdin > 0
  /\ stdin' = stdin - 1
  /\ game' = "print"
  /\ UNCHANGED <<locks, at, stdout, goroutines>>

GamePrints ==
  /\ game = "loop"
  /\ game' = "print"
  /\ UNCHANGED <<locks, at, stdin, stdout, goroutines>>

GameWrite ==
  /\ game = "print"
  /\ stdout < Capacity
  /\ stdout' = stdout + 1
  /\ game' = "loop"
  /\ UNCHANGED <<locks, at, stdin, goroutines>>

GameExit ==
  /\ Alive
  /\ game' = "dead"
  /\ UNCHANGED <<locks, at, stdin, stdout, goroutines>>

-----------------------------------------------------------------------------
\* capture: scan a line, hand it to broadcastByID; the pipe ends with the game,
\* or earlier, when cmd.Wait closes it.
CaptureScan ==
  /\ reader = "scan"
  /\ \/ stdout > 0 /\ stdout' = stdout - 1 /\ reader' = "deliver"
     \/ stdout = 0 /\ ~Alive /\ reader' = "done" /\ UNCHANGED stdout
     \/ waiter # "wait" /\ reader' = "done" /\ UNCHANGED stdout
  /\ UNCHANGED <<locks, at, stdin, game, waiter>>

CaptureDeliver ==
  /\ reader = "deliver"
  /\ MFree
  /\ reader' = "scan"
  /\ UNCHANGED <<locks, at, child, waiter>>

\* cmd.Wait returns, the entry goes under r.mutex, onExit broadcasts.
WaitReturns ==
  /\ waiter = "wait" /\ ~Alive
  /\ waiter' = "forget"
  /\ UNCHANGED <<locks, at, child, reader>>

WaitForgets ==
  /\ waiter = "forget" /\ RFree
  /\ waiter' = "exit"
  /\ UNCHANGED <<locks, at, child, reader>>

WaitReports ==
  /\ waiter = "exit" /\ MFree
  /\ waiter' = "done"
  /\ UNCHANGED <<locks, at, child, reader>>

LocksNext ==
  \/ \E s \in Senders : SendLookup(s) \/ SendEcho(s) \/ SendLock(s) \/ SendWrite(s)
  \/ \E c \in Checkers : CheckLock(c) \/ CheckRunning(c)
  \/ \E s \in Stoppers : StopLookup(s) \/ StopAnnounce(s) \/ StopKill(s)
  \/ GameRead \/ GamePrints \/ GameWrite \/ GameExit
  \/ CaptureScan \/ CaptureDeliver
  \/ WaitReturns \/ WaitForgets \/ WaitReports

\* Goroutines are scheduled, and a goroutine that waits for a sync.Mutex gets it
\* (its starvation mode).  The game goes on reading and writing as long as it
\* can; no request has to come, and the game need not exit.
LocksFairness ==
  /\ \A s \in Senders : SF_lockVars(SendEcho(s)) /\ SF_lockVars(SendLock(s)) /\ WF_lockVars(SendWrite(s))
  /\ \A c \in Checkers : SF_lockVars(CheckRunning(c))
  /\ \A s \in Stoppers : SF_lockVars(StopAnnounce(s)) /\ SF_lockVars(StopKill(s))
  /\ WF_lockVars(GameRead) /\ WF_lockVars(GameWrite)
  /\ WF_lockVars(CaptureScan) /\ SF_lockVars(CaptureDeliver)
  /\ WF_lockVars(WaitReturns) /\ SF_lockVars(WaitForgets) /\ SF_lockVars(WaitReports)

LocksSpec == LocksInit /\ [][LocksNext]_lockVars /\ LocksFairness

-----------------------------------------------------------------------------
\* A check of the runtime never keeps the manager from its other Cells: whoever
\* takes m.mutex gives it back ("Keep runtime checks outside the manager lock.",
\* manager.go:102, against storage.go:144, update.go:59, install.go:20 and :83).
ManagerReleased == mHolder # Nobody ~> mHolder = Nobody

\* An accepted Stop ends the game, whatever is written to it meanwhile
\* (lifecycle.go:90, process/runtime.go:92).
StopEndsGame == \A s \in Stoppers : at[s] = "announce" ~> ~Alive
=============================================================================
