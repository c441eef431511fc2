------------------------ MODULE ProcessRuntimeProofs ------------------------
(***************************************************************************)
(* For any number of Cells and runs: the process runtime is type correct,  *)
(* its table is exact, no Cell ever has two instances, a goroutine forgets *)
(* only its own run, and every step is a step CellRuntime allows.          *)
(* The mutexes and pipes of ManagerLocks, for any number of requests and   *)
(* any capacity: each mutex is kept by the one request that is inside, it  *)
(* is kept for good in one way only, a Stop that kills ends the game, and  *)
(* what happens to the run is what ProcessRuntime lets happen to it.       *)
(***************************************************************************)
EXTENDS ProcessRuntime, ManagerLocks, TLAPS

\* The inductive invariant: TableExact needs the types to be inductive.
RuntimeInv == TypeOK /\ TableExact

LEMMA RuntimeInvInit == Init => RuntimeInv
BY NoProcAssumption DEF Init, RuntimeInv, TypeOK, TableExact, IsRunning, Stages, InTable

LEMMA RuntimeInvStep == RuntimeInv /\ [Next]_vars => RuntimeInv'
<1> SUFFICES ASSUME RuntimeInv, [Next]_vars
             PROVE  RuntimeInv'
  OBVIOUS
<1> USE NoProcAssumption DEF RuntimeInv, TypeOK, TableExact, IsRunning, Stages, InTable
<1>1. ASSUME NEW id \in Ids, NEW p \in Procs, Start(id, p)
      PROVE  RuntimeInv'
  BY <1>1 DEF Start, Startable
<1>2. ASSUME NEW id \in Ids, Stop(id)
      PROVE  RuntimeInv'
  BY <1>2 DEF Stop
<1>3. ASSUME NEW p \in Procs, Exit(p)
      PROVE  RuntimeInv'
  BY <1>3 DEF Exit
<1>4. ASSUME NEW p \in Procs, Reap(p)
      PROVE  RuntimeInv'
  BY <1>4 DEF Reap
<1>5. ASSUME NEW p \in Procs, Forget(p)
      PROVE  RuntimeInv'
  BY <1>5 DEF Forget, WaitReturned, DeleteEntry
<1>6. ASSUME NEW p \in Procs, OnExit(p)
      PROVE  RuntimeInv'
  BY <1>6 DEF OnExit
<1>7. ASSUME NEW p \in Procs, OrphanExit(p)
      PROVE  RuntimeInv'
  BY <1>7 DEF OrphanExit
<1>8. CASE Crash
  BY <1>8 DEF Crash
<1>9. CASE UNCHANGED vars
  BY <1>9 DEF vars
<1> QED
  BY <1>1, <1>2, <1>3, <1>4, <1>5, <1>6, <1>7, <1>8, <1>9 DEF Next

\* r.processes is type correct and names exactly the runs that are not over.
THEOREM RuntimeInvariant == Spec => [](TypeOK /\ TableExact)
<1>1. Spec => []RuntimeInv
  BY RuntimeInvInit, RuntimeInvStep, PTL DEF Spec
<1> QED
  BY <1>1, PTL DEF RuntimeInv

\* One worker never has two living processes for one Cell, however many
\* starts, stops, exits and crashes interleave (Start, runtime.go:34-90).
THEOREM AtMostOneInstance == Spec => []OneInstance
<1>1. TypeOK /\ TableExact => OneInstance
  BY DEF TypeOK, TableExact, OneInstance, InTable
<1> QED
  BY <1>1, RuntimeInvariant, PTL

\* The deletion by Cell ID at runtime.go:83 never removes a later run's entry.
THEOREM GoroutineForgetsOwnRun == Spec => ForgetsOwnRun
<1>1. TypeOK /\ TableExact /\ [Next]_vars
        => [\A p \in Procs : Forget(p) => processes[owner[p]] = p]_vars
  BY DEF TableExact, Forget, WaitReturned, InTable
<1> QED
  BY <1>1, RuntimeInvariant, PTL DEF Spec, ForgetsOwnRun

-----------------------------------------------------------------------------
\* Every step of the process runtime is a step CellRuntime allows of the Cell
\* concerned, or one its clients cannot see.
LEMMA StepKeepsPromise ==
  TypeOK /\ TableExact /\ [Next]_vars => [Promise!Next]_(Promise!vars)
<1> SUFFICES ASSUME TypeOK, TableExact, [Next]_vars
             PROVE  [Promise!Next]_(Promise!vars)
  OBVIOUS
<1>0. TypeOK' /\ TableExact'
  BY RuntimeInvStep DEF RuntimeInv
<1>a. ASSUME NEW id \in Ids,
             Promise!Start(id) \/ Promise!End(id) \/ Promise!Forget(id) \/ Promise!Report(id)
      PROVE  Promise!Next
  BY <1>a DEF Promise!Next
<1>b. ASSUME NEW p \in Procs
      PROVE  owner[p] \in Ids
  BY DEF TypeOK
<1>1. ASSUME NEW id \in Ids, NEW p \in Procs, Start(id, p)
      PROVE  Promise!Next
  <2>1. Promise!Start(id)
    BY <1>0, <1>1, NoProcAssumption
    DEF Start, Startable, Promise!Start, TypeOK, TableExact, IsRunning, Stages, InTable
  <2> QED BY <1>a, <2>1
<1>2. ASSUME NEW id \in Ids, Stop(id)
      PROVE  Promise!Next
  <2>1. Promise!End(id)
    BY <1>0, <1>2, NoProcAssumption
    DEF Stop, Promise!End, TypeOK, TableExact, IsRunning, Stages, InTable
  <2> QED BY <1>a, <2>1
<1>3. ASSUME NEW p \in Procs, Exit(p)
      PROVE  Promise!Next
  <2>0. PICK id \in Ids : id = owner[p]
    BY <1>b
  <2>1. Promise!End(id)
    BY <1>0, <1>3, <2>0 DEF Exit, Promise!End, TypeOK, TableExact, IsRunning, Stages, InTable
  <2> QED BY <1>a, <2>1
<1>4. ASSUME NEW p \in Procs, Reap(p)
      PROVE  UNCHANGED Promise!vars
  BY <1>4 DEF Reap, Promise!vars, TypeOK, IsRunning, Stages
<1>5. ASSUME NEW p \in Procs, Forget(p)
      PROVE  Promise!Next
  <2>0. PICK id \in Ids : id = owner[p]
    BY <1>b
  <2>1. Promise!Forget(id)
    BY <1>0, <1>5, <2>0, NoProcAssumption
    DEF Forget, WaitReturned, DeleteEntry, Promise!Forget, TypeOK, TableExact, IsRunning,
        Stages, InTable
  <2> QED BY <1>a, <2>1
<1>6. ASSUME NEW p \in Procs, OnExit(p)
      PROVE  Promise!Next
  <2>0. PICK id \in Ids : id = owner[p]
    BY <1>b
  <2>1. Promise!Report(id)
    BY <1>6, <2>0 DEF OnExit, Promise!Report, TypeOK, IsRunning, Stages
  <2> QED BY <1>a, <2>1
<1>7. ASSUME NEW p \in Procs, OrphanExit(p)
      PROVE  UNCHANGED Promise!vars
  BY <1>7 DEF OrphanExit, Promise!vars, TypeOK, IsRunning, Stages
<1>8. CASE Crash
  <2>1. /\ {id \in Ids : IsRunning(id)}' = {}
        /\ {id \in Ids : \E p \in Procs : stage[p] = "live" /\ owner[p] = id}' = {}
        /\ {id \in Ids : \E p \in Procs : stage[p] = "exiting" /\ owner[p] = id}' = {}
    BY <1>8 DEF Crash, TypeOK, IsRunning, Stages
  <2>2. {} \in SUBSET Ids
    OBVIOUS
  <2>3. Promise!Crash
    BY <2>1, <2>2 DEF Promise!Crash
  <2> QED
    BY <2>3 DEF Promise!Next
<1>9. CASE UNCHANGED vars
  BY <1>9 DEF vars, Promise!vars, IsRunning
<1> QED
  BY <1>1, <1>2, <1>3, <1>4, <1>5, <1>6, <1>7, <1>8, <1>9 DEF Next

\* The safety half of KeepsPromise; its fairness half is left to TLC.
THEOREM ImplementsCellRuntime == Spec => Promise!Init /\ [][Promise!Next]_(Promise!vars)
<1>1. Init => Promise!Init
  BY DEF Init, Promise!Init, IsRunning
<1> QED
  BY <1>1, StepKeepsPromise, RuntimeInvariant, PTL DEF Spec

-----------------------------------------------------------------------------
(* ManagerLocks.                                                           *)

\* A mutex kept across steps is kept by the request that is inside: nobody else is, and
\* whoever is inside has it.
MutexesHeld ==
  /\ \A q \in Requests : at[q] = "check" <=> mHolder = q
  /\ \A q \in Requests : at[q] = "write" <=> rHolder = q

\* cmd.Wait returns only for a game that has ended, and capture stops reading only then.
WaitedFor ==
  /\ waiter # "wait" => game = "dead"
  /\ reader = "done" => game = "dead"

LocksInv == LocksTypeOK /\ MutexesHeld /\ WaitedFor

LEMMA LocksInvInit == LocksInit => LocksInv
  BY ManagerLocksAssumption DEF LocksInit, LocksInv, LocksTypeOK, MutexesHeld, WaitedFor,
         Requests

LEMMA LocksInvStep == LocksInv /\ [LocksNext]_lockVars => LocksInv'
<1> SUFFICES ASSUME LocksInv, [LocksNext]_lockVars
             PROVE  LocksInv'
  OBVIOUS
<1> USE ManagerLocksAssumption DEF LocksInv, LocksTypeOK, MutexesHeld, WaitedFor,
            Requests, locks, child, goroutines
<1>1. ASSUME NEW s \in Senders, SendLookup(s) \/ SendEcho(s) PROVE LocksInv'
  BY <1>1 DEF SendLookup, SendEcho, Move
<1>2. ASSUME NEW s \in Senders, SendLock(s) PROVE LocksInv'
  BY <1>2 DEF SendLock, Move, RFree
<1>3. ASSUME NEW s \in Senders, SendWrite(s) PROVE LocksInv'
  BY <1>3 DEF SendWrite, Move, Alive
<1>4. ASSUME NEW c \in Checkers, CheckLock(c) PROVE LocksInv'
  BY <1>4 DEF CheckLock, Move, MFree
<1>5. ASSUME NEW c \in Checkers, CheckRunning(c) PROVE LocksInv'
  BY <1>5 DEF CheckRunning, Move
<1>6. ASSUME NEW s \in Stoppers, StopLookup(s) \/ StopAnnounce(s) PROVE LocksInv'
  BY <1>6 DEF StopLookup, StopAnnounce, Move
<1>7. ASSUME NEW s \in Stoppers, StopKill(s) PROVE LocksInv'
  BY <1>7 DEF StopKill, Move
<1>8. CASE GameRead \/ GamePrints \/ GameWrite \/ GameExit
  BY <1>8 DEF GameRead, GamePrints, GameWrite, GameExit
<1>9. CASE CaptureScan \/ CaptureDeliver
  BY <1>9 DEF CaptureScan, CaptureDeliver, Alive
<1>10. CASE WaitReturns \/ WaitForgets \/ WaitReports
  BY <1>10 DEF WaitReturns, WaitForgets, WaitReports, Alive
<1>11. CASE UNCHANGED lockVars
  BY <1>11 DEF lockVars
<1> QED
  BY <1>1, <1>2, <1>3, <1>4, <1>5, <1>6, <1>7, <1>8, <1>9, <1>10, <1>11 DEF LocksNext

\* Neither pipe holds more than its capacity, and m.mutex and r.mutex are each kept across
\* steps by the one request that is inside its critical section, for any number of requests
\* (manager.go, process/runtime.go:105).
THEOREM MutexesAreExclusive == LocksSpec => [](LocksTypeOK /\ MutexesHeld)
<1>1. LocksInv => LocksTypeOK /\ MutexesHeld
  BY DEF LocksInv
<1> QED
  BY <1>1, LocksInvInit, LocksInvStep, PTL DEF LocksSpec

-----------------------------------------------------------------------------
\* Who may go on at this moment, by the guards of the actions: the request that holds
\* m.mutex, the sender that holds r.mutex, the game, the goroutine that reads its output.
CheckerGoes == mHolder # Nobody /\ RFree
SenderGoes == rHolder # Nobody /\ (Alive => stdin < Capacity)
GameGoes ==
  \/ stdin > 0 /\ (game = "loop" \/ (ReadsAlways /\ game = "print"))
  \/ stdout < Capacity /\ game = "print"
CaptureGoes == (reader = "scan" /\ stdout > 0) \/ (reader = "deliver" /\ MFree)

\* The circle of manager_locks_stuck: a request asks IsRunning under m.mutex, a sender writes
\* to a full stdin under r.mutex, the game does not read before it has printed, its output
\* is full, and what empties it is a line that waits for m.mutex.
Circle ==
  /\ mHolder # Nobody /\ rHolder # Nobody
  /\ stdin = Capacity /\ game = "print" /\ ~ReadsAlways
  /\ stdout = Capacity /\ reader = "deliver"

OneCircle ==
  /\ mHolder # Nobody \/ rHolder # Nobody
  /\ ~(CheckerGoes \/ SenderGoes \/ GameGoes \/ CaptureGoes)
  => Circle

\* Whatever requests come in whatever order, a mutex whose holder nobody on its way can
\* help is part of that one circle; a game that reads its stdin leaves none
\* (storage.go:144, process/runtime.go:105, :171, manager.go:117).
THEOREM OnlyOneCircle == LocksSpec => []OneCircle
<1>1. LocksInv => OneCircle
  <2> SUFFICES ASSUME LocksInv, mHolder # Nobody \/ rHolder # Nobody,
                      ~CheckerGoes, ~SenderGoes, ~GameGoes, ~CaptureGoes
               PROVE  Circle
    BY DEF OneCircle
  <2> USE ManagerLocksAssumption DEF LocksInv, LocksTypeOK
  <2>1. rHolder # Nobody
    BY DEF CheckerGoes, RFree
  <2>2. game # "dead" /\ stdin = Capacity
    BY <2>1 DEF SenderGoes, Alive
  <2>3. game = "print" /\ ~ReadsAlways /\ stdout = Capacity
    BY <2>2 DEF GameGoes
  <2>4. reader = "deliver" /\ mHolder # Nobody
    BY <2>3 DEF CaptureGoes, WaitedFor, MFree
  <2> QED
    BY <2>1, <2>2, <2>3, <2>4 DEF Circle
<1> QED
  BY <1>1, LocksInvInit, LocksInvStep, PTL DEF LocksSpec

\* The kill of an accepted Stop, which comes when the request is long answered, leaves no
\* game alive: one that is not in the table any more has ended (lifecycle.go:90-98,
\* process/runtime.go:92).
THEOREM KillsEndTheGame ==
  LocksSpec => [][\A s \in Stoppers : StopKill(s) => game' = "dead"]_lockVars
<1>1. LocksInv => (\A s \in Stoppers : StopKill(s) => game' = "dead")
  BY DEF LocksInv, LocksTypeOK, WaitedFor, StopKill, Served
<1>2. LocksInv /\ [LocksNext]_lockVars
        => [\A s \in Stoppers : StopKill(s) => game' = "dead"]_lockVars
  BY <1>1
<1> QED
  BY <1>2, LocksInvInit, LocksInvStep, PTL DEF LocksSpec

-----------------------------------------------------------------------------
\* The one run of ManagerLocks as ProcessRuntime sees it.
TheRun == "run"
Run == INSTANCE ProcessRuntime WITH
  Ids <- {"cell"}, Procs <- {TheRun}, NoProc <- "none",
  processes <- [id \in {"cell"} |-> IF waiter \in {"wait", "forget"} THEN TheRun ELSE "none"],
  owner <- [p \in {TheRun} |-> "cell"],
  stage <- [p \in {TheRun} |-> CASE waiter = "wait" -> IF game = "dead" THEN "dead" ELSE "live"
                                [] waiter = "forget" -> "reaped"
                                [] waiter = "exit" -> "exiting"
                                [] waiter = "done" -> "free"]

LEMMA RunStep ==
  ASSUME LocksInv, [LocksNext]_lockVars
  PROVE  [Run!Next]_(Run!vars)
<1> USE DEF TheRun
<1>0. /\ waiter \in {"wait", "forget", "exit", "done"} /\ game \in {"loop", "print", "dead"}
      /\ waiter # "wait" => game = "dead"
  BY DEF LocksInv, LocksTypeOK, WaitedFor
<1>1. ASSUME waiter' = waiter, game' = "dead" <=> game = "dead" PROVE UNCHANGED Run!vars
  <2>1. CASE game = "dead"
    BY <1>0, <1>1, <2>1 DEF Run!vars
  <2>2. CASE game # "dead"
    <3>1. game' # "dead"
      BY <1>1, <2>2
    <3> QED
      BY <1>0, <1>1, <2>2, <3>1 DEF Run!vars
  <2> QED
    BY <2>1, <2>2
<1>2. ASSUME waiter' = waiter, game' = "dead", game # "dead" PROVE Run!Exit(TheRun)
  BY <1>0, <1>2 DEF Run!Exit
<1>3. CASE WaitReturns
  <2>1. waiter = "wait" /\ waiter' = "forget" /\ game = "dead"
    BY <1>3 DEF WaitReturns, Alive
  <2>2. Run!Reap(TheRun)
    BY <2>1 DEF Run!Reap
  <2> QED
    BY <2>2 DEF Run!Next
<1>4. CASE WaitForgets
  <2>1. waiter = "forget" /\ waiter' = "exit"
    BY <1>4 DEF WaitForgets
  <2>2. Run!Forget(TheRun)
    BY <2>1 DEF Run!Forget, Run!WaitReturned, Run!DeleteEntry
  <2> QED
    BY <2>2 DEF Run!Next
<1>5. CASE WaitReports
  <2>1. waiter = "exit" /\ waiter' = "done"
    BY <1>5 DEF WaitReports
  <2>2. Run!OnExit(TheRun)
    BY <2>1 DEF Run!OnExit
  <2> QED
    BY <2>2 DEF Run!Next
<1>6. ASSUME ~WaitReturns, ~WaitForgets, ~WaitReports
      PROVE  waiter' = waiter /\ (game = "dead" => game' = "dead")
  BY <1>6
  DEF LocksNext, lockVars, child, goroutines, SendLookup, SendEcho,
      SendLock, SendWrite, CheckLock, CheckRunning, StopLookup,
      StopAnnounce, StopKill, GameRead, GamePrints, GameWrite,
      GameExit, CaptureScan, CaptureDeliver
<1> QED
  BY <1>1, <1>2, <1>3, <1>4, <1>5, <1>6 DEF Run!Next

\* Seen from the table of the runtime, requests, pipes and mutexes do to the run only what
\* ProcessRuntime lets happen to it: what is proved there of any step holds here
\* (process/runtime.go:64-90, :92).
THEOREM LocksStepTheRuntime == LocksSpec => [][Run!Next]_(Run!vars)
  BY LocksInvInit, LocksInvStep, RunStep, PTL DEF LocksSpec
=============================================================================
