------------------------- MODULE DockerRuntimeProofs -------------------------
(***************************************************************************)
(* For any number of Cells, Starts and containers: if the panel serialises *)
(* the Starts of a Cell and the daemon answers about running containers,   *)
(* the tables of the Docker runtime know every running container, a Cell's *)
(* console is its own, a Start removes no container the tables name, an    *)
(* entry has a goroutine that will clear it and no other, and every step   *)
(* is a step CellRuntime allows.                                           *)
(***************************************************************************)
EXTENDS DockerRuntime, TLAPS

StartType == [pc : StartSteps, id : Ids, cont : Entry]

\* A Start has created its container, and nothing waits for that yet.
Building == {"launch", "attach", "register", "hook"}

\* A Start that removes, or has created, a container knows which.
StartHolds == \A s \in Starters :
  start[s].pc \in Building \cup {"remove"} => start[s].cont \in Containers

\* The daemon gives a name to one container at a time.
OneName == \A c, d \in Containers :
  phase[c] # "none" /\ phase[d] # "none" /\ owner[c] = owner[d] => c = d

StartsAlone == \A s, t \in Starters :
  ~At(s, "idle") /\ ~At(t, "idle") /\ start[s].id = start[t].id => s = t

\* A Start in flight has the container it removes or builds to itself, and the Cell
\* has no entry until the Start has made it.
StartShape == \A s \in Starters :
  /\ start[s].pc \in {"idle", "inspect", "create"} => start[s].cont = NoContainer
  /\ start[s].pc \in Building \cup {"remove"}
       => start[s].cont \in Containers /\ owner[start[s].cont] = start[s].id
  /\ start[s].pc \in Building => waiter[start[s].cont] = "none"
  /\ At(s, "launch") => phase[start[s].cont] = "created"
  /\ start[s].pc \in {"attach", "register", "hook"} => phase[start[s].cont] \in {"running", "exited"}
  /\ start[s].pc \in {"inspect", "remove", "create", "launch", "attach", "register"}
       => containers[start[s].id] = NoContainer
  /\ At(s, "hook") => containers[start[s].id] = start[s].cont /\ cancelLogs[start[s].id] = NoContainer

\* An entry names a container of the Cell that is or was running, and whose log stream
\* and waiting goroutine there are, or are about to be.
Wired(id) ==
  /\ waiter[containers[id]] \in {"waiting", "returned"}
  /\ cancelLogs[id] = containers[id] /\ containers[id] \in logs
EntryHeld == \A id \in Ids : IsRunning(id) =>
  /\ owner[containers[id]] = id
  /\ phase[containers[id]] \in {"running", "exited"}
  /\ Wired(id) \/ \E s \in Starters : At(s, "hook") /\ start[s].cont = containers[id]

\* The other tables name what the first one does, or nothing.
TablesFollow == \A id \in Ids : {stdin[id], cancelLogs[id]} \subseteq {containers[id], NoContainer}

\* Who waits for a container, or is about to forget it, is known by it.
WaitersKnown == \A c \in Containers :
  /\ waiter[c] \in {"waiting", "returned"} => containers[owner[c]] = c
  /\ waiter[c] = "returned" => phase[c] # "running"

DockerInv ==
  /\ TypeOK /\ OneName /\ StartsAlone /\ StartShape /\ EntryHeld /\ TablesFollow /\ WaitersKnown
  /\ ServerKnown

-----------------------------------------------------------------------------
\* A Start goes on to step pc with container c, and the others stay where they are.
Went(s, pc, c) ==
  /\ start' \in [Starters -> StartType]
  /\ \A t \in Starters \ {s} : start'[t] = start[t]
  /\ start'[s].pc = pc /\ start'[s].cont = c /\ start'[s].id = start[s].id

LEMMA TypeParts ==
  ASSUME TypeOK
  PROVE  /\ start \in [Starters -> StartType]
         /\ containers \in [Ids -> Entry] /\ stdin \in [Ids -> Entry]
         /\ cancelLogs \in [Ids -> Entry]
         /\ phase \in [Containers -> {"none", "created", "running", "exited"}]
         /\ owner \in [Containers -> Ids]
         /\ waiter \in [Containers -> {"none", "waiting", "returned", "exiting"}]
         /\ \A s \in Starters : start[s].id \in Ids /\ start[s].cont \in Entry
                                /\ start[s].pc \in StartSteps
  BY DEF TypeOK, StartType

LEMMA StartWent ==
  ASSUME start \in [Starters -> StartType], NEW s \in Starters, NEW pc \in StartSteps, NEW c \in Entry,
         start' = [start EXCEPT ![s].pc = pc, ![s].cont = c]
  PROVE  Went(s, pc, c)
<1>1. PICK q : q = [start[s] EXCEPT !.pc = pc, !.cont = c]
  OBVIOUS
<1>2. start' = [start EXCEPT ![s] = q]
  BY <1>1
<1>3. q \in StartType /\ q.pc = pc /\ q.cont = c /\ q.id = start[s].id
  BY <1>1 DEF StartType
<1> QED BY <1>2, <1>3 DEF Went

LEMMA StartGoes ==
  ASSUME start \in [Starters -> StartType], NEW s \in Starters, NEW pc \in StartSteps, Goto(s, pc)
  PROVE  Went(s, pc, start[s].cont)
<1>1. PICK q : q = [start[s] EXCEPT !.pc = pc]
  OBVIOUS
<1>2. start' = [start EXCEPT ![s] = q]
  BY <1>1 DEF Goto
<1>3. q \in StartType /\ q.pc = pc /\ q.cont = start[s].cont /\ q.id = start[s].id
  BY <1>1 DEF StartType
<1> QED BY <1>2, <1>3 DEF Went

LEMMA StartEnds ==
  ASSUME start \in [Starters -> StartType], NEW s \in Starters, Finish(s)
  PROVE  Went(s, "idle", NoContainer)
<1>1. NoStart(start[s].id) \in StartType
  BY DEF NoStart, StartType, StartSteps, Entry
<1>2. start' = [start EXCEPT ![s] = NoStart(start[s].id)]
  BY DEF Finish
<1> QED BY <1>1, <1>2 DEF Went, NoStart

LEMMA WentHolds ==
  ASSUME StartHolds, NEW s \in Starters, NEW pc, NEW c, Went(s, pc, c),
         pc \in Building \cup {"remove"} => c \in Containers
  PROVE  start' \in [Starters -> StartType] /\ StartHolds'
  BY DEF Went, StartHolds

LEMMA TypeInit == Init => TypeOK /\ StartHolds
<1> SUFFICES ASSUME Init PROVE TypeOK /\ StartHolds
  OBVIOUS
<1>1. PICK id \in Ids : owner = [c \in Containers |-> id] /\ start = [s \in Starters |-> NoStart(id)]
  BY DEF Init
<1>2. start \in [Starters -> StartType] /\ StartHolds
  BY <1>1 DEF NoStart, StartType, StartSteps, Entry, StartHolds, Building
<1> QED BY <1>1, <1>2 DEF Init, TypeOK, Empty, Entry, StartType

LEMMA TypeStep == ASSUME TypeOK, StartHolds, [Next]_vars PROVE TypeOK' /\ StartHolds'
<1> USE TypeParts DEF tables, daemon, goroutines
<1>1. CASE UNCHANGED vars
  BY <1>1 DEF TypeOK, vars, StartHolds
<1>2. ASSUME NEW s \in Starters, NEW id \in Ids, StartCheck(s, id)
      PROVE  TypeOK' /\ StartHolds'
  <2>1. start' = [start EXCEPT ![s] = [pc |-> "inspect", id |-> id, cont |-> NoContainer]]
    BY <1>2 DEF StartCheck
  <2>2. start' \in [Starters -> StartType] /\ StartHolds'
    BY <2>1 DEF StartType, StartSteps, Entry, StartHolds, Building
  <2> QED BY <1>2, <2>2 DEF TypeOK, StartCheck, StartType
<1>3. ASSUME NEW s \in Starters, StartStep(s)
      PROVE  TypeOK' /\ StartHolds'
  <2>1. CASE StartFails(s)
    <3>1. start' \in [Starters -> StartType] /\ StartHolds'
      BY <2>1, StartEnds, WentHolds DEF StartFails, Building
    <3> QED BY <2>1, <3>1 DEF TypeOK, StartFails, StartType
  <2>2. CASE StartInspect(s)
    <3>1. ASSUME NEW c \in Named(start[s].id), start' = [start EXCEPT ![s].pc = "remove", ![s].cont = c]
          PROVE  Went(s, "remove", c)
      BY <3>1, StartWent DEF StartSteps, Entry, Named
    <3>2. start' \in [Starters -> StartType] /\ StartHolds'
      BY <2>2, <3>1, StartGoes, WentHolds DEF StartInspect, StartSteps, Named, Building
    <3> QED BY <2>2, <3>2 DEF TypeOK, StartInspect, StartType
  <2>3. CASE StartRemove(s)
    <3>0. Went(s, "create", NoContainer)
      BY <2>3, StartWent DEF StartRemove, StartSteps, Entry
    <3>1. start' \in [Starters -> StartType] /\ StartHolds'
      BY <3>0, WentHolds DEF Building
    <3>2. phase' \in [Containers -> {"none", "created", "running", "exited"}]
      BY <2>3 DEF StartRemove
    <3> QED BY <2>3, <3>1, <3>2 DEF TypeOK, StartRemove, StartType
  <2>4. CASE StartCreate(s)
    <3>1. PICK c \in Containers :
            /\ phase' = [phase EXCEPT ![c] = "created"] /\ owner' = [owner EXCEPT ![c] = start[s].id]
            /\ start' = [start EXCEPT ![s].pc = "launch", ![s].cont = c]
      BY <2>4 DEF StartCreate
    <3>0. Went(s, "launch", c)
      BY <3>1, StartWent DEF StartSteps, Entry
    <3>2. start' \in [Starters -> StartType] /\ StartHolds'
      BY <3>0, WentHolds
    <3> QED BY <2>4, <3>1, <3>2 DEF TypeOK, StartCreate, StartType
  <2>5. CASE StartLaunch(s) \/ StartAttach(s)
    <3>0. start[s].cont \in Containers
      BY <2>5 DEF StartLaunch, StartAttach, StartHolds, Building, At
    <3>a. \/ Went(s, "attach", start[s].cont) \/ Went(s, "register", start[s].cont)
          \/ Went(s, "idle", NoContainer)
      BY <2>5, StartGoes, StartEnds DEF StartLaunch, StartAttach, Discard, StartSteps
    <3>1. start' \in [Starters -> StartType] /\ StartHolds'
      BY <3>0, <3>a, WentHolds DEF Building
    <3>2. phase' \in [Containers -> {"none", "created", "running", "exited"}]
      BY <2>5 DEF StartLaunch, StartAttach, Discard
    <3> QED BY <2>5, <3>1, <3>2 DEF TypeOK, StartLaunch, StartAttach, StartType
  <2>6. CASE StartRegister(s)
    <3>0. start[s].cont \in Containers /\ Went(s, "hook", start[s].cont)
      BY <2>6, StartGoes DEF StartRegister, StartSteps, StartHolds, Building, At
    <3>1. start' \in [Starters -> StartType] /\ StartHolds'
      BY <3>0, WentHolds
    <3> QED BY <2>6, <3>1 DEF TypeOK, StartRegister, StartType
  <2>7. CASE StartHook(s)
    <3>1. logs' \subseteq Containers
      BY <2>7 DEF StartHook, TypeOK, StartHolds, Building, At
    <3>2. start' \in [Starters -> StartType] /\ StartHolds'
      BY <2>7, StartEnds, WentHolds DEF StartHook, Building
    <3> QED BY <2>7, <3>1, <3>2 DEF TypeOK, StartHook, KeepCancel, StartType
  <2> QED BY <1>3, <2>1, <2>2, <2>3, <2>4, <2>5, <2>6, <2>7 DEF StartStep
<1>4. ASSUME NEW id \in Ids, Stop(id)
      PROVE  TypeOK' /\ StartHolds'
  BY <1>4 DEF TypeOK, Stop, IsRunning, Entry, StartHolds
<1>5. ASSUME NEW c \in Containers, WaitReturns(c) \/ WaitForgets(c) \/ WaitReports(c)
      PROVE  TypeOK' /\ StartHolds'
  <2>1. CASE WaitForgets(c)
    BY <2>1 DEF TypeOK, WaitForgets, DeleteEntry, Entry, StartHolds
  <2>2. CASE WaitReturns(c) \/ WaitReports(c)
    BY <2>2 DEF TypeOK, WaitReturns, WaitReports, StartHolds
  <2> QED BY <1>5, <2>1, <2>2
<1>6. ASSUME NEW c \in Containers, StopContainer(c) \/ Exit(c)
      PROVE  TypeOK' /\ StartHolds'
  <2>1. phase' \in [Containers -> {"none", "created", "running", "exited"}] /\ stops' \subseteq stops
    BY <1>6 DEF StopContainer, Exit
  <2> QED BY <1>6, <2>1 DEF TypeOK, StopContainer, Exit, StartHolds
<1>7. CASE Crash
  <2>1. PICK seen \in SUBSET Ids :
          Recover({c \in Containers : phase[c] = "running" /\ owner[c] \in seen})
    BY <1>7 DEF Crash
  <2> DEFINE found == {c \in Containers : phase[c] = "running" /\ owner[c] \in seen}
             Recovered(id) == IF \E c \in found : owner[c] = id
                              THEN CHOOSE c \in found : owner[c] = id ELSE NoContainer
  <2>2. \A id \in Ids : Recovered(id) \in Entry
    BY DEF Entry
  <2>3. /\ containers' = [id \in Ids |-> Recovered(id)] /\ cancelLogs' = [id \in Ids |-> Recovered(id)]
        /\ \E attached \in SUBSET Ids :
             stdin' = [id \in Ids |-> IF id \in attached THEN Recovered(id) ELSE NoContainer]
        /\ logs' = found /\ waiter' = [c \in Containers |-> IF c \in found THEN "waiting" ELSE "none"]
    BY <2>1 DEF Recover
  <2>4. /\ containers' \in [Ids -> Entry] /\ stdin' \in [Ids -> Entry] /\ cancelLogs' \in [Ids -> Entry]
        /\ logs' \subseteq Containers
        /\ waiter' \in [Containers -> {"none", "waiting", "returned", "exiting"}]
    <3> HIDE DEF Recovered
    <3> QED BY <2>2, <2>3 DEF Entry
  <2>5. start' \in [Starters -> StartType] /\ StartHolds'
    BY <1>7 DEF Crash, NoStart, StartType, StartSteps, Entry, StartHolds, Building
  <2> QED BY <1>7, <2>4, <2>5 DEF TypeOK, Crash, StartType
<1> QED BY <1>1, <1>2, <1>3, <1>4, <1>5, <1>6, <1>7 DEF Next

\* The container a Start has to itself: no table, no other Start and no goroutine knows it.
LEMMA OwnContainer ==
  ASSUME DockerAssumption, DockerInv, NEW s \in Starters,
         start[s].pc \in {"remove", "launch", "attach", "register"}
  PROVE  /\ start[s].cont \in Containers /\ owner[start[s].cont] = start[s].id
         /\ start[s].id \in Ids /\ containers[start[s].id] = NoContainer
         /\ \A t \in Starters \ {s} : start[t].cont # start[s].cont
         /\ \A id \in Ids : containers[id] # start[s].cont
         /\ waiter[start[s].cont] \notin {"waiting", "returned"}
<1> USE DEF DockerInv
<1>1. /\ start[s].cont \in Containers /\ owner[start[s].cont] = start[s].id
      /\ start[s].id \in Ids /\ containers[start[s].id] = NoContainer
  BY TypeParts DEF StartShape, Building
<1>2. ASSUME NEW t \in Starters \ {s}
      PROVE  start[t].cont # start[s].cont
  <2>1. start[s].cont # NoContainer
    BY <1>1 DEF DockerAssumption
  <2>2. CASE start[t].pc \in {"idle", "inspect", "create"}
    BY <2>1, <2>2 DEF StartShape
  <2>3. CASE start[t].pc \in Building \cup {"remove"}
    <3>1. owner[start[t].cont] = start[t].id
      BY <2>3 DEF StartShape
    <3>2. start[t].id # start[s].id
      BY <2>3 DEF StartsAlone, At, Building
    <3> QED BY <3>1, <3>2, <1>1
  <2> QED BY <2>2, <2>3, TypeParts DEF StartSteps, Building
<1>3. ASSUME NEW id \in Ids, containers[id] = start[s].cont
      PROVE  FALSE
  <2>1. IsRunning(id)
    BY <1>1, <1>3 DEF IsRunning, DockerAssumption
  <2>2. owner[containers[id]] = id
    BY <2>1 DEF EntryHeld
  <2> QED BY <1>1, <1>3, <2>1, <2>2 DEF IsRunning
<1>4. waiter[start[s].cont] \notin {"waiting", "returned"}
  BY <1>1, <1>3 DEF WaitersKnown
<1> QED BY <1>1, <1>2, <1>3, <1>4

LEMMA StartCheckInv ==
  ASSUME DockerAssumption, SerialStarts, ~DaemonLost, DockerInv, TypeOK', NEW s \in Starters, NEW id \in Ids,
         StartCheck(s, id)
  PROVE  DockerInv'
<1> USE DEF DockerInv
<1>0. /\ \A t \in Starters : At(t, "idle") \/ start[t].id # id
      /\ At(s, "idle") /\ containers[id] = NoContainer
      /\ start' \in [Starters -> StartType]
      /\ \A t \in Starters \ {s} : start'[t] = start[t]
      /\ start'[s].pc = "inspect" /\ start'[s].id = id /\ start'[s].cont = NoContainer
      /\ UNCHANGED <<containers, stdin, cancelLogs, phase, owner, logs, waiter, stops>>
  BY TypeParts DEF StartCheck, Starting, Startable, IsRunning, At, tables, daemon, goroutines,
     StartType, StartSteps, Entry
<1>1. OneName'
  BY <1>0 DEF OneName
<1>2. StartsAlone'
  BY <1>0 DEF StartsAlone, At
<1>3. StartShape'
  BY <1>0 DEF StartShape, At, Building
<1>4. EntryHeld'
  BY <1>0 DEF EntryHeld, Wired, IsRunning, At
<1>5. TablesFollow'
  BY <1>0 DEF TablesFollow
<1>6. WaitersKnown'
  BY <1>0 DEF WaitersKnown
<1>7. ServerKnown'
  BY <1>0 DEF ServerKnown, At
<1> QED BY <1>1, <1>2, <1>3, <1>4, <1>5, <1>6, <1>7

LEMMA StartFailsInv ==
  ASSUME DockerAssumption, SerialStarts, ~DaemonLost, DockerInv, TypeOK', NEW s \in Starters,
         StartFails(s)
  PROVE  DockerInv'
<1> USE DEF DockerInv
<1>0. /\ start[s].pc \in {"inspect", "create"} /\ Went(s, "idle", NoContainer)
      /\ UNCHANGED <<containers, stdin, cancelLogs, phase, owner, logs, waiter, stops>>
  BY TypeParts, StartEnds DEF StartFails, tables, daemon, goroutines
<1> USE DEF Went
<1>1. OneName'
  BY <1>0 DEF OneName
<1>2. StartsAlone'
  BY <1>0 DEF StartsAlone, At
<1>3. StartShape'
  BY <1>0 DEF StartShape, At, Building
<1>4. EntryHeld'
  BY <1>0 DEF EntryHeld, Wired, IsRunning, At
<1>5. TablesFollow'
  BY <1>0 DEF TablesFollow
<1>6. WaitersKnown'
  BY <1>0 DEF WaitersKnown
<1>7. ServerKnown'
  BY <1>0 DEF ServerKnown
<1> QED BY <1>1, <1>2, <1>3, <1>4, <1>5, <1>6, <1>7

LEMMA StartInspectInv ==
  ASSUME DockerAssumption, SerialStarts, ~DaemonLost, DockerInv, TypeOK', NEW s \in Starters,
         StartInspect(s)
  PROVE  DockerInv'
<1> USE DEF DockerInv
<1>0. /\ At(s, "inspect") /\ start[s].cont = NoContainer
      /\ UNCHANGED <<containers, stdin, cancelLogs, phase, owner, logs, waiter, stops>>
      /\ \/ \E c \in Containers :
              phase[c] # "none" /\ owner[c] = start[s].id /\ Went(s, "remove", c)
         \/ Went(s, "create", NoContainer)
  <2>1. At(s, "inspect") /\ start[s].cont = NoContainer /\ UNCHANGED <<containers, stdin, cancelLogs, phase, owner, logs, waiter, stops>>
    BY DEF StartInspect, StartShape, tables, daemon, goroutines, At
  <2>2. CASE Goto(s, "create")
    BY <2>1, <2>2, TypeParts, StartGoes DEF StartSteps
  <2>3. ASSUME NEW c \in Named(start[s].id), start' = [start EXCEPT ![s].pc = "remove", ![s].cont = c]
        PROVE  phase[c] # "none" /\ owner[c] = start[s].id /\ Went(s, "remove", c)
    BY <2>3, TypeParts, StartWent DEF StartSteps, Entry, Named
  <2> QED BY <2>1, <2>2, <2>3 DEF StartInspect, Named
<1> USE DEF Went
<1>1. OneName'
  BY <1>0 DEF OneName
<1>2. StartsAlone'
  BY <1>0 DEF StartsAlone, At
<1>3. StartShape'
  BY <1>0 DEF StartShape, At, Building
<1>4. EntryHeld'
  BY <1>0 DEF EntryHeld, Wired, IsRunning, At
<1>5. TablesFollow'
  BY <1>0 DEF TablesFollow
<1>6. WaitersKnown'
  BY <1>0 DEF WaitersKnown
<1>7. ServerKnown'
  BY <1>0 DEF ServerKnown
<1> QED BY <1>1, <1>2, <1>3, <1>4, <1>5, <1>6, <1>7

\* A Start gives up the container it removes or has created.
LEMMA DropInv ==
  ASSUME DockerAssumption, SerialStarts, ~DaemonLost, DockerInv, TypeOK', NEW s \in Starters, NEW pc \in {"idle", "create"},
         /\ start[s].pc \in {"remove", "launch", "attach"} /\ Went(s, pc, NoContainer)
         /\ \/ phase' = [phase EXCEPT ![start[s].cont] = "none"]
            \/ (phase[start[s].cont] = "running" => At(s, "remove")) /\ phase' = phase
         /\ UNCHANGED <<containers, stdin, cancelLogs, owner, logs, waiter, stops>>
  PROVE  DockerInv'
<1> USE DEF DockerInv
<1>0. /\ start[s].cont \in Containers /\ owner[start[s].cont] = start[s].id
      /\ start[s].id \in Ids /\ containers[start[s].id] = NoContainer
      /\ \A t \in Starters \ {s} : start[t].cont # start[s].cont
      /\ \A id \in Ids : containers[id] # start[s].cont
      /\ waiter[start[s].cont] \notin {"waiting", "returned"}
  BY OwnContainer
<1>a. /\ start' \in [Starters -> StartType]
      /\ \A t \in Starters \ {s} : start'[t] = start[t]
      /\ start'[s].pc = pc /\ start'[s].cont = NoContainer /\ start'[s].id = start[s].id
  BY DEF Went
<1>b. /\ \A c \in Containers \ {start[s].cont} : phase'[c] = phase[c]
      /\ phase'[start[s].cont] \in {"none", phase[start[s].cont]}
      /\ phase'[start[s].cont] = "running" => At(s, "remove")
      /\ phase' \in [Containers -> {"none", "created", "running", "exited"}]
  BY <1>0, TypeParts
<1>1. OneName'
  BY <1>0, <1>b DEF OneName
<1>2. StartsAlone'
  BY <1>0, <1>a, <1>b, TypeParts DEF StartsAlone, At
<1>3. StartShape'
  <2>1. ASSUME NEW t \in Starters \ {s} PROVE StartShape!(t)'
    <3>1. start[t].cont \in Containers => phase'[start[t].cont] = phase[start[t].cont]
      BY <1>0, <1>b
    <3> QED BY <3>1, <1>a, TypeParts DEF StartShape, At, Building
  <2>2. StartShape!(s)'
    BY <1>0, <1>a DEF StartShape, At, Building
  <2> QED BY <2>1, <2>2 DEF StartShape
<1>4. EntryHeld'
  <2>1. ASSUME NEW id \in Ids, containers[id] # NoContainer
        PROVE  EntryHeld!(id)'
    <3>1. containers[id] \in Containers /\ phase'[containers[id]] = phase[containers[id]]
      BY <1>0, <1>b, <2>1, TypeParts DEF Entry
    <3>2. \A t \in Starters : At(t, "hook") => t # s
      BY DEF At
    <3> QED BY <3>1, <3>2, <2>1, <1>a DEF EntryHeld, Wired, IsRunning, At
  <2> QED BY <2>1 DEF EntryHeld, IsRunning
<1>5. TablesFollow'
  BY <1>0, <1>a, <1>b, TypeParts DEF TablesFollow
<1>6. WaitersKnown'
  BY <1>0, <1>b DEF WaitersKnown
<1>7. ServerKnown'
  <2>1. SUFFICES ASSUME NEW c \in Containers, phase'[c] = "running"
                 PROVE  \/ containers[owner[c]] = c
                        \/ \E t \in Starters : start'[t].cont = c /\ start'[t].pc \in {"attach", "register"}
    BY DEF ServerKnown
  <2>2. phase[c] = "running" /\ (c = start[s].cont => At(s, "remove"))
    BY <1>0, <1>b, <2>1
  <2>3. CASE containers[owner[c]] = c
    BY <2>3
  <2>4. ASSUME NEW t \in Starters, start[t].cont = c, start[t].pc \in {"attach", "register"}
        PROVE  t # s
    BY <2>2, <2>4 DEF At
  <2> QED BY <2>2, <2>3, <2>4, <1>a DEF ServerKnown
<1> QED BY <1>1, <1>2, <1>3, <1>4, <1>5, <1>6, <1>7

LEMMA StartRemoveInv ==
  ASSUME DockerAssumption, SerialStarts, ~DaemonLost, DockerInv, TypeOK', NEW s \in Starters,
         StartRemove(s)
  PROVE  DockerInv'
<1>1. start' = [start EXCEPT ![s].pc = "create", ![s].cont = NoContainer]
  BY DEF StartRemove
<1>2. Went(s, "create", NoContainer)
  BY <1>1, TypeParts, StartWent DEF DockerInv, StartSteps, Entry
<1> QED
  BY <1>2, DropInv DEF StartRemove, At, tables, goroutines

LEMMA StartCreateInv ==
  ASSUME DockerAssumption, SerialStarts, ~DaemonLost, DockerInv, TypeOK', NEW s \in Starters,
         StartCreate(s)
  PROVE  DockerInv'
<1> USE DEF DockerInv
<1>0. PICK c \in Containers :
        /\ At(s, "create") /\ \A d \in Containers : phase[d] # "none" => owner[d] # start[s].id
        /\ Fresh(c) /\ Went(s, "launch", c)
        /\ phase' = [phase EXCEPT ![c] = "created"] /\ owner' = [owner EXCEPT ![c] = start[s].id]
        /\ UNCHANGED <<containers, stdin, cancelLogs, logs, waiter, stops>>
  BY TypeParts, StartWent DEF StartCreate, Named, StartSteps, Entry, tables, goroutines
<1> USE DEF Went
<1>1. OneName'
  BY <1>0, TypeParts DEF OneName, Fresh
<1>2. StartsAlone'
  BY <1>0, TypeParts DEF StartsAlone, At, Fresh
<1>3. StartShape'
  BY <1>0, TypeParts DEF StartShape, At, Building, Fresh
<1>4. EntryHeld'
  BY <1>0, TypeParts DEF EntryHeld, Wired, IsRunning, At, Fresh
<1>5. TablesFollow'
  BY <1>0, TypeParts DEF TablesFollow, Fresh
<1>6. WaitersKnown'
  BY <1>0, TypeParts DEF WaitersKnown, Fresh
<1>7. ServerKnown'
  BY <1>0, TypeParts DEF ServerKnown, At
<1> QED BY <1>1, <1>2, <1>3, <1>4, <1>5, <1>6, <1>7

LEMMA StartLaunchInv ==
  ASSUME DockerAssumption, SerialStarts, ~DaemonLost, DockerInv, TypeOK', NEW s \in Starters,
         StartLaunch(s)
  PROVE  DockerInv'
<1> USE DEF DockerInv
<1>0. At(s, "launch") /\ UNCHANGED <<containers, stdin, cancelLogs, owner, logs, waiter, stops>>
  BY DEF StartLaunch, At, tables, goroutines
<1>1. CASE Discard(s)
  BY <1>0, <1>1, TypeParts, StartEnds, DropInv DEF Discard, At
<1>2. CASE ~Discard(s)
  <2>0. /\ start[s].cont \in Containers /\ owner[start[s].cont] = start[s].id
        /\ start[s].id \in Ids /\ containers[start[s].id] = NoContainer
        /\ \A t \in Starters \ {s} : start[t].cont # start[s].cont
        /\ \A id \in Ids : containers[id] # start[s].cont
        /\ waiter[start[s].cont] = "none"
    BY <1>0, OwnContainer DEF At, StartShape, Building
  <2>1. Went(s, "attach", start[s].cont) /\ phase' = [phase EXCEPT ![start[s].cont] = "running"]
    BY <1>0, <1>2, TypeParts, StartGoes DEF StartLaunch, At, StartSteps
  <2>2. /\ start' \in [Starters -> StartType]
        /\ \A t \in Starters \ {s} : start'[t] = start[t]
        /\ start'[s].pc = "attach" /\ start'[s].cont = start[s].cont /\ start'[s].id = start[s].id
    BY <2>1 DEF Went
  <2>3. /\ \A c \in Containers \ {start[s].cont} : phase'[c] = phase[c]
        /\ phase'[start[s].cont] = "running" /\ phase[start[s].cont] # "none"
        /\ phase' \in [Containers -> {"none", "created", "running", "exited"}]
    BY <1>0, <2>0, <2>1, TypeParts DEF StartShape, At
  <2>b. OneName'
    BY <1>0, <2>0, <2>3 DEF OneName, StartShape, At
  <2>c. StartsAlone'
    BY <1>0, <2>2 DEF StartsAlone, At
  <2>d. StartShape'
    <3>1. ASSUME NEW t \in Starters \ {s} PROVE StartShape!(t)'
      <4>1. start[t].cont \in Containers => phase'[start[t].cont] = phase[start[t].cont]
        BY <2>0, <2>3
      <4> QED BY <4>1, <1>0, <2>2 DEF StartShape, At, Building
    <3>2. StartShape!(s)'
      BY <1>0, <2>0, <2>2, <2>3 DEF StartShape, At, Building
    <3> QED BY <3>1, <3>2 DEF StartShape
  <2>e. EntryHeld'
    <3>1. ASSUME NEW id \in Ids, containers[id] # NoContainer
          PROVE  EntryHeld!(id)'
      <4>1. containers[id] \in Containers /\ phase'[containers[id]] = phase[containers[id]]
        BY <2>0, <2>3, <3>1, TypeParts DEF Entry
      <4>2. \A t \in Starters : At(t, "hook") => t # s
        BY <1>0 DEF At
      <4> QED BY <4>1, <4>2, <3>1, <1>0, <2>2 DEF EntryHeld, Wired, IsRunning, At
    <3> QED BY <3>1, <1>0 DEF EntryHeld, IsRunning
  <2>f. TablesFollow'
    BY <1>0 DEF TablesFollow
  <2>g. WaitersKnown'
    BY <1>0, <2>0, <2>3 DEF WaitersKnown
  <2>h. ServerKnown'
    BY <1>0, <2>2, <2>3 DEF ServerKnown, At
  <2> QED BY <2>b, <2>c, <2>d, <2>e, <2>f, <2>g, <2>h
<1> QED BY <1>1, <1>2

LEMMA StartAttachInv ==
  ASSUME DockerAssumption, SerialStarts, ~DaemonLost, DockerInv, TypeOK', NEW s \in Starters,
         StartAttach(s)
  PROVE  DockerInv'
<1> USE DEF DockerInv
<1>0. At(s, "attach") /\ UNCHANGED <<containers, stdin, cancelLogs, owner, logs, waiter, stops>>
  BY DEF StartAttach, At, tables, goroutines
<1>1. CASE Discard(s)
  BY <1>0, <1>1, TypeParts, StartEnds, DropInv DEF Discard, At
<1>2. CASE ~Discard(s)
  <2>0. /\ start[s].cont \in Containers /\ owner[start[s].cont] = start[s].id
        /\ start[s].id \in Ids /\ containers[start[s].id] = NoContainer
        /\ \A t \in Starters \ {s} : start[t].cont # start[s].cont
        /\ \A id \in Ids : containers[id] # start[s].cont
        /\ waiter[start[s].cont] = "none"
    BY <1>0, OwnContainer DEF At, StartShape, Building
  <2>1. Went(s, "register", start[s].cont) /\ phase' = phase
    BY <1>0, <1>2, TypeParts, StartGoes DEF StartAttach, At, StartSteps
  <2>2. /\ start' \in [Starters -> StartType]
        /\ \A t \in Starters \ {s} : start'[t] = start[t]
        /\ start'[s].pc = "register" /\ start'[s].cont = start[s].cont /\ start'[s].id = start[s].id
    BY <2>1 DEF Went
  <2>3. /\ phase' = phase /\ phase[start[s].cont] \in {"running", "exited"}
        /\ phase' \in [Containers -> {"none", "created", "running", "exited"}]
    BY <1>0, <2>1, TypeParts DEF StartShape, At
  <2>b. OneName'
    BY <1>0, <2>0, <2>3 DEF OneName, StartShape, At
  <2>c. StartsAlone'
    BY <1>0, <2>2 DEF StartsAlone, At
  <2>d. StartShape'
    <3>1. ASSUME NEW t \in Starters \ {s} PROVE StartShape!(t)'
      <4>1. start[t].cont \in Containers => phase'[start[t].cont] = phase[start[t].cont]
        BY <2>0, <2>3
      <4> QED BY <4>1, <1>0, <2>2 DEF StartShape, At, Building
    <3>2. StartShape!(s)'
      BY <1>0, <2>0, <2>2, <2>3 DEF StartShape, At, Building
    <3> QED BY <3>1, <3>2 DEF StartShape
  <2>e. EntryHeld'
    <3>1. ASSUME NEW id \in Ids, containers[id] # NoContainer
          PROVE  EntryHeld!(id)'
      <4>1. containers[id] \in Containers /\ phase'[containers[id]] = phase[containers[id]]
        BY <2>0, <2>3, <3>1, TypeParts DEF Entry
      <4>2. \A t \in Starters : At(t, "hook") => t # s
        BY <1>0 DEF At
      <4> QED BY <4>1, <4>2, <3>1, <1>0, <2>2 DEF EntryHeld, Wired, IsRunning, At
    <3> QED BY <3>1, <1>0 DEF EntryHeld, IsRunning
  <2>f. TablesFollow'
    BY <1>0 DEF TablesFollow
  <2>g. WaitersKnown'
    BY <1>0, <2>0, <2>3 DEF WaitersKnown
  <2>h. ServerKnown'
    BY <1>0, <2>2, <2>3 DEF ServerKnown, At
  <2> QED BY <2>b, <2>c, <2>d, <2>e, <2>f, <2>g, <2>h
<1> QED BY <1>1, <1>2

LEMMA StartRegisterInv ==
  ASSUME DockerAssumption, SerialStarts, ~DaemonLost, DockerInv, TypeOK', NEW s \in Starters,
         StartRegister(s)
  PROVE  DockerInv'
<1> USE DEF DockerInv
<1>0. /\ At(s, "register") /\ start[s].cont \in Containers /\ owner[start[s].cont] = start[s].id
      /\ containers[start[s].id] = NoContainer /\ waiter[start[s].cont] = "none"
      /\ start[s].id \in Ids /\ Went(s, "hook", start[s].cont)
      /\ containers' = [containers EXCEPT ![start[s].id] = start[s].cont]
      /\ stdin' = [stdin EXCEPT ![start[s].id] = start[s].cont]
      /\ UNCHANGED <<cancelLogs, phase, owner, logs, waiter, stops>>
  BY TypeParts, StartGoes
  DEF StartRegister, StartShape, StartSteps, At, Building, daemon, goroutines
<1>a. start[s].cont # NoContainer
  BY <1>0 DEF DockerAssumption
<1>b. /\ start' \in [Starters -> StartType]
      /\ \A t \in Starters \ {s} : start'[t] = start[t]
      /\ start'[s].pc = "hook" /\ start'[s].cont = start[s].cont /\ start'[s].id = start[s].id
      /\ \A id \in Ids \ {start[s].id} : containers'[id] = containers[id]
      /\ containers'[start[s].id] = start[s].cont
  BY <1>0, TypeParts DEF Went
<1>c. ASSUME NEW t \in Starters \ {s}, ~At(t, "idle") PROVE start[t].id # start[s].id
  BY <1>0, <1>c DEF StartsAlone, At
<1> USE DEF Went
<1>1. OneName'
  BY <1>0, <1>a, TypeParts DEF OneName
<1>2. StartsAlone'
  BY <1>0, <1>a, TypeParts DEF StartsAlone, At
<1>3. StartShape'
  <2>1. ASSUME NEW t \in Starters \ {s} PROVE StartShape!(t)'
    BY <1>0, <1>b, <1>c, TypeParts DEF StartShape, At, Building
  <2>2. cancelLogs[start[s].id] = NoContainer
    BY <1>0 DEF TablesFollow
  <2>3. StartShape!(s)'
    BY <1>0, <1>b, <2>2 DEF StartShape, At, Building
  <2> QED BY <2>1, <2>3 DEF StartShape
<1>4. EntryHeld'
  <2>1. EntryHeld!(start[s].id)'
    BY <1>0, <1>b DEF StartShape, At
  <2>2. ASSUME NEW id \in Ids \ {start[s].id}
        PROVE  EntryHeld!(id)'
    <3>1. containers'[id] = containers[id]
      BY <1>b
    <3>2. CASE Wired(id)
      BY <3>1, <3>2, <1>0 DEF EntryHeld, Wired, IsRunning
    <3>3. ASSUME NEW t \in Starters, At(t, "hook"), start[t].cont = containers[id]
          PROVE  start'[t].pc = "hook" /\ start'[t].cont = containers'[id]
      BY <3>1, <3>3, <1>0, <1>b DEF At
    <3>4. CASE ~Wired(id)
      BY <3>1, <3>3, <3>4, <1>0 DEF EntryHeld, IsRunning, At
    <3> QED BY <3>2, <3>4
  <2> QED BY <2>1, <2>2, <1>b DEF EntryHeld
<1>5. TablesFollow'
  BY <1>0, <1>a, TypeParts DEF TablesFollow
<1>6. WaitersKnown'
  BY <1>0, <1>a, TypeParts DEF WaitersKnown
<1>7. ServerKnown'
  BY <1>0, <1>a, TypeParts DEF ServerKnown
<1> QED BY <1>1, <1>2, <1>3, <1>4, <1>5, <1>6, <1>7

LEMMA StartHookInv ==
  ASSUME DockerAssumption, SerialStarts, ~DaemonLost, DockerInv, TypeOK', NEW s \in Starters,
         StartHook(s)
  PROVE  DockerInv'
<1> USE DEF DockerInv
<1>0. /\ At(s, "hook") /\ start[s].cont \in Containers /\ owner[start[s].cont] = start[s].id
      /\ containers[start[s].id] = start[s].cont
      /\ start[s].id \in Ids /\ Went(s, "idle", NoContainer)
      /\ cancelLogs' = [cancelLogs EXCEPT ![start[s].id] = start[s].cont]
      /\ logs' = logs \cup {start[s].cont}
      /\ waiter' = [waiter EXCEPT ![start[s].cont] = "waiting"]
      /\ UNCHANGED <<containers, stdin, phase, owner, stops>>
  BY TypeParts, StartEnds
  DEF StartHook, KeepCancel, StartShape, At, Building, daemon
<1>a. start[s].cont # NoContainer
  BY <1>0 DEF DockerAssumption
<1>c. ASSUME NEW t \in Starters \ {s}, ~At(t, "idle") PROVE start[t].id # start[s].id
  BY <1>0, <1>c DEF StartsAlone, At
<1> USE DEF Went
<1>1. OneName'
  BY <1>0, <1>a, TypeParts DEF OneName
<1>2. StartsAlone'
  BY <1>0, <1>a, TypeParts DEF StartsAlone, At
<1>3. StartShape'
  <2>1. ASSUME NEW t \in Starters \ {s} PROVE StartShape!(t)'
    <3>1. start[t].pc \in Building => waiter'[start[t].cont] = waiter[start[t].cont]
      <4>1. start[t].pc \in Building => start[t].cont # start[s].cont
        BY <1>0, <1>c DEF StartShape, At, Building
      <4> QED BY <4>1, <1>0, TypeParts DEF StartShape
    <3>2. ~At(t, "idle") => cancelLogs'[start[t].id] = cancelLogs[start[t].id]
      BY <1>0, <1>c, TypeParts
    <3>3. start'[t] = start[t]
      BY <1>0
    <3> QED BY <3>1, <3>2, <3>3, <1>0 DEF StartShape, At, Building
  <2>2. StartShape!(s)'
    BY <1>0 DEF At, Building
  <2> QED BY <2>1, <2>2 DEF StartShape
<1>4. EntryHeld'
  BY <1>0, <1>a, TypeParts DEF EntryHeld, Wired, IsRunning, At
<1>5. TablesFollow'
  BY <1>0, <1>a, TypeParts DEF TablesFollow
<1>6. WaitersKnown'
  BY <1>0, <1>a, TypeParts DEF WaitersKnown
<1>7. ServerKnown'
  BY <1>0, <1>a, TypeParts DEF ServerKnown
<1> QED BY <1>1, <1>2, <1>3, <1>4, <1>5, <1>6, <1>7

LEMMA WaitReturnsInv ==
  ASSUME DockerAssumption, SerialStarts, ~DaemonLost, DockerInv, TypeOK', NEW c \in Containers,
         WaitReturns(c)
  PROVE  DockerInv'
<1> USE DEF DockerInv
<1>0. /\ waiter[c] = "waiting" /\ phase[c] # "running" /\ waiter' = [waiter EXCEPT ![c] = "returned"]
      /\ UNCHANGED <<containers, stdin, cancelLogs, phase, owner, logs, start, stops>>
  BY DEF WaitReturns, Ended, tables, daemon
<1>1. OneName'
  BY <1>0, TypeParts DEF OneName
<1>2. StartsAlone'
  BY <1>0, TypeParts DEF StartsAlone, At
<1>3. StartShape'
  BY <1>0, TypeParts DEF StartShape, At, Building
<1>4. EntryHeld'
  BY <1>0, TypeParts DEF EntryHeld, Wired, IsRunning, At
<1>5. TablesFollow'
  BY <1>0, TypeParts DEF TablesFollow
<1>6. WaitersKnown'
  BY <1>0, TypeParts DEF WaitersKnown
<1>7. ServerKnown'
  BY <1>0, TypeParts DEF ServerKnown
<1> QED BY <1>1, <1>2, <1>3, <1>4, <1>5, <1>6, <1>7

LEMMA WaitForgetsInv ==
  ASSUME DockerAssumption, SerialStarts, ~DaemonLost, DockerInv, TypeOK', NEW c \in Containers,
         WaitForgets(c)
  PROVE  DockerInv'
<1> USE DEF DockerInv
<1>0. PICK id \in Ids :
        /\ waiter[c] = "returned" /\ owner[c] = id /\ containers[id] = c /\ phase[c] # "running"
        /\ containers' = [containers EXCEPT ![id] = NoContainer]
        /\ stdin' = [stdin EXCEPT ![id] = NoContainer]
        /\ cancelLogs' = [cancelLogs EXCEPT ![id] = NoContainer]
        /\ logs' = logs \ {cancelLogs[id]} /\ cancelLogs[id] \in {c, NoContainer}
        /\ waiter' = [waiter EXCEPT ![c] = "exiting"]
        /\ UNCHANGED <<phase, owner, start, stops>>
  BY TypeParts DEF WaitForgets, DeleteEntry, WaitersKnown, TablesFollow, daemon
<1>a. c # NoContainer
  BY DEF DockerAssumption
<1>1. OneName'
  BY <1>0, <1>a, TypeParts DEF OneName
<1>2. StartsAlone'
  BY <1>0, <1>a, TypeParts DEF StartsAlone, At
<1>3. StartShape'
  BY <1>0, <1>a, TypeParts DEF StartShape, At, Building
<1>4. EntryHeld'
  BY <1>0, <1>a, TypeParts DEF EntryHeld, Wired, IsRunning, At
<1>5. TablesFollow'
  BY <1>0, <1>a, TypeParts DEF TablesFollow
<1>6. WaitersKnown'
  BY <1>0, <1>a, TypeParts DEF WaitersKnown
<1>7. ServerKnown'
  BY <1>0, <1>a, TypeParts DEF ServerKnown
<1> QED BY <1>1, <1>2, <1>3, <1>4, <1>5, <1>6, <1>7

LEMMA WaitReportsInv ==
  ASSUME DockerAssumption, SerialStarts, ~DaemonLost, DockerInv, TypeOK', NEW c \in Containers,
         WaitReports(c)
  PROVE  DockerInv'
<1> USE DEF DockerInv
<1>0. /\ waiter[c] = "exiting" /\ waiter' = [waiter EXCEPT ![c] = "none"]
      /\ UNCHANGED <<containers, stdin, cancelLogs, phase, owner, logs, start, stops>>
  BY DEF WaitReports, tables, daemon
<1>1. OneName'
  BY <1>0, TypeParts DEF OneName
<1>2. StartsAlone'
  BY <1>0, TypeParts DEF StartsAlone, At
<1>3. StartShape'
  BY <1>0, TypeParts DEF StartShape, At, Building
<1>4. EntryHeld'
  BY <1>0, TypeParts DEF EntryHeld, Wired, IsRunning, At
<1>5. TablesFollow'
  BY <1>0, TypeParts DEF TablesFollow
<1>6. WaitersKnown'
  BY <1>0, TypeParts DEF WaitersKnown
<1>7. ServerKnown'
  BY <1>0, TypeParts DEF ServerKnown
<1> QED BY <1>1, <1>2, <1>3, <1>4, <1>5, <1>6, <1>7

LEMMA StopInv ==
  ASSUME DockerAssumption, SerialStarts, ~DaemonLost, DockerInv, TypeOK', NEW id \in Ids,
         Stop(id)
  PROVE  DockerInv'
<1> USE DEF DockerInv
<1>0. /\ containers[id] \in Containers /\ stops' = stops \cup {containers[id]}
      /\ UNCHANGED <<containers, stdin, cancelLogs, phase, owner, logs, waiter, start>>
  BY TypeParts DEF Stop, IsRunning, Entry, tables, daemon, goroutines
<1>1. OneName'
  BY <1>0, TypeParts DEF OneName
<1>2. StartsAlone'
  BY <1>0, TypeParts DEF StartsAlone, At
<1>3. StartShape'
  BY <1>0, TypeParts DEF StartShape, At, Building
<1>4. EntryHeld'
  BY <1>0, TypeParts DEF EntryHeld, Wired, IsRunning, At
<1>5. TablesFollow'
  BY <1>0, TypeParts DEF TablesFollow
<1>6. WaitersKnown'
  BY <1>0, TypeParts DEF WaitersKnown
<1>7. ServerKnown'
  BY <1>0, TypeParts DEF ServerKnown
<1> QED BY <1>1, <1>2, <1>3, <1>4, <1>5, <1>6, <1>7

\* A container ends, by itself or stopped.
LEMMA DaemonInv ==
  ASSUME DockerAssumption, SerialStarts, ~DaemonLost, DockerInv, TypeOK', NEW c \in Containers,
         StopContainer(c) \/ Exit(c)
  PROVE  DockerInv'
<1> USE DEF DockerInv
<1>0. /\ phase' = phase \/ (phase[c] = "running" /\ phase' = [phase EXCEPT ![c] = "exited"])
      /\ stops' \subseteq stops
      /\ UNCHANGED <<containers, stdin, cancelLogs, owner, logs, waiter, start>>
  BY TypeParts DEF StopContainer, Exit, tables, goroutines
<1>1. OneName'
  BY <1>0, TypeParts DEF OneName
<1>2. StartsAlone'
  BY <1>0, TypeParts DEF StartsAlone, At
<1>3. StartShape'
  BY <1>0, TypeParts DEF StartShape, At, Building
<1>4. EntryHeld'
  <2>1. ASSUME NEW id \in Ids, containers[id] # NoContainer
        PROVE  EntryHeld!(id)'
    <3>1. phase[containers[id]] \in {"running", "exited"}
      BY <2>1 DEF EntryHeld, IsRunning
    <3>2. phase'[containers[id]] \in {"running", "exited"}
      BY <3>1, <2>1, <1>0, TypeParts DEF Entry
    <3> QED BY <3>2, <2>1, <1>0 DEF EntryHeld, Wired, IsRunning, At
  <2> QED BY <2>1, <1>0 DEF EntryHeld, IsRunning
<1>5. TablesFollow'
  BY <1>0, TypeParts DEF TablesFollow
<1>6. WaitersKnown'
  BY <1>0, TypeParts DEF WaitersKnown
<1>7. ServerKnown'
  BY <1>0, TypeParts DEF ServerKnown
<1> QED BY <1>1, <1>2, <1>3, <1>4, <1>5, <1>6, <1>7

\* After a crash, the tables name the containers that run, each under its Cell.
LEMMA CrashRecovers ==
  ASSUME DockerAssumption, ~DaemonLost, TypeOK, OneName, Crash,
         NEW found, found = {c \in Containers : phase[c] = "running"}
  PROVE  /\ containers' \in [Ids -> Entry] /\ stdin' \in [Ids -> Entry] /\ cancelLogs' = containers'
         /\ \A id \in Ids : /\ containers'[id] # NoContainer
                                 => containers'[id] \in found /\ owner[containers'[id]] = id
                            /\ stdin'[id] \in {containers'[id], NoContainer}
         /\ \A c \in found : containers'[owner[c]] = c
         /\ logs' = found /\ waiter' = [c \in Containers |-> IF c \in found THEN "waiting" ELSE "none"]
         /\ start' = [s \in Starters |-> NoStart(start[s].id)] /\ stops' = {}
         /\ UNCHANGED <<phase, owner>>
<1> DEFINE Recovered(id) == IF \E c \in found : owner[c] = id
                            THEN CHOOSE c \in found : owner[c] = id ELSE NoContainer
<1>0. \A c \in found : c \in Containers /\ owner[c] \in Ids /\ c # NoContainer
  BY TypeParts DEF DockerAssumption
<1>1. \A id \in Ids : /\ Recovered(id) \in Entry
                      /\ Recovered(id) # NoContainer => Recovered(id) \in found /\ owner[Recovered(id)] = id
  BY DEF Entry
<1>2. \A c \in found : Recovered(owner[c]) = c
  BY <1>0, <1>1 DEF OneName
<1>3. found = {c \in Containers : phase[c] = "running" /\ owner[c] \in Ids}
  BY TypeParts
<1>4. Recover(found)
  BY <1>3 DEF Crash
<1>5. /\ containers' = [id \in Ids |-> Recovered(id)] /\ cancelLogs' = [id \in Ids |-> Recovered(id)]
      /\ \E attached \in SUBSET Ids :
           stdin' = [id \in Ids |-> IF id \in attached THEN Recovered(id) ELSE NoContainer]
      /\ logs' = found /\ waiter' = [c \in Containers |-> IF c \in found THEN "waiting" ELSE "none"]
  BY <1>4 DEF Recover
<1> HIDE DEF Recovered
<1>6. stdin' \in [Ids -> Entry] /\ \A id \in Ids : stdin'[id] \in {Recovered(id), NoContainer}
  BY <1>1, <1>5 DEF Entry
<1>7. /\ start' = [s \in Starters |-> NoStart(start[s].id)] /\ stops' = {}
      /\ UNCHANGED <<phase, owner>>
  BY DEF Crash, daemon
<1> QED BY <1>0, <1>1, <1>2, <1>5, <1>6, <1>7

LEMMA CrashInv ==
  ASSUME DockerAssumption, SerialStarts, ~DaemonLost, DockerInv, TypeOK',
         Crash
  PROVE  DockerInv'
<1> USE DEF DockerInv
<1> DEFINE found == {c \in Containers : phase[c] = "running"}
<1>a. \A c \in found : owner[c] \in Ids /\ c # NoContainer
  BY TypeParts DEF DockerAssumption
<1>0. /\ containers' \in [Ids -> Entry] /\ stdin' \in [Ids -> Entry] /\ cancelLogs' = containers'
      /\ \A id \in Ids : /\ containers'[id] # NoContainer => containers'[id] \in found /\ owner[containers'[id]] = id
                         /\ stdin'[id] \in {containers'[id], NoContainer}
      /\ \A c \in found : containers'[owner[c]] = c
      /\ logs' = found /\ waiter' = [c \in Containers |-> IF c \in found THEN "waiting" ELSE "none"]
      /\ start' = [s \in Starters |-> NoStart(start[s].id)] /\ stops' = {}
      /\ UNCHANGED <<phase, owner>>
  BY CrashRecovers
<1>1. OneName'
  BY <1>0, <1>a, TypeParts DEF OneName
<1>2. StartsAlone'
  BY <1>0, <1>a, TypeParts DEF StartsAlone, At, NoStart, StartSteps, Building
<1>3. StartShape'
  BY <1>0, <1>a, TypeParts DEF StartShape, At, Building, NoStart, StartSteps, Building
<1>4. EntryHeld'
  BY <1>0, <1>a, TypeParts DEF EntryHeld, Wired, IsRunning, At, NoStart, StartSteps, Building
<1>5. TablesFollow'
  BY <1>0, <1>a, TypeParts DEF TablesFollow
<1>6. WaitersKnown'
  BY <1>0, <1>a, TypeParts DEF WaitersKnown
<1>7. ServerKnown'
  BY <1>0, <1>a, TypeParts DEF ServerKnown, NoStart, StartSteps, Building
<1> QED BY <1>1, <1>2, <1>3, <1>4, <1>5, <1>6, <1>7

LEMMA DockerInvInit == ASSUME DockerAssumption PROVE Init => DockerInv
<1> SUFFICES ASSUME Init PROVE DockerInv
  OBVIOUS
<1>1. PICK id \in Ids : start = [s \in Starters |-> NoStart(id)]
  BY DEF Init
<1>2. \A s \in Starters : start[s].pc = "idle" /\ start[s].cont = NoContainer
  BY <1>1 DEF NoStart
<1> QED
  BY <1>2, TypeInit
  DEF Init, DockerInv, OneName, StartsAlone, StartShape, EntryHeld, TablesFollow, WaitersKnown,
      ServerKnown, Empty, At, IsRunning, Building

LEMMA DockerInvStep ==
  ASSUME DockerAssumption, SerialStarts, ~DaemonLost, DockerInv, [Next]_vars
  PROVE  DockerInv'
<1>0. TypeOK'
  <2>1. StartHolds
    BY DEF DockerInv, StartShape, StartHolds
  <2> QED BY <2>1, TypeStep DEF DockerInv
<1>1. CASE UNCHANGED vars
  BY <1>1 DEF DockerInv, TypeOK, OneName, StartsAlone, StartShape, EntryHeld, Wired, TablesFollow,
     WaitersKnown, ServerKnown, At, IsRunning, vars, tables, daemon, goroutines
<1>2. ASSUME NEW s \in Starters, StartStep(s)
      PROVE  DockerInv'
  BY <1>0, <1>2, StartFailsInv, StartInspectInv, StartRemoveInv, StartCreateInv, StartLaunchInv,
     StartAttachInv, StartRegisterInv, StartHookInv DEF StartStep
<1> QED
  BY <1>0, <1>1, <1>2, StartCheckInv, StopInv, WaitReturnsInv, WaitForgetsInv, WaitReportsInv, DaemonInv,
     CrashInv DEF Next

LEMMA DockerInvariant ==
  ASSUME DockerAssumption, SerialStarts, ~DaemonLost
  PROVE  Spec => []DockerInv
<1>1. Init => DockerInv
  BY DockerInvInit
<1>2. DockerInv /\ [Next]_vars => DockerInv'
  BY DockerInvStep
<1> QED
  BY <1>1, <1>2, PTL DEF Spec

\* The tables, the Starts and what waits for the containers are type correct, however
\* Starts overlap and whatever the daemon answers (container.go:20-190).
THEOREM DockerTyped == Spec => []TypeOK
<1>1. Init => TypeOK /\ StartHolds
  BY TypeInit
<1>2. TypeOK /\ StartHolds /\ [Next]_vars => (TypeOK /\ StartHolds)'
  BY TypeStep
<1> QED
  BY <1>1, <1>2, PTL DEF Spec

\* A running container is its Cell's entry or about to be: no game server runs that
\* Stop answers "not running" to (container.go:173).
THEOREM ServersAreKnown ==
  ASSUME SerialStarts, ~DaemonLost
  PROVE  Spec => []ServerKnown
<1>1. DockerInv => ServerKnown
  BY DEF DockerInv
<1> QED
  BY <1>1, DockerAssumption, DockerInvariant, PTL

\* Commands reach the running container of the Cell, and the end of it cancels its own
\* log stream (container.go:149-157).
THEOREM ConsolesAreWired ==
  ASSUME SerialStarts, ~DaemonLost
  PROVE  Spec => []ConsoleWired
<1>1. DockerInv => ConsoleWired
  BY DEF DockerInv, ConsoleWired, EntryHeld, Wired, TablesFollow
<1> QED
  BY <1>1, DockerAssumption, DockerInvariant, PTL

\* removeExistingContainer never removes the container the tables name: between the
\* check of the table and the removal no other Start has made an entry (container.go:22).
THEOREM RemovalsSpareEntries ==
  ASSUME SerialStarts, ~DaemonLost
  PROVE  Spec => RemovesUnknownOnly
<1>1. DockerInv => (\A s \in Starters : StartRemove(s) => containers[start[s].id] # start[s].cont)
  BY OwnContainer, DockerAssumption DEF StartRemove, At
<1>2. DockerInv /\ [Next]_vars
        => [\A s \in Starters : StartRemove(s) => containers[start[s].id] # start[s].cont]_vars
  BY <1>1
<1> QED
  BY <1>2, DockerAssumption, DockerInvariant, PTL DEF Spec, RemovesUnknownOnly

\* Somebody is to take each entry out: the goroutine that waits for its container, or the
\* Start that is about to leave that goroutine behind.
EntryAwaited == \A id \in Ids : IsRunning(id) =>
  \/ waiter[containers[id]] \in {"waiting", "returned"} /\ owner[containers[id]] = id
  \/ \E s \in Starters : At(s, "hook") /\ start[s].cont = containers[id] /\ start[s].id = id

\* An ended server is never left in the table for want of a goroutine that will forget it:
\* the part of KeepsPromise that is no matter of fairness (container.go:136-158).
THEOREM EntriesAreAwaited ==
  ASSUME SerialStarts, ~DaemonLost
  PROVE  Spec => []EntryAwaited
<1>1. DockerInv => EntryAwaited
  BY DEF DockerInv, EntryAwaited, EntryHeld, Wired, StartShape, At, Building
<1> QED
  BY <1>1, DockerAssumption, DockerInvariant, PTL

\* The waiting goroutine clears three tables by Cell ID; what it finds there is its own
\* container, that container's stdin and its log stream, and the container has ended
\* (container.go:145-157).
ForgetsOwnContainer(c) ==
  /\ containers[owner[c]] = c /\ cancelLogs[owner[c]] = c /\ c \in logs
  /\ stdin[owner[c]] \in {c, NoContainer}
  /\ phase[c] # "running"

THEOREM WaitersForgetTheirOwn ==
  ASSUME SerialStarts, ~DaemonLost
  PROVE  Spec => [][\A c \in Containers : WaitForgets(c) => ForgetsOwnContainer(c)]_vars
<1>1. ASSUME DockerInv, NEW c \in Containers, WaitForgets(c)
      PROVE  ForgetsOwnContainer(c)
  <2>1. /\ waiter[c] = "returned" /\ owner[c] \in Ids
        /\ containers[owner[c]] = c /\ phase[c] # "running" /\ IsRunning(owner[c])
    BY <1>1, DockerAssumption DEF WaitForgets, DockerInv, WaitersKnown, TypeOK, IsRunning
  <2>2. ~\E s \in Starters : At(s, "hook") /\ start[s].cont = c
    BY <1>1, <2>1 DEF DockerInv, StartShape, At, Building
  <2>3. Wired(owner[c]) /\ {stdin[owner[c]]} \subseteq {c, NoContainer}
    BY <1>1, <2>1, <2>2 DEF DockerInv, EntryHeld, TablesFollow
  <2> QED
    BY <2>1, <2>3 DEF ForgetsOwnContainer, Wired
<1>2. DockerInv /\ [Next]_vars
        => [\A c \in Containers : WaitForgets(c) => ForgetsOwnContainer(c)]_vars
  BY <1>1
<1> QED
  BY <1>2, DockerAssumption, DockerInvariant, PTL DEF Spec

-----------------------------------------------------------------------------
\* What CellRuntime sees.
AliveCells ==
  {id \in Ids : IsRunning(id) /\ (phase[containers[id]] = "running" \/ waiter[containers[id]] = "none")}
KnownCells == {id \in Ids : IsRunning(id)}
OwingCells == {id \in Ids : \E c \in Containers : waiter[c] = "exiting" /\ owner[c] = id}

LEMMA Unseen ==
  ASSUME AliveCells' = AliveCells, KnownCells' = KnownCells, OwingCells' = OwingCells
  PROVE  UNCHANGED Promise!vars
  BY DEF Promise!vars, AliveCells, KnownCells, OwingCells

LEMMA EndSeen ==
  ASSUME NEW id \in AliveCells, AliveCells' \in {AliveCells, AliveCells \ {id}},
         KnownCells' = KnownCells, OwingCells' = OwingCells
  PROVE  [Promise!Next]_(Promise!vars)
<1>1. CASE AliveCells' = AliveCells
  BY <1>1, Unseen
<1>2. CASE AliveCells' = AliveCells \ {id}
  <2>1. Promise!End(id)
    BY <1>2 DEF Promise!End, AliveCells, KnownCells, OwingCells
  <2>2. id \in Ids
    BY DEF AliveCells
  <2> QED BY <2>1, <2>2 DEF Promise!Next
<1> QED BY <1>1, <1>2

\* A Start that has not registered its container yet is not seen.
LEMMA StartUnseen ==
  ASSUME DockerAssumption, DockerInv, NEW s \in Starters,
         \/ \E id \in Ids : StartCheck(s, id)
         \/ StartFails(s) \/ StartInspect(s) \/ StartRemove(s) \/ StartCreate(s)
         \/ StartLaunch(s) \/ StartAttach(s)
  PROVE  UNCHANGED Promise!vars
<1> USE DEF DockerInv
<1>1. CASE (\E id \in Ids : StartCheck(s, id)) \/ StartFails(s) \/ StartInspect(s)
  <2>1. UNCHANGED <<containers, phase, owner, waiter>>
    BY <1>1 DEF StartCheck, StartFails, StartInspect, tables, daemon, goroutines
  <2> QED BY <2>1, Unseen DEF AliveCells, KnownCells, OwingCells, IsRunning
<1>2. CASE StartRemove(s) \/ StartLaunch(s) \/ StartAttach(s)
  <2>1. UNCHANGED <<containers, owner, waiter>>
    BY <1>2 DEF StartRemove, StartLaunch, StartAttach, tables, goroutines
  <2>2. \A id \in Ids : containers[id] # start[s].cont
    BY <1>2, OwnContainer DEF StartRemove, StartLaunch, StartAttach, At
  <2>3. \A c \in Containers : c # start[s].cont => phase'[c] = phase[c]
    BY <1>2, TypeParts DEF StartRemove, StartLaunch, StartAttach, Discard
  <2>4. \A id \in Ids : IsRunning(id) => phase'[containers[id]] = phase[containers[id]]
    BY <2>2, <2>3, TypeParts DEF IsRunning, Entry
  <2> QED BY <2>1, <2>4, Unseen DEF AliveCells, KnownCells, OwingCells, IsRunning
<1>3. CASE StartCreate(s)
  <2>1. PICK c \in Containers :
          /\ Fresh(c) /\ phase' = [phase EXCEPT ![c] = "created"]
          /\ owner' = [owner EXCEPT ![c] = start[s].id] /\ UNCHANGED <<containers, waiter>>
    BY <1>3 DEF StartCreate, tables, goroutines
  <2>2. \A id \in Ids : IsRunning(id) => phase'[containers[id]] = phase[containers[id]]
    BY <2>1, TypeParts DEF Fresh
  <2>3. \A d \in Containers : waiter[d] = "exiting" => owner'[d] = owner[d]
    BY <2>1, TypeParts DEF Fresh
  <2> QED BY <2>1, <2>2, <2>3, Unseen DEF AliveCells, KnownCells, OwingCells, IsRunning
<1> QED BY <1>1, <1>2, <1>3

\* Every step of the Docker runtime is a step CellRuntime allows of the Cell concerned, or
\* one its clients cannot see.
LEMMA StepKeepsPromise ==
  ASSUME DockerAssumption, SerialStarts, ~DaemonLost, DockerInv, [Next]_vars
  PROVE  [Promise!Next]_(Promise!vars)
<1> USE DEF DockerInv
<1>0. \A id \in Ids : containers[id] # NoContainer
        => /\ containers[id] \in Containers /\ owner[containers[id]] = id
           /\ waiter[containers[id]] # "exiting"
  BY TypeParts DEF IsRunning, Entry, EntryHeld, Wired, StartShape, At, Building
<1>1. CASE UNCHANGED vars
  <2>1. UNCHANGED <<containers, phase, owner, waiter>>
    BY <1>1 DEF vars, tables, daemon, goroutines
  <2> QED BY <2>1, Unseen DEF AliveCells, KnownCells, OwingCells, IsRunning
<1>2. ASSUME NEW s \in Starters, StartStep(s) \/ \E id \in Ids : StartCheck(s, id)
      PROVE  [Promise!Next]_(Promise!vars)
  <2>1. CASE StartRegister(s)
    <3>1. PICK id \in Ids, c \in Containers :
            /\ containers[id] = NoContainer /\ waiter[c] = "none" /\ c # NoContainer
            /\ containers' = [containers EXCEPT ![id] = c] /\ UNCHANGED <<phase, owner, waiter>>
      BY <2>1, OwnContainer DEF StartRegister, StartShape, At, Building, DockerAssumption, daemon, goroutines
    <3>2. \A d \in Ids : containers'[d] = IF d = id THEN c ELSE containers[d]
      BY <3>1, TypeParts
    <3>3. id \notin KnownCells /\ KnownCells' = KnownCells \cup {id}
      BY <3>1, <3>2 DEF KnownCells, IsRunning
    <3>4. AliveCells' = AliveCells \cup {id}
      BY <3>1, <3>2 DEF AliveCells, IsRunning
    <3>5. OwingCells' = OwingCells
      BY <3>1 DEF OwingCells
    <3>6. Promise!Start(id)
      BY <3>3, <3>4, <3>5 DEF Promise!Start, AliveCells, KnownCells, OwingCells
    <3> QED BY <3>6 DEF Promise!Next
  <2>2. CASE StartHook(s)
    <3>0. /\ start[s].pc = "hook" /\ start[s].cont \in Containers
          /\ containers[start[s].id] = start[s].cont /\ owner[start[s].cont] = start[s].id
          /\ waiter[start[s].cont] = "none" /\ start[s].id \in Ids
      BY <2>2, TypeParts DEF StartHook, StartShape, At, Building
    <3>1. PICK id \in Ids, c \in Containers :
            /\ containers[id] = c /\ owner[c] = id /\ waiter[c] = "none" /\ c # NoContainer
            /\ waiter' = [waiter EXCEPT ![c] = "waiting"] /\ UNCHANGED <<containers, phase, owner>>
      BY <2>2, <3>0 DEF StartHook, DockerAssumption, daemon
    <3>2. id \in AliveCells /\ KnownCells' = KnownCells
      BY <3>1 DEF AliveCells, KnownCells, IsRunning
    <3>3. AliveCells' \in {AliveCells, AliveCells \ {id}}
      <4>1. \A d \in Ids \ {id} : containers[d] # NoContainer => waiter'[containers[d]] = waiter[containers[d]]
        BY <3>1, <1>0, TypeParts
      <4> QED BY <3>1, <4>1 DEF AliveCells, IsRunning
    <3>4. OwingCells' = OwingCells
      BY <3>1, TypeParts DEF OwingCells
    <3> QED BY <3>2, <3>3, <3>4, EndSeen
  <2>3. CASE ~StartRegister(s) /\ ~StartHook(s)
    BY <1>2, <2>3, StartUnseen DEF StartStep
  <2> QED BY <2>1, <2>2, <2>3
<1>3. ASSUME NEW id \in Ids, Stop(id)
      PROVE  [Promise!Next]_(Promise!vars)
  <2>1. UNCHANGED <<containers, phase, owner, waiter>>
    BY <1>3 DEF Stop, tables, daemon, goroutines
  <2> QED BY <2>1, Unseen DEF AliveCells, KnownCells, OwingCells, IsRunning
<1>4. ASSUME NEW c \in Containers, WaitReturns(c)
      PROVE  [Promise!Next]_(Promise!vars)
  <2>1. /\ waiter[c] = "waiting" /\ phase[c] # "running"
        /\ waiter' = [waiter EXCEPT ![c] = "returned"] /\ UNCHANGED <<containers, phase, owner>>
    BY <1>4 DEF WaitReturns, Ended, tables, daemon
  <2>2. AliveCells' = AliveCells
    BY <2>1, <1>0, TypeParts DEF AliveCells, IsRunning
  <2>3. OwingCells' = OwingCells
    BY <2>1, TypeParts DEF OwingCells
  <2>4. KnownCells' = KnownCells
    BY <2>1 DEF KnownCells, IsRunning
  <2> QED BY <2>2, <2>3, <2>4, Unseen
<1>5. ASSUME NEW c \in Containers, WaitForgets(c)
      PROVE  [Promise!Next]_(Promise!vars)
  <2>1. PICK id \in Ids :
          /\ owner[c] = id /\ containers[id] = c /\ waiter[c] = "returned" /\ phase[c] # "running"
          /\ c # NoContainer /\ containers' = [containers EXCEPT ![id] = NoContainer]
          /\ waiter' = [waiter EXCEPT ![c] = "exiting"] /\ UNCHANGED <<phase, owner>>
    BY <1>5, TypeParts DEF WaitForgets, DeleteEntry, WaitersKnown, DockerAssumption, daemon
  <2>2. \A d \in Ids : containers'[d] = IF d = id THEN NoContainer ELSE containers[d]
    BY <2>1, TypeParts
  <2>3. id \in KnownCells \ AliveCells /\ KnownCells' = KnownCells \ {id}
    BY <2>1, <2>2 DEF KnownCells, AliveCells, IsRunning
  <2>4. AliveCells' = AliveCells
    <3>1. \A d \in Ids \ {id} : containers[d] # NoContainer => waiter'[containers[d]] = waiter[containers[d]]
      BY <2>1, <1>0, TypeParts
    <3> QED BY <2>1, <2>2, <2>3, <3>1 DEF AliveCells, IsRunning
  <2>5. OwingCells' = OwingCells \cup {id}
    BY <2>1, TypeParts DEF OwingCells
  <2>6. Promise!Forget(id)
    BY <2>3, <2>4, <2>5 DEF Promise!Forget, AliveCells, KnownCells, OwingCells
  <2> QED BY <2>6 DEF Promise!Next
<1>6. ASSUME NEW c \in Containers, WaitReports(c)
      PROVE  [Promise!Next]_(Promise!vars)
  <2>1. PICK id \in Ids :
          /\ owner[c] = id /\ waiter[c] = "exiting"
          /\ waiter' = [waiter EXCEPT ![c] = "none"] /\ UNCHANGED <<containers, phase, owner>>
    BY <1>6, TypeParts DEF WaitReports, tables, daemon
  <2>2. AliveCells' = AliveCells
    BY <2>1, <1>0, TypeParts DEF AliveCells, IsRunning
  <2>3. KnownCells' = KnownCells
    BY <2>1 DEF KnownCells, IsRunning
  <2>4. id \in OwingCells /\ OwingCells' \in {OwingCells, OwingCells \ {id}}
    BY <2>1, TypeParts DEF OwingCells
  <2>5. Promise!Report(id)
    BY <2>2, <2>3, <2>4 DEF Promise!Report, AliveCells, KnownCells, OwingCells
  <2> QED BY <2>5 DEF Promise!Next
<1>7. ASSUME NEW c \in Containers, StopContainer(c) \/ Exit(c)
      PROVE  [Promise!Next]_(Promise!vars)
  <2>1. /\ phase' = phase \/ (phase[c] = "running" /\ phase' = [phase EXCEPT ![c] = "exited"])
        /\ UNCHANGED <<containers, owner, waiter>>
    BY <1>7, TypeParts DEF StopContainer, Exit, tables, goroutines
  <2>2. KnownCells' = KnownCells /\ OwingCells' = OwingCells
    BY <2>1 DEF KnownCells, OwingCells, IsRunning
  <2>3. PICK id \in Ids : id = owner[c]
    BY TypeParts
  <2>4. \A d \in Ids \ {id} : containers[d] # NoContainer => phase'[containers[d]] = phase[containers[d]]
    BY <2>1, <2>3, <1>0, TypeParts
  <2>5. CASE id \in AliveCells
    <3>1. AliveCells' \in {AliveCells, AliveCells \ {id}}
      BY <2>1, <2>4, <2>5 DEF AliveCells, IsRunning
    <3> QED BY <2>2, <2>5, <3>1, EndSeen
  <2>6. CASE id \notin AliveCells
    <3>1. containers[id] # NoContainer /\ phase'[containers[id]] = "running" => phase[containers[id]] = "running"
      BY <2>1, <1>0, TypeParts
    <3>2. AliveCells' = AliveCells
      BY <2>1, <2>4, <2>6, <3>1 DEF AliveCells, IsRunning
    <3> QED BY <2>2, <3>2, Unseen
  <2> QED BY <2>5, <2>6
<1>8. CASE Crash
  <2> DEFINE found == {c \in Containers : phase[c] = "running"}
  <2>1. /\ \A id \in Ids : containers'[id] # NoContainer => containers'[id] \in found
        /\ waiter' = [c \in Containers |-> IF c \in found THEN "waiting" ELSE "none"]
        /\ UNCHANGED phase
    BY <1>8, CrashRecovers
  <2>2. AliveCells' = KnownCells'
    BY <2>1 DEF AliveCells, KnownCells, IsRunning
  <2>3. OwingCells' = {}
    BY <2>1 DEF OwingCells
  <2>4. KnownCells' \in SUBSET Ids
    BY DEF KnownCells
  <2>5. Promise!Crash
    BY <2>2, <2>3, <2>4 DEF Promise!Crash, AliveCells, KnownCells, OwingCells
  <2> QED BY <2>5 DEF Promise!Next
<1> QED
  BY <1>1, <1>2, <1>3, <1>4, <1>5, <1>6, <1>7, <1>8 DEF Next

\* The safety half of KeepsPromise: Docker starts, ends, forgets and reports instances as
\* the process runtime does.  Its fairness half is left to TLC.
THEOREM DockerImplementsCellRuntime ==
  ASSUME SerialStarts, ~DaemonLost
  PROVE  Spec => Promise!Init /\ [][Promise!Next]_(Promise!vars)
<1>1. Init => Promise!Init
  BY DEF Init, Promise!Init, IsRunning, Empty
<1>2. DockerInv /\ [Next]_vars => [Promise!Next]_(Promise!vars)
  BY StepKeepsPromise, DockerAssumption
<1> QED
  BY <1>1, <1>2, DockerAssumption, DockerInvariant, PTL DEF Spec
=============================================================================
