-------------------------- MODULE CellManagerProofs --------------------------
(***************************************************************************)
(* For any number of Cells, requests, allocations and definitions: the     *)
(* cell manager is type correct; if the panel serialises the Creates,      *)
(* Deletes and Reinstalls of an ID as SerialCreates says, the disk fails   *)
(* only under Create and the wiping of a Reinstall, and no crash comes     *)
(* between that wiping and its end, memory and disk agree on every settled *)
(* Cell and no Cell loses its directory; if the disk never fails under     *)
(* UpdateDefinition, no reservation leaks; and if nobody deletes or updates *)
(* a Cell that is being started, what runs is its current definition.      *)
(***************************************************************************)
EXTENDS CellManager, TLAPS

AllSteps == {"stat", "mkdir", "save", "undo", "insert", "unlink", "rmdir", "check",
             "prepare", "announce", "launch", "wipe", "recreate", "idle", "persist",
             "install"}

LEMMA StepsEnumerated == Steps = AllSteps
BY DEF Steps, AllSteps, CreateSteps, DeleteSteps, StartSteps, ReinstallSteps

\* Every variable of the cell manager keeps its type, and a request in flight
\* names a Cell and, where it needs one, a definition.
THEOREM TypeCorrect == Spec => []TypeOK
<1> USE CellManagerAssumption, StepsEnumerated
<1>1. Init => TypeOK
  BY DEF Init, TypeOK, NoRequest, AllSteps, CreateSteps, StartSteps
<1>2. TypeOK /\ [Next]_vars => TypeOK'
  <2> SUFFICES ASSUME TypeOK, [Next]_vars
               PROVE  TypeOK'
    OBVIOUS
  <2> USE DEF TypeOK, AllSteps, CreateSteps, DeleteSteps, StartSteps, store, allocations,
             Begin, At, Goto, Finish, NoRequest, Known
  <2>1. ASSUME NEW r \in Reqs, NEW id \in Ids, NEW def \in Defs, CreateLookup(r, id, def)
        PROVE  TypeOK'
    BY <2>1 DEF CreateLookup
  <2>2. ASSUME NEW r \in Reqs, NEW id \in Ids, NEW def \in Defs, UpdateBegin(r, id, def)
        PROVE  TypeOK'
    BY <2>2 DEF UpdateBegin, Replace
  <2>3. ASSUME NEW r \in Reqs, NEW id \in Ids, DeleteBegin(r, id)
        PROVE  TypeOK'
    BY <2>3 DEF DeleteBegin
  <2>4. ASSUME NEW r \in Reqs, NEW id \in Ids, StartCopy(r, id)
        PROVE  TypeOK'
    BY <2>4 DEF StartCopy
  <2>5. ASSUME NEW r \in Reqs, NEW id \in Ids, ReinstallBegin(r, id)
        PROVE  TypeOK'
    BY <2>5 DEF ReinstallBegin
  <2>6. ASSUME NEW r \in Reqs, CreateStat(r)
        PROVE  TypeOK'
    BY <2>6 DEF CreateStat
  <2>7. ASSUME NEW r \in Reqs, CreateMkdir(r)
        PROVE  TypeOK'
    <3>1. /\ req[r].pc = "mkdir" /\ req[r].id \in Ids
          /\ dirs' \subseteq Ids /\ used' \subseteq Allocs
          /\ req' = [req EXCEPT ![r].pc = "save"] \/ req' = [req EXCEPT ![r] = NoRequest]
          /\ UNCHANGED <<cells, config, allowed, running>>
      BY <2>7 DEF CreateMkdir, MakeDir
    <3>2. CASE req' = [req EXCEPT ![r].pc = "save"]
      BY <3>1, <3>2
    <3>3. CASE req' = [req EXCEPT ![r] = NoRequest]
      BY <3>1, <3>3
    <3> QED BY <3>1, <3>2, <3>3
  <2>8. ASSUME NEW r \in Reqs, CreateSave(r)
        PROVE  TypeOK'
    BY <2>8 DEF CreateSave
  <2>9. ASSUME NEW r \in Reqs, CreateUndo(r)
        PROVE  TypeOK'
    BY <2>9 DEF CreateUndo
  <2>10. ASSUME NEW r \in Reqs, CreateInsert(r)
         PROVE  TypeOK'
    BY <2>10 DEF CreateInsert
  <2>11. ASSUME NEW r \in Reqs, DeleteUnlink(r)
         PROVE  TypeOK'
    BY <2>11 DEF DeleteUnlink, Unlink
  <2>12. ASSUME NEW r \in Reqs, DeleteRmdir(r)
         PROVE  TypeOK'
    BY <2>12 DEF DeleteRmdir
  <2>13. ASSUME NEW r \in Reqs, UpdatePersist(r)
         PROVE  TypeOK'
    BY <2>13 DEF UpdatePersist, Replace
  <2>14. ASSUME NEW r \in Reqs, StartCheck(r)
         PROVE  TypeOK'
    BY <2>14 DEF StartCheck
  <2>15. ASSUME NEW r \in Reqs, StartPrepare(r)
         PROVE  TypeOK'
    BY <2>15 DEF StartPrepare, MakeDir
  <2>16. ASSUME NEW r \in Reqs, StartAnnounce(r)
         PROVE  TypeOK'
    BY <2>16 DEF StartAnnounce
  <2>17. ASSUME NEW r \in Reqs, StartLaunch(r)
         PROVE  TypeOK'
    BY <2>17 DEF StartLaunch
  <2>18. ASSUME NEW r \in Reqs, ReinstallWipe(r)
         PROVE  TypeOK'
    BY <2>18 DEF ReinstallWipe
  <2>19. ASSUME NEW r \in Reqs, ReinstallRecreate(r)
         PROVE  TypeOK'
    BY <2>19 DEF ReinstallRecreate, MakeDir
  <2>20. ASSUME NEW id \in Ids, Exit(id)
         PROVE  TypeOK'
    BY <2>20 DEF Exit
  <2>21. ASSUME NEW new \in SUBSET Allocs, Reconfigure(new)
         PROVE  TypeOK'
    BY <2>21 DEF Reconfigure
  <2>22. CASE Crash
    BY <2>22 DEF Crash, Loaded, AllocsOf
  <2>23. CASE UNCHANGED vars
    BY <2>23 DEF vars
  <2>24. ASSUME NEW r \in Reqs, NEW id \in Ids, InstallBegin(r, id)
         PROVE  TypeOK'
    BY <2>24 DEF InstallBegin
  <2>25. ASSUME NEW r \in Reqs, InstallStep(r)
         PROVE  TypeOK'
    BY <2>25 DEF InstallStep, MakeDir
  <2> HIDE DEF TypeOK
  <2> QED
    BY <2>1, <2>2, <2>3, <2>4, <2>5, <2>6, <2>7, <2>8, <2>9, <2>10, <2>11, <2>12, <2>13,
       <2>14, <2>15, <2>16, <2>17, <2>18, <2>19, <2>20, <2>21, <2>22, <2>23, <2>24, <2>25
    DEF Next, RequestStep
<1> QED
  BY <1>1, <1>2, PTL DEF Spec

-----------------------------------------------------------------------------
\* The requests at some step of an operation on a Cell.
Busy(r, id, steps) == req[r].pc \in steps /\ req[r].id = id

\* Create has found the directory free; from there on it owns the Cell on disk.
BuildSteps == {"mkdir", "save", "undo", "insert"}

\* Creates of one Cell exclude each other, and the Cell is not known meanwhile.
CreatesAlone == \A r \in Reqs, id \in Ids : Busy(r, id, CreateSteps) =>
  /\ cells[id] = Absent
  /\ \A s \in Reqs : Busy(s, id, CreateSteps) => s = r

\* So do Deletes.  A Delete keeps the directory to its last step, and it is the
\* directory that keeps a Create away until then.
DeletesAlone == \A r \in Reqs, id \in Ids : Busy(r, id, DeleteSteps) =>
  /\ cells[id] = Absent
  /\ id \in dirs
  /\ \A s \in Reqs : Busy(s, id, DeleteSteps) => s = r
  /\ \A s \in Reqs : ~Busy(s, id, BuildSteps)

Built == \A r \in Reqs, id \in Ids :
  /\ Busy(r, id, {"save", "undo", "insert"}) => id \in dirs
  /\ Busy(r, id, {"insert"}) => config[id] = req[r].def
  /\ Busy(r, id, {"persist"}) => cells[id] # Absent

\* The file of a Cell that is not in memory is readable only on its way in or
\* out; that of one in memory differs only while it is being updated.
FileTracksMemory == \A id \in Ids :
  /\ cells[id] = Absent /\ config[id] \in Defs
       => \E r \in Reqs : Busy(r, id, {"unlink", "insert"})
  /\ cells[id] # Absent
       => /\ id \in dirs \/ \E r \in Reqs : Busy(r, id, {"recreate"})
          /\ config[id] \in Defs
          /\ config[id] = cells[id] \/ \E r \in Reqs : Busy(r, id, {"persist"})

\* A Reinstall takes the directory away for a while: neither a Create nor a
\* Delete of the Cell is under way meanwhile.
ReinstallsAlone == \A r \in Reqs, id \in Ids : Busy(r, id, ReinstallSteps) =>
  \A s \in Reqs : ~Busy(s, id, CreateSteps \cup DeleteSteps)

StoreInv ==
  TypeOK /\ CreatesAlone /\ DeletesAlone /\ Built /\ FileTracksMemory /\ ReinstallsAlone

\* A step of one request that is not a Delete's, takes no directory from a Delete, and by
\* which the request builds a Cell only where it did or where there is none.
LEMMA DeletesStay ==
  ASSUME TypeOK, DeletesAlone, NEW r \in Reqs,
         \A q \in Reqs \ {r} : req'[q] = req[q],
         req[r].pc \notin DeleteSteps, req'[r].pc \notin DeleteSteps,
         req'[r].pc \in BuildSteps
           => req'[r].id = req[r].id /\ (req[r].pc \in BuildSteps \/ req[r].id \notin dirs),
         cells' = cells,
         \A id \in dirs \ dirs', q \in Reqs : ~Busy(q, id, DeleteSteps)
  PROVE  DeletesAlone'
<1> SUFFICES ASSUME NEW q \in Reqs, NEW id \in Ids, Busy(q, id, DeleteSteps)'
             PROVE  /\ cells'[id] = Absent
                    /\ id \in dirs'
                    /\ \A s \in Reqs : Busy(s, id, DeleteSteps)' => s = q
                    /\ \A s \in Reqs : ~Busy(s, id, BuildSteps)'
  BY DEF DeletesAlone
<1>1. q # r /\ Busy(q, id, DeleteSteps)
  BY DEF Busy
<1>2. /\ cells[id] = Absent /\ id \in dirs
      /\ \A s \in Reqs : Busy(s, id, DeleteSteps) => s = q
      /\ \A s \in Reqs : ~Busy(s, id, BuildSteps)
  BY <1>1 DEF DeletesAlone
<1>3. ASSUME NEW s \in Reqs, Busy(s, id, DeleteSteps)'
      PROVE  s = q
  BY <1>2, <1>3 DEF Busy
<1>4. ASSUME NEW s \in Reqs, Busy(s, id, BuildSteps)'
      PROVE  FALSE
  <2>1. CASE s = r
    BY <1>2, <1>4, <2>1 DEF Busy
  <2>2. CASE s # r
    BY <1>2, <1>4, <2>2 DEF Busy
  <2> QED BY <2>1, <2>2
<1>5. cells'[id] = Absent /\ id \in dirs'
  BY <1>1, <1>2
<1> QED BY <1>3, <1>4, <1>5

\* A step of one Create on its way.
LEMMA CreatesStay ==
  ASSUME CreatesAlone, NEW r \in Reqs,
         \A q \in Reqs \ {r} : req'[q] = req[q],
         req[r].pc \in CreateSteps, req'[r].pc \in CreateSteps => req'[r].id = req[r].id,
         cells' = cells
  PROVE  CreatesAlone'
<1> SUFFICES ASSUME NEW q \in Reqs, NEW id \in Ids, Busy(q, id, CreateSteps)'
             PROVE  /\ cells'[id] = Absent
                    /\ \A s \in Reqs : Busy(s, id, CreateSteps)' => s = q
  BY DEF CreatesAlone
<1>1. \A s \in Reqs : Busy(s, id, CreateSteps)' => Busy(s, id, CreateSteps)
  BY DEF Busy
<1>2. /\ cells[id] = Absent
      /\ \A s \in Reqs : Busy(s, id, CreateSteps) => s = q
  BY <1>1 DEF CreatesAlone
<1> QED BY <1>1, <1>2

\* A step of one request that neither writes a file nor is owed one.
LEMMA FilesStay ==
  ASSUME FileTracksMemory, NEW r \in Reqs,
         \A q \in Reqs \ {r} : req'[q] = req[q],
         req[r].pc \notin {"unlink", "insert", "recreate", "persist"},
         cells' = cells, config' = config, \A id \in dirs \ dirs' : cells[id] = Absent
  PROVE  FileTracksMemory'
<1> SUFFICES ASSUME NEW id \in Ids
             PROVE  /\ cells'[id] = Absent /\ config'[id] \in Defs
                         => \E q \in Reqs : Busy(q, id, {"unlink", "insert"})'
                    /\ cells'[id] # Absent
                         => /\ \/ id \in dirs'
                               \/ \E q \in Reqs : Busy(q, id, {"recreate"})'
                            /\ config'[id] \in Defs
                            /\ \/ config'[id] = cells'[id]
                               \/ \E q \in Reqs : Busy(q, id, {"persist"})'
  BY DEF FileTracksMemory
<1>1. ASSUME NEW q \in Reqs, q # r
      PROVE  /\ Busy(q, id, {"unlink", "insert"}) <=> Busy(q, id, {"unlink", "insert"})'
             /\ Busy(q, id, {"persist"}) <=> Busy(q, id, {"persist"})'
             /\ Busy(q, id, {"recreate"}) <=> Busy(q, id, {"recreate"})'
  BY <1>1 DEF Busy
<1>2. /\ ~Busy(r, id, {"unlink", "insert"}) /\ ~Busy(r, id, {"persist"})
      /\ ~Busy(r, id, {"recreate"})
  BY DEF Busy
<1> QED BY <1>1, <1>2 DEF FileTracksMemory

LEMMA StoreInvStep ==
  ASSUME SerialCreates, Faults \subseteq {"create", "wipe"},
         StoreInv, TypeOK', [Next]_vars
  PROVE  StoreInv'
<1> USE CellManagerAssumption, StepsEnumerated
<1> USE DEF StoreInv, TypeOK, CreatesAlone, DeletesAlone, Built, FileTracksMemory,
            ReinstallsAlone, Busy, BuildSteps, AllSteps, CreateSteps, DeleteSteps, StartSteps,
            ReinstallSteps, store, allocations, Begin, At, Goto, Finish, NoRequest, Known,
            MutexFree
<1>1. ASSUME NEW r \in Reqs, NEW id \in Ids, NEW def \in Defs, CreateLookup(r, id, def)
      PROVE  StoreInv'
  BY <1>1 DEF CreateLookup, Creating, Reinstalling, InFlight
<1>2. ASSUME NEW r \in Reqs, NEW id \in Ids, NEW def \in Defs, UpdateBegin(r, id, def)
      PROVE  StoreInv'
  BY <1>2 DEF UpdateBegin
<1>3. ASSUME NEW r \in Reqs, NEW id \in Ids, DeleteBegin(r, id)
      PROVE  StoreInv'
  BY <1>3 DEF DeleteBegin, Reinstalling, InFlight
<1>4. ASSUME NEW r \in Reqs, NEW id \in Ids, StartCopy(r, id)
      PROVE  StoreInv'
  BY <1>4 DEF StartCopy
<1>5. ASSUME NEW r \in Reqs, CreateStat(r)
      PROVE  StoreInv'
  <2>0. /\ \A q \in Reqs \ {r} : req'[q] = req[q]
        /\ req[r].pc = "stat" /\ req[r].id \in Ids
        /\ \/ req'[r].pc = "idle"
           \/ req'[r].pc = "mkdir" /\ req'[r].id = req[r].id /\ req[r].id \notin dirs
        /\ UNCHANGED <<cells, config, dirs>>
    BY <1>5 DEF CreateStat, DirFree
  <2>1. CreatesAlone'
    <3> HIDE DEF CreatesAlone, Busy
    <3> QED BY <2>0, CreatesStay
  <2>2. DeletesAlone'
    <3> HIDE DEF DeletesAlone, Busy
    <3> QED BY <2>0, DeletesStay
  <2>3. Built'
    BY <1>5 DEF CreateStat, DirFree
  <2>4. FileTracksMemory'
    <3> HIDE DEF FileTracksMemory, Busy
    <3> QED BY <2>0, FilesStay
  <2>5. ReinstallsAlone'
    BY <1>5 DEF CreateStat, DirFree
  <2> QED BY <2>1, <2>2, <2>3, <2>4, <2>5
<1>6. ASSUME NEW r \in Reqs, CreateMkdir(r)
      PROVE  StoreInv'
  <2>0. /\ \A q \in Reqs \ {r} : req'[q] = req[q]
        /\ req[r].pc = "mkdir" /\ req[r].id \in Ids
        /\ \/ req'[r].pc = "idle" /\ UNCHANGED dirs
           \/ /\ req'[r].pc = "save" /\ req'[r].id = req[r].id
              /\ dirs' = dirs \cup {req[r].id}
        /\ UNCHANGED <<cells, config>>
    BY <1>6 DEF CreateMkdir, MakeDir
  <2>1. CreatesAlone'
    <3> HIDE DEF CreatesAlone, Busy
    <3> QED BY <2>0, CreatesStay
  <2>2. DeletesAlone'
    <3> HIDE DEF DeletesAlone, Busy
    <3> QED BY <2>0, DeletesStay
  <2>3. Built'
    BY <1>6 DEF CreateMkdir, MakeDir
  <2>4. FileTracksMemory'
    <3> HIDE DEF FileTracksMemory, Busy
    <3> QED BY <2>0, FilesStay
  <2>5. ReinstallsAlone'
    BY <1>6 DEF CreateMkdir, MakeDir
  <2> QED BY <2>1, <2>2, <2>3, <2>4, <2>5
<1>7. ASSUME NEW r \in Reqs, CreateSave(r)
      PROVE  StoreInv'
  <2>0. /\ \A q \in Reqs \ {r} : req'[q] = req[q]
        /\ req[r].pc = "save" /\ req[r].id \in Ids /\ req'[r].id = req[r].id
        /\ \/ /\ req'[r].pc = "insert"
              /\ config' = [config EXCEPT ![req[r].id] = req[r].def]
           \/ /\ req'[r].pc = "undo"
              /\ config' \in {config, [config EXCEPT ![req[r].id] = Torn]}
        /\ UNCHANGED <<cells, dirs>>
    BY <1>7 DEF CreateSave
  <2>1. CreatesAlone'
    <3> HIDE DEF CreatesAlone, Busy
    <3> QED BY <2>0, CreatesStay
  <2>2. DeletesAlone'
    <3> HIDE DEF DeletesAlone, Busy
    <3> QED BY <2>0, DeletesStay
  <2>3. Built'
    BY <1>7 DEF CreateSave
  <2>4. FileTracksMemory'
    <3> SUFFICES ASSUME NEW id \in Ids
                 PROVE  /\ cells'[id] = Absent /\ config'[id] \in Defs
                             => \E q \in Reqs : Busy(q, id, {"unlink", "insert"})'
                        /\ cells'[id] # Absent
                             => /\ \/ id \in dirs'
                                   \/ \E q \in Reqs : Busy(q, id, {"recreate"})'
                                /\ config'[id] \in Defs
                                /\ \/ config'[id] = cells'[id]
                                   \/ \E q \in Reqs : Busy(q, id, {"persist"})'
      OBVIOUS
    <3>1. ASSUME NEW q \in Reqs, q # r
          PROVE  /\ Busy(q, id, {"unlink", "insert"}) <=> Busy(q, id, {"unlink", "insert"})'
                 /\ Busy(q, id, {"persist"}) <=> Busy(q, id, {"persist"})'
                 /\ Busy(q, id, {"recreate"}) <=> Busy(q, id, {"recreate"})'
      BY <2>0, <3>1
    <3>2. /\ ~Busy(r, id, {"unlink", "insert"})
          /\ ~Busy(r, id, {"persist"})
          /\ ~Busy(r, id, {"recreate"})
      BY <2>0
    <3>3. CASE config'[id] = config[id]
      <4> HIDE DEF Busy
      <4> QED BY <2>0, <3>1, <3>2, <3>3
    <3>4. CASE config'[id] # config[id]
      <4>1. id = req[r].id /\ cells'[id] = Absent
        BY <2>0, <3>4
      <4>2. CASE req'[r].pc = "insert"
        BY <2>0, <4>1, <4>2
      <4>3. CASE req'[r].pc = "undo"
        BY <2>0, <3>4, <4>1, <4>3
      <4> QED BY <2>0, <4>2, <4>3
    <3> QED BY <3>3, <3>4
  <2>5. ReinstallsAlone'
    BY <1>7 DEF CreateSave
  <2> QED BY <2>1, <2>2, <2>3, <2>4, <2>5
<1>8. ASSUME NEW r \in Reqs, CreateUndo(r)
      PROVE  StoreInv'
  <2>0. /\ \A q \in Reqs \ {r} : req'[q] = req[q]
        /\ req[r].pc = "undo" /\ req[r].id \in Ids /\ req'[r].pc = "idle"
        /\ dirs' = dirs \ {req[r].id}
        /\ UNCHANGED <<cells, config>>
    BY <1>8 DEF CreateUndo
  <2>1. CreatesAlone'
    <3> HIDE DEF CreatesAlone, Busy
    <3> QED BY <2>0, CreatesStay
  <2>2. DeletesAlone'
    <3>1. \A id \in dirs \ dirs', q \in Reqs : ~Busy(q, id, DeleteSteps)
      BY <2>0
    <3> HIDE DEF DeletesAlone, Busy
    <3> QED BY <2>0, <3>1, DeletesStay
  <2>3. Built'
    BY <2>0
  <2>4. FileTracksMemory'
    <3>1. \A id \in dirs \ dirs' : cells[id] = Absent
      BY <2>0
    <3> HIDE DEF FileTracksMemory, Busy
    <3> QED BY <2>0, <3>1, FilesStay
  <2>5. ReinstallsAlone'
    BY <2>0
  <2> QED BY <2>1, <2>2, <2>3, <2>4, <2>5
<1>9. ASSUME NEW r \in Reqs, CreateInsert(r)
      PROVE  StoreInv'
  <2>1. CreatesAlone'
    BY <1>9 DEF CreateInsert
  <2>2. DeletesAlone'
    BY <1>9 DEF CreateInsert
  <2>3. Built'
    BY <1>9 DEF CreateInsert
  <2>4. FileTracksMemory'
    BY <1>9 DEF CreateInsert
  <2>5. ReinstallsAlone'
    BY <1>9 DEF CreateInsert
  <2> QED BY <2>1, <2>2, <2>3, <2>4, <2>5
<1>10. ASSUME NEW r \in Reqs, DeleteUnlink(r)
       PROVE  StoreInv'
  <2>1. CreatesAlone'
    BY <1>10 DEF DeleteUnlink, Unlink
  <2>2. DeletesAlone'
    BY <1>10 DEF DeleteUnlink, Unlink
  <2>3. Built'
    BY <1>10 DEF DeleteUnlink, Unlink
  <2>4. FileTracksMemory'
    BY <1>10 DEF DeleteUnlink, Unlink
  <2>5. ReinstallsAlone'
    BY <1>10 DEF DeleteUnlink, Unlink
  <2> QED BY <2>1, <2>2, <2>3, <2>4, <2>5
<1>11. ASSUME NEW r \in Reqs, DeleteRmdir(r)
       PROVE  StoreInv'
  <2>1. CreatesAlone'
    BY <1>11 DEF DeleteRmdir
  <2>2. DeletesAlone'
    BY <1>11 DEF DeleteRmdir
  <2>3. Built'
    BY <1>11 DEF DeleteRmdir
  <2>4. FileTracksMemory'
    BY <1>11 DEF DeleteRmdir
  <2>5. ReinstallsAlone'
    BY <1>11 DEF DeleteRmdir
  <2> QED BY <2>1, <2>2, <2>3, <2>4, <2>5
<1>12. ASSUME NEW r \in Reqs, UpdatePersist(r)
       PROVE  StoreInv'
  <2>1. CreatesAlone'
    BY <1>12 DEF UpdatePersist
  <2>2. DeletesAlone'
    BY <1>12 DEF UpdatePersist
  <2>3. Built'
    BY <1>12 DEF UpdatePersist
  <2>4. FileTracksMemory'
    BY <1>12 DEF UpdatePersist
  <2>5. ReinstallsAlone'
    BY <1>12 DEF UpdatePersist
  <2> QED BY <2>1, <2>2, <2>3, <2>4, <2>5
<1>13. ASSUME NEW r \in Reqs, StartCheck(r)
       PROVE  StoreInv'
  <2>0. /\ \A q \in Reqs \ {r} : req'[q] = req[q]
        /\ req[r].pc = "check" /\ req'[r].pc \in {"idle", "prepare"}
        /\ UNCHANGED <<cells, config, dirs>>
    BY <1>13 DEF StartCheck
  <2>1. CreatesAlone'
    BY <1>13 DEF StartCheck
  <2>2. DeletesAlone'
    <3> HIDE DEF DeletesAlone, Busy
    <3> QED BY <2>0, DeletesStay
  <2>3. Built'
    BY <1>13 DEF StartCheck
  <2>4. FileTracksMemory'
    <3> SUFFICES ASSUME NEW id \in Ids
                 PROVE  /\ cells'[id] = Absent /\ config'[id] \in Defs
                             => \E q \in Reqs : Busy(q, id, {"unlink", "insert"})'
                        /\ cells'[id] # Absent
                             => /\ \/ id \in dirs'
                                   \/ \E q \in Reqs : Busy(q, id, {"recreate"})'
                                /\ config'[id] \in Defs
                                /\ \/ config'[id] = cells'[id]
                                   \/ \E q \in Reqs : Busy(q, id, {"persist"})'
      OBVIOUS
    <3>1. ASSUME NEW q \in Reqs, q # r
          PROVE  /\ Busy(q, id, {"unlink", "insert"}) <=> Busy(q, id, {"unlink", "insert"})'
                 /\ Busy(q, id, {"persist"}) <=> Busy(q, id, {"persist"})'
                 /\ Busy(q, id, {"recreate"}) <=> Busy(q, id, {"recreate"})'
      BY <2>0, <3>1
    <3>2. /\ ~Busy(r, id, {"unlink", "insert"})
          /\ ~Busy(r, id, {"persist"})
          /\ ~Busy(r, id, {"recreate"})
      BY <2>0
    <3> HIDE DEF Busy
    <3> QED
      BY <2>0, <3>1, <3>2
  <2>5. ReinstallsAlone'
    BY <1>13 DEF StartCheck
  <2> QED BY <2>1, <2>2, <2>3, <2>4, <2>5
<1>14. ASSUME NEW r \in Reqs, StartPrepare(r)
       PROVE  StoreInv'
  BY <1>14 DEF StartPrepare, MakeDir
<1>15. ASSUME NEW r \in Reqs, StartAnnounce(r)
       PROVE  StoreInv'
  BY <1>15 DEF StartAnnounce
<1>16. ASSUME NEW r \in Reqs, StartLaunch(r)
       PROVE  StoreInv'
  BY <1>16 DEF StartLaunch
<1>17. ASSUME NEW id \in Ids, Exit(id)
       PROVE  StoreInv'
  BY <1>17 DEF Exit
<1>18. ASSUME NEW new \in SUBSET Allocs, Reconfigure(new)
       PROVE  StoreInv'
  BY <1>18 DEF Reconfigure
<1>19. CASE Crash
  <2>0. /\ \A r \in Reqs : ~Busy(r, req[r].id, {"recreate"}) /\ req'[r].pc = "idle"
        /\ dirs' = dirs
        /\ \A id \in Ids : /\ cells'[id] = IF config'[id] \in Defs THEN config'[id] ELSE Absent
                           /\ config'[id] \in {config[id], Torn}
    BY <1>19 DEF Crash, Loaded
  <2>1. \A id \in Ids : config[id] \in Defs => id \in dirs
    BY <2>0
  <2>2. FileTracksMemory'
    BY <2>0, <2>1
  <2>3. CreatesAlone' /\ DeletesAlone' /\ Built' /\ ReinstallsAlone'
    BY <2>0
  <2> QED BY <2>2, <2>3
<1>20. CASE UNCHANGED vars
  BY <1>20 DEF vars
<1>21. ASSUME NEW r \in Reqs, NEW id \in Ids, ReinstallBegin(r, id)
       PROVE  StoreInv'
  BY <1>21 DEF ReinstallBegin, InFlight
<1>22. ASSUME NEW r \in Reqs, ReinstallWipe(r)
       PROVE  StoreInv'
  <2>0. /\ \A q \in Reqs \ {r} : req'[q] = req[q]
        /\ req[r].pc = "wipe" /\ req[r].id \in Ids /\ Busy(r, req[r].id, ReinstallSteps)
        /\ \/ /\ dirs' = dirs \ {req[r].id}
              /\ req'[r].pc = "recreate" /\ req'[r].id = req[r].id
           \/ dirs' = dirs /\ req'[r].pc = "idle"
        /\ UNCHANGED <<cells, config>>
    BY <1>22 DEF ReinstallWipe
  <2>1. \A q \in Reqs, id \in Ids :
          Busy(q, id, CreateSteps \cup DeleteSteps)'
            => q # r /\ Busy(q, id, CreateSteps \cup DeleteSteps) /\ id # req[r].id
    <3> SUFFICES ASSUME NEW q \in Reqs, NEW id \in Ids,
                        Busy(q, id, CreateSteps \cup DeleteSteps)'
                 PROVE  q # r /\ Busy(q, id, CreateSteps \cup DeleteSteps) /\ id # req[r].id
      OBVIOUS
    <3>1. q # r
      BY <2>0
    <3>2. Busy(q, id, CreateSteps \cup DeleteSteps)
      BY <2>0, <3>1
    <3> QED BY <2>0, <3>1, <3>2
  <2>2. CreatesAlone'
    <3> SUFFICES ASSUME NEW q \in Reqs, NEW id \in Ids, Busy(q, id, CreateSteps)'
                 PROVE  /\ cells'[id] = Absent
                        /\ \A s \in Reqs : Busy(s, id, CreateSteps)' => s = q
      OBVIOUS
    <3>1. Busy(q, id, CreateSteps)
      BY <2>0
    <3>2. ASSUME NEW s \in Reqs, Busy(s, id, CreateSteps)'
          PROVE  s = q
      <4>1. Busy(s, id, CreateSteps)
        BY <2>0, <3>2
      <4> QED BY <3>1, <4>1
    <3> QED BY <2>0, <3>1, <3>2
  <2>3. DeletesAlone'
    <3> SUFFICES ASSUME NEW q \in Reqs, NEW id \in Ids, Busy(q, id, DeleteSteps)'
                 PROVE  /\ cells'[id] = Absent
                        /\ id \in dirs'
                        /\ \A s \in Reqs : Busy(s, id, DeleteSteps)' => s = q
                        /\ \A s \in Reqs : ~Busy(s, id, BuildSteps)'
      OBVIOUS
    <3>1. q # r /\ Busy(q, id, DeleteSteps) /\ id # req[r].id
      BY <2>0, <2>1
    <3>2. cells[id] = Absent /\ id \in dirs
      BY <3>1
    <3>3. cells'[id] = Absent /\ id \in dirs'
      BY <2>0, <3>1, <3>2
    <3>4. ASSUME NEW s \in Reqs, Busy(s, id, DeleteSteps)'
          PROVE  s = q
      <4>1. Busy(s, id, DeleteSteps)
        BY <2>0, <3>4
      <4> QED BY <3>1, <4>1
    <3>5. ASSUME NEW s \in Reqs, Busy(s, id, BuildSteps)'
          PROVE  FALSE
      <4>1. Busy(s, id, BuildSteps)
        BY <2>0, <3>5
      <4> QED BY <3>1, <4>1
    <3> QED BY <3>3, <3>4, <3>5
  <2>4. Built'
    <3>1. /\ \A q \in Reqs, id \in Ids : Busy(q, id, {"save", "undo", "insert"})'
                                          => id \in dirs'
          /\ \A q \in Reqs, id \in Ids : Busy(q, id, {"insert"})' => config'[id] = req'[q].def
      BY <2>0, <2>1
    <3>2. \A q \in Reqs, id \in Ids : Busy(q, id, {"persist"})' => cells'[id] # Absent
      BY <2>0
    <3> QED BY <3>1, <3>2
  <2>5. FileTracksMemory'
    <3> SUFFICES ASSUME NEW id \in Ids
                 PROVE  /\ cells'[id] = Absent /\ config'[id] \in Defs
                             => \E q \in Reqs : Busy(q, id, {"unlink", "insert"})'
                        /\ cells'[id] # Absent
                             => /\ \/ id \in dirs'
                                   \/ \E q \in Reqs : Busy(q, id, {"recreate"})'
                                /\ config'[id] \in Defs
                                /\ \/ config'[id] = cells'[id]
                                   \/ \E q \in Reqs : Busy(q, id, {"persist"})'
      OBVIOUS
    <3>1. ASSUME NEW q \in Reqs, q # r
          PROVE  /\ Busy(q, id, {"unlink", "insert"}) <=> Busy(q, id, {"unlink", "insert"})'
                 /\ Busy(q, id, {"persist"}) <=> Busy(q, id, {"persist"})'
                 /\ Busy(q, id, {"recreate"}) <=> Busy(q, id, {"recreate"})'
      BY <2>0, <3>1
    <3>2. /\ ~Busy(r, id, {"unlink", "insert"})
          /\ ~Busy(r, id, {"persist"})
          /\ ~Busy(r, id, {"recreate"})
          /\ id \in dirs' \/ Busy(r, id, {"recreate"})' \/ id \notin dirs
      BY <2>0
    <3> HIDE DEF Busy
    <3> QED
      BY <2>0, <3>1, <3>2
  <2>6. ReinstallsAlone'
    BY <2>0
  <2> QED BY <2>2, <2>3, <2>4, <2>5, <2>6
<1>23. ASSUME NEW r \in Reqs, ReinstallRecreate(r)
       PROVE  StoreInv'
  BY <1>23 DEF ReinstallRecreate, MakeDir
<1>24. ASSUME NEW r \in Reqs, NEW id \in Ids, InstallBegin(r, id)
       PROVE  StoreInv'
  BY <1>24 DEF InstallBegin
<1>25. ASSUME NEW r \in Reqs, InstallStep(r)
       PROVE  StoreInv'
  <2>1. CASE MakeDir(req[r].id) /\ UNCHANGED req
    BY <1>25, <2>1 DEF InstallStep, MakeDir
  <2>2. CASE Finish(r) /\ UNCHANGED dirs
    BY <1>25, <2>2 DEF InstallStep
  <2> QED BY <1>25, <2>1, <2>2 DEF InstallStep
<1> HIDE DEF StoreInv
<1> QED
  BY <1>1, <1>2, <1>3, <1>4, <1>5, <1>6, <1>7, <1>8, <1>9, <1>10, <1>11, <1>12, <1>13, <1>14, <1>15, <1>16, <1>17, <1>18, <1>19, <1>20, <1>21, <1>22, <1>23, <1>24, <1>25
  DEF Next, RequestStep

LEMMA StoreInvariant ==
  ASSUME SerialCreates, Faults \subseteq {"create", "wipe"}
  PROVE  Spec => []StoreInv
<1>1. Init => StoreInv
  BY CellManagerAssumption, StepsEnumerated
  DEF Init, StoreInv, TypeOK, CreatesAlone, DeletesAlone, Built, FileTracksMemory,
      ReinstallsAlone, Busy, BuildSteps, AllSteps, CreateSteps, DeleteSteps, StartSteps,
      ReinstallSteps, NoRequest
<1>2. StoreInv /\ TypeOK' /\ [Next]_vars => StoreInv'
  BY StoreInvStep
<1> QED
  BY <1>1, <1>2, TypeCorrect, PTL DEF Spec

\* Whatever Creates, Deletes, Updates, Starts, Installs, Reinstalls, exits,
\* reconfigurations and crashes interleave, a restart finds exactly the settled Cells, and the tail
\* of a Delete (storage.go:154) never takes the file of the Cell a later Create
\* of the same ID built.
THEOREM StoreSafe ==
  ASSUME SerialCreates, Faults \subseteq {"create", "wipe"}
  PROVE  Spec => []SettledOnDisk
<1>1. StoreInv => SettledOnDisk
  BY DEF StoreInv, FileTracksMemory, SettledOnDisk, Unsettled, Busy, CreateSteps, DeleteSteps
<1> QED
  BY <1>1, StoreInvariant, PTL

\* Nor does that tail take the directory: every Cell in memory has one, but while its
\* own Reinstall wipes and makes it (install.go:113).
THEOREM DirectoriesAreKept ==
  ASSUME SerialCreates, Faults \subseteq {"create", "wipe"}
  PROVE  Spec => []DirectoryKept
<1>1. StoreInv => DirectoryKept
  BY DEF StoreInv, FileTracksMemory, DirectoryKept, Known, At, Busy
<1> QED
  BY <1>1, StoreInvariant, PTL

-----------------------------------------------------------------------------
\* If the panel serialises the Creates of an ID, the insertion that ends a
\* Create, long after its lookup, still finds no Cell to replace.
LEMMA CreatesStayAlone ==
  ASSUME SerialCreates
  PROVE  Spec => []CreatesAlone
<1>1. Init => CreatesAlone
  BY DEF Init, CreatesAlone, Busy, NoRequest, CreateSteps
<1>2. TypeOK /\ CreatesAlone /\ [Next]_vars => CreatesAlone'
  <2> SUFFICES ASSUME TypeOK, CreatesAlone, [Next]_vars
               PROVE  CreatesAlone'
    OBVIOUS
  <2> USE CellManagerAssumption
      DEF TypeOK, CreatesAlone, Busy, CreateSteps, store, allocations, Begin, At, Goto,
          Finish, NoRequest, Known
  <2>1. ASSUME NEW r \in Reqs, NEW id \in Ids, NEW def \in Defs,
             CreateLookup(r, id, def)
        PROVE  CreatesAlone'
    BY <2>1 DEF CreateLookup, Creating, InFlight
  <2>2. ASSUME NEW r \in Reqs, NEW id \in Ids, NEW def \in Defs,
             UpdateBegin(r, id, def)
        PROVE  CreatesAlone'
    BY <2>2 DEF UpdateBegin
  <2>3. ASSUME NEW r \in Reqs, NEW id \in Ids,
             DeleteBegin(r, id)
        PROVE  CreatesAlone'
    BY <2>3 DEF DeleteBegin
  <2>4. ASSUME NEW r \in Reqs, NEW id \in Ids,
             StartCopy(r, id)
        PROVE  CreatesAlone'
    BY <2>4 DEF StartCopy
  <2>5. ASSUME NEW r \in Reqs, NEW id \in Ids,
             ReinstallBegin(r, id)
        PROVE  CreatesAlone'
    BY <2>5 DEF ReinstallBegin
  <2>6. ASSUME NEW r \in Reqs,
             CreateStat(r) \/ CreateMkdir(r) \/ CreateSave(r)
        PROVE  CreatesAlone'
    BY <2>6 DEF CreateStat, CreateMkdir, CreateSave
  <2>7. ASSUME NEW r \in Reqs,
             CreateUndo(r) \/ CreateInsert(r)
        PROVE  CreatesAlone'
    BY <2>7 DEF CreateUndo, CreateInsert
  <2>8. ASSUME NEW r \in Reqs,
             DeleteUnlink(r) \/ DeleteRmdir(r) \/ UpdatePersist(r)
        PROVE  CreatesAlone'
    BY <2>8 DEF DeleteUnlink, DeleteRmdir, UpdatePersist
  <2>9. ASSUME NEW r \in Reqs,
             StartCheck(r) \/ StartPrepare(r) \/ StartAnnounce(r) \/ StartLaunch(r)
        PROVE  CreatesAlone'
    BY <2>9 DEF StartCheck, StartPrepare, StartAnnounce, StartLaunch
  <2>10. ASSUME NEW r \in Reqs,
              ReinstallWipe(r) \/ ReinstallRecreate(r)
         PROVE  CreatesAlone'
    BY <2>10 DEF ReinstallWipe, ReinstallRecreate
  <2>11. CASE \/ \E id \in Ids : Exit(id)
              \/ \E new \in SUBSET Allocs : Reconfigure(new)
              \/ UNCHANGED vars
    BY <2>11 DEF Exit, Reconfigure, vars
  <2>12. CASE Crash
    BY <2>12 DEF Crash
  <2>13. ASSUME NEW r \in Reqs, NEW id \in Ids,
              InstallBegin(r, id)
         PROVE  CreatesAlone'
    BY <2>13 DEF InstallBegin
  <2>14. ASSUME NEW r \in Reqs,
              InstallStep(r)
         PROVE  CreatesAlone'
    BY <2>14 DEF InstallStep
  <2> HIDE DEF CreatesAlone
  <2> QED
    BY <2>1, <2>2, <2>3, <2>4, <2>5, <2>6, <2>7, <2>8, <2>9, <2>10, <2>11, <2>12, <2>13, <2>14
    DEF Next, RequestStep
<1> QED
  BY <1>1, <1>2, TypeCorrect, PTL DEF Spec

LEMMA ReservedIsUsed ==
  NoLeakedReservation <=> \A a \in used : \E id \in Ids : a \in AllocsOf(id)
BY DEF NoLeakedReservation

\* If saving never fails under UpdateDefinition and Creates of an ID are
\* serialised, Reconfigure refuses only to
\* drop allocations of existing Cells, whatever else fails or crashes.
THEOREM ReservationsNeverLeak ==
  ASSUME "update" \notin Faults, SerialCreates
  PROVE  Spec => []NoLeakedReservation
<1>1. Init => NoLeakedReservation
  BY DEF Init, NoLeakedReservation
<1>2. TypeOK /\ CreatesAlone /\ NoLeakedReservation /\ [Next]_vars => NoLeakedReservation'
  <2> SUFFICES ASSUME TypeOK, CreatesAlone, NoLeakedReservation, [Next]_vars
               PROVE  \A a \in used' : \E id \in Ids : a \in AllocsOf(id)'
    BY DEF NoLeakedReservation
  <2> USE CellManagerAssumption, ReservedIsUsed DEF AllocsOf, Known, TypeOK
  <2>1. CASE used' \subseteq used /\ UNCHANGED cells
    BY <2>1
  <2>2. ASSUME NEW r \in Reqs, NEW id \in Ids, NEW def \in Defs, UpdateBegin(r, id, def)
        PROVE  \A a \in used' : \E i \in Ids : a \in AllocsOf(i)'
    BY <2>2 DEF UpdateBegin, Replace
  <2>3. ASSUME NEW r \in Reqs, NEW id \in Ids, DeleteBegin(r, id)
        PROVE  \A a \in used' : \E i \in Ids : a \in AllocsOf(i)'
    BY <2>3 DEF DeleteBegin
  <2>4. ASSUME NEW r \in Reqs, CreateInsert(r)
        PROVE  \A a \in used' : \E i \in Ids : a \in AllocsOf(i)'
    BY <2>4 DEF CreateInsert, allocations, At, CreateSteps, CreatesAlone, Busy
  <2>5. CASE Crash
    BY <2>5 DEF Crash
  <2>6. ASSUME NEW r \in Reqs, RequestStep(r), ~CreateInsert(r)
        PROVE  used' \subseteq used /\ UNCHANGED cells
    BY <2>6
    DEF RequestStep, store, allocations, CreateStat, CreateMkdir, CreateSave, CreateUndo,
        DeleteUnlink, DeleteRmdir, UpdatePersist, StartCheck, StartPrepare, StartAnnounce,
        StartLaunch, InstallStep, ReinstallWipe, ReinstallRecreate
  <2>7. ASSUME NEW r \in Reqs, NEW id \in Ids,
               \/ \E def \in Defs : CreateLookup(r, id, def)
               \/ StartCopy(r, id)
               \/ InstallBegin(r, id)
               \/ ReinstallBegin(r, id)
        PROVE  used' \subseteq used /\ UNCHANGED cells
    BY <2>7 DEF CreateLookup, StartCopy, InstallBegin, ReinstallBegin, store, allocations
  <2>8. CASE (\E id \in Ids : Exit(id)) \/ (\E new \in SUBSET Allocs : Reconfigure(new))
    BY <2>1, <2>8 DEF Exit, Reconfigure, store, allocations
  <2>9. CASE UNCHANGED vars
    BY <2>1, <2>9 DEF vars
  <2> QED
    BY <2>1, <2>2, <2>3, <2>4, <2>5, <2>6, <2>7, <2>8, <2>9 DEF Next
<1> QED
  BY <1>1, <1>2, TypeCorrect, CreatesStayAlone, PTL DEF Spec

-----------------------------------------------------------------------------
\* What the run cell_manager_runs says is missing: no Delete and no UpdateDefinition
\* of a Cell begins while a Start of it is in flight.  (None is met by a Start that
\* begins later: the Cell is gone, or the mutex is taken.)
StartsApart == \A r, s \in Reqs :
  req[r].pc \in StartSteps /\ req[s].pc \in DeleteSteps \cup {"persist"}
    => req[r].id # req[s].id

\* The copy a Start works with is still the Cell in memory.
CopiesCurrent == \A r \in Reqs, id \in Ids :
  Busy(r, id, StartSteps) => req[r].def = cells[id]

\* A Cell is stopped for as long as its definition is being saved.
SavesStopped == \A r \in Reqs, id \in Ids : Busy(r, id, {"persist"}) => ~IsRunning(id)

RunsInv == RunsCurrentDefinition /\ CopiesCurrent /\ SavesStopped

LEMMA RunsInvStep ==
  ASSUME SerialCreates, Faults \subseteq {"create", "wipe"},
         StoreInv, RunsInv, StartsApart, StartsApart', TypeOK', [Next]_vars
  PROVE  RunsInv'
<1> USE CellManagerAssumption, StepsEnumerated
<1> USE DEF RunsInv, RunsCurrentDefinition, CopiesCurrent, SavesStopped, TypeOK, Busy, Known,
            IsRunning, AllSteps, CreateSteps, DeleteSteps, StartSteps, ReinstallSteps, store,
            allocations, Begin, At, Goto, Finish, NoRequest
<1>0. TypeOK /\ CreatesAlone
  BY DEF StoreInv
\* A step that changes no definition in memory, starts no server, and after which no
\* request is at a step of a Start or at a save where it was not before.
<1>1. ASSUME UNCHANGED <<cells, running>>,
             \A q \in Reqs : req'[q].pc \in StartSteps \cup {"persist"} =>
               /\ req'[q].id = req[q].id /\ req'[q].def = req[q].def
               /\ req[q].pc \in StartSteps <=> req'[q].pc \in StartSteps
               /\ req[q].pc = "persist" <=> req'[q].pc = "persist"
      PROVE  RunsInv'
  BY <1>0, <1>1
<1>2. ASSUME NEW r \in Reqs, NEW id \in Ids, NEW def \in Defs, CreateLookup(r, id, def)
      PROVE  RunsInv'
  BY <1>0, <1>1, <1>2 DEF CreateLookup
<1>3. ASSUME NEW r \in Reqs, NEW id \in Ids, NEW def \in Defs, UpdateBegin(r, id, def)
      PROVE  RunsInv'
  <2>1. /\ req' = [req EXCEPT ![r] = [pc |-> "persist", id |-> id, def |-> cells[id]]]
        /\ cells' = [cells EXCEPT ![id] = def] /\ ~IsRunning(id) /\ running' = running
    BY <1>3 DEF UpdateBegin
  <2>2. \A q \in Reqs : req'[q].pc \in StartSteps => req'[q].id # id
    BY <1>0, <2>1 DEF StartsApart
  <2>3. RunsCurrentDefinition' /\ SavesStopped'
    BY <1>0, <2>1
  <2>4. CopiesCurrent'
    BY <1>0, <2>1, <2>2
  <2> QED BY <2>3, <2>4
<1>4. ASSUME NEW r \in Reqs, NEW id \in Ids, DeleteBegin(r, id)
      PROVE  RunsInv'
  <2>1. /\ req' = [req EXCEPT ![r] = [pc |-> "unlink", id |-> id, def |-> Absent]]
        /\ cells' = [cells EXCEPT ![id] = Absent] /\ ~IsRunning(id) /\ running' = running
    BY <1>4 DEF DeleteBegin
  <2>2. \A q \in Reqs : req'[q].pc \in StartSteps => req'[q].id # id
    BY <1>0, <2>1 DEF StartsApart
  <2>3. RunsCurrentDefinition' /\ SavesStopped'
    BY <1>0, <2>1
  <2>4. CopiesCurrent'
    BY <1>0, <2>1, <2>2
  <2> QED BY <2>3, <2>4
<1>5. ASSUME NEW r \in Reqs, NEW id \in Ids, StartCopy(r, id)
      PROVE  RunsInv'
  BY <1>0, <1>5 DEF StartCopy
<1>6. ASSUME NEW r \in Reqs, NEW id \in Ids, InstallBegin(r, id) \/ ReinstallBegin(r, id)
      PROVE  RunsInv'
  BY <1>0, <1>1, <1>6 DEF InstallBegin, ReinstallBegin
<1>7. ASSUME NEW r \in Reqs, CreateStat(r) \/ CreateMkdir(r) \/ CreateSave(r) \/ CreateUndo(r)
      PROVE  RunsInv'
  BY <1>0, <1>1, <1>7 DEF CreateStat, CreateMkdir, CreateSave, CreateUndo
<1>8. ASSUME NEW r \in Reqs, CreateInsert(r)
      PROVE  RunsInv'
  <2>1. /\ req' = [req EXCEPT ![r] = NoRequest] /\ running' = running
        /\ cells' = [cells EXCEPT ![req[r].id] = req[r].def] /\ req[r].id \in Ids
        /\ cells[req[r].id] = Absent
    BY <1>0, <1>8 DEF CreateInsert, CreatesAlone
  <2>2. ~IsRunning(req[r].id) /\ \A q \in Reqs : ~Busy(q, req[r].id, StartSteps)
    BY <1>0, <2>1
  <2> QED BY <1>0, <2>1, <2>2
<1>9. ASSUME NEW r \in Reqs, DeleteUnlink(r) \/ DeleteRmdir(r) \/ UpdatePersist(r)
      PROVE  RunsInv'
  BY <1>0, <1>1, <1>9 DEF DeleteUnlink, DeleteRmdir, UpdatePersist
<1>10. ASSUME NEW r \in Reqs, StartCheck(r) \/ StartPrepare(r) \/ StartAnnounce(r)
       PROVE  RunsInv'
  BY <1>0, <1>1, <1>10 DEF StartCheck, StartPrepare, StartAnnounce
<1>11. ASSUME NEW r \in Reqs, StartLaunch(r)
       PROVE  RunsInv'
  <2>1. /\ req[r].pc = "launch" /\ req[r].id \in Ids
        /\ \/ running' = [running EXCEPT ![req[r].id] = req[r].def]
           \/ running' = running
        /\ req' = [req EXCEPT ![r] = NoRequest] /\ cells' = cells
    BY <1>0, <1>11 DEF StartLaunch
  <2>2. req[r].def = cells[req[r].id]
    BY <2>1
  <2>3. \A q \in Reqs : ~Busy(q, req[r].id, {"persist"})
    BY <2>1 DEF StartsApart
  <2> QED BY <1>0, <2>1, <2>2, <2>3
<1>12. ASSUME NEW id \in Ids, Exit(id)
       PROVE  RunsInv'
  BY <1>0, <1>12 DEF Exit
<1>13. ASSUME NEW r \in Reqs, InstallStep(r) \/ ReinstallWipe(r) \/ ReinstallRecreate(r)
       PROVE  RunsInv'
  <2>1. /\ UNCHANGED <<cells, running>> /\ req[r].pc \notin StartSteps \cup {"persist"}
        /\ \/ req' = req
           \/ req' = [req EXCEPT ![r] = NoRequest]
           \/ req' = [req EXCEPT ![r].pc = "recreate"]
    BY <1>13 DEF InstallStep, ReinstallWipe, ReinstallRecreate
  <2> QED BY <1>0, <1>1, <2>1
<1>14. ASSUME NEW new \in SUBSET Allocs, Reconfigure(new)
       PROVE  RunsInv'
  BY <1>0, <1>1, <1>14 DEF Reconfigure
<1>15. CASE Crash
  \* Whoever runs has an intact file with the definition in memory.
  <2>1. /\ \A r \in Reqs : req'[r].pc = "idle"
        /\ \A id \in Ids :
             /\ running'[id] \in {running[id], Absent}
             /\ cells'[id] = IF config'[id] \in Defs THEN config'[id] ELSE Absent
             /\ config'[id] = config[id]
                  \/ \E r \in Reqs : Busy(r, id, {"save", "persist"})
    BY <1>0, <1>15 DEF Crash, Loaded
  <2>2. ASSUME NEW id \in Ids, IsRunning(id)'
        PROVE  running'[id] = cells'[id]
    <3>1. IsRunning(id) /\ running'[id] = running[id] /\ running[id] = cells[id]
      BY <2>1, <2>2
    <3>2. cells[id] # Absent
      BY <3>1
    <3>3. \A r \in Reqs : ~Busy(r, id, {"save", "persist"})
      BY <3>1, <3>2 DEF StoreInv, CreatesAlone
    <3>4. config[id] = cells[id] /\ config[id] \in Defs
      BY <3>2, <3>3 DEF StoreInv, FileTracksMemory
    <3> QED BY <2>1, <3>1, <3>3, <3>4
  <2> QED BY <2>1, <2>2
<1>16. CASE UNCHANGED vars
  BY <1>0, <1>1, <1>16 DEF vars
<1> HIDE DEF RunsInv
<1> QED
  BY <1>2, <1>3, <1>4, <1>5, <1>6, <1>7, <1>8, <1>9, <1>10, <1>11, <1>12, <1>13, <1>14, <1>15,
     <1>16
  DEF Next, RequestStep

\* As long as nobody deletes or updates a Cell that is being started, every game server is a
\* known Cell's and runs its current definition, restarts of the worker included: the copy
\* lifecycle.go:21 takes is the only thing the checks of storage.go:144 and update.go:59
\* do not cover.
THEOREM RunningIsCurrent ==
  ASSUME SerialCreates, Faults \subseteq {"create", "wipe"}
  PROVE  Spec /\ []StartsApart => []RunsCurrentDefinition
<1>1. Init => RunsInv
  BY DEF Init, RunsInv, RunsCurrentDefinition, CopiesCurrent, SavesStopped, Busy, IsRunning,
         NoRequest, StartSteps
<1>2. StoreInv /\ RunsInv /\ StartsApart /\ StartsApart' /\ TypeOK' /\ [Next]_vars => RunsInv'
  BY RunsInvStep
<1>3. RunsInv => RunsCurrentDefinition
  BY DEF RunsInv
<1> QED
  BY <1>1, <1>2, <1>3, StoreInvariant, TypeCorrect, PTL DEF Spec
=============================================================================
