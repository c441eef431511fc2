---------------------------- MODULE BackupsProofs ----------------------------
(***************************************************************************)
(* Proofs about Backups: an answered backup stays whole, a failed one      *)
(* leaves nothing, a mount holds its archive, and what a Restore or a      *)
(* RestorePath answers is true, for any number of files, backups, mounts   *)
(* and requests, where the panel serialises what Serial says it does.      *)
(***************************************************************************)
EXTENDS Backups, TLAPS

ReqType == [pc : Steps, backup : Archives, mount : Mounts,
            inode : Inodes \cup {Nothing}, files : SUBSET Files, todo : SUBSET Files]
MountType == [files : SUBSET Files, want : SUBSET Files, leaving : BOOLEAN]

LEMMA TypeInit == Init => TypeOK
<1> SUFFICES ASSUME Init PROVE TypeOK
  OBVIOUS
<1>1. (CHOOSE b \in Archives : TRUE) \in Archives /\ (CHOOSE m \in Mounts : TRUE) \in Mounts
  BY BackupsAssumption
<1>2. req \in [Reqs -> ReqType]
  BY <1>1 DEF Init, ReqType, Steps
<1> QED
  BY <1>2 DEF Init, TypeOK, ReqType

\* What TypeOK says of the requests, of the archives, and of the directories.
ReqsOK == req \in [Reqs -> ReqType]
DiskOK ==
  /\ name \in [Archives -> Inodes \cup {Nothing}] /\ data \in [Inodes -> SUBSET Files]
  /\ state \in [Inodes -> {"open", "closed", "torn", "left"}]
  /\ told \in [Archives -> Inodes \cup {Nothing}]
DirsOK ==
  /\ live \subseteq Files /\ edited \in BOOLEAN
  /\ staging \in [Mounts -> {Nothing} \cup SUBSET Files]
  /\ mounted \in [Mounts -> {Nothing} \cup MountType]

LEMMA TypeParts == TypeOK <=> ReqsOK /\ DiskOK /\ DirsOK
  BY DEF TypeOK, ReqsOK, DiskOK, DirsOK, ReqType, MountType

\* A request that reads or writes an archive has an inode in hand, and one that has not
\* begun to holds nothing.
Early == {"idle", "open", "remove", "clear", "reopen", "clean", "source", "unmount", "unstage", "list"}
Reading == {"walk", "sum", "extract", "fill", "rename"}
Shape == \A r \in Reqs :
  /\ req[r].pc \in Early => req[r].inode = Nothing /\ req[r].files = {} /\ req[r].todo = {}
  /\ req[r].pc \in Reading => req[r].inode # Nothing

Inv0 == TypeOK /\ Shape

LEMMA StepNames ==
  /\ "idle" \in Steps /\ "remove" \in Steps /\ "open" \in Steps /\ "walk" \in Steps /\ "sum" \in Steps
  /\ "undo" \in Steps /\ "clear" \in Steps /\ "reopen" \in Steps /\ "extract" \in Steps
  /\ "clean" \in Steps /\ "source" \in Steps /\ "fill" \in Steps /\ "rename" \in Steps
  /\ "discard" \in Steps /\ "unmount" \in Steps /\ "unstage" \in Steps /\ "list" \in Steps
  /\ "copy" \in Steps
  BY DEF Steps, CreateSteps, RestoreSteps, MountSteps, UnmountSteps, RestorePathSteps

\* A request moves on: to step pc, with inode i, files F done or to do, T to copy.
Moved(r, pc, i, F, T) ==
  /\ ReqsOK' /\ \A q \in Reqs \ {r} : req'[q] = req[q]
  /\ req'[r].pc = pc /\ req'[r].inode = i /\ req'[r].files = F /\ req'[r].todo = T
Same(r) == req'[r].backup = req[r].backup /\ req'[r].mount = req[r].mount

Begun(r, pc, b, m) ==
  /\ Moved(r, pc, Nothing, {}, {})
  /\ req[r].pc = "idle" /\ req'[r].backup = b /\ req'[r].mount = m
Went(r, pc) == Moved(r, pc, req[r].inode, req[r].files, req[r].todo) /\ Same(r)
Ended(r) == Moved(r, "idle", Nothing, {}, {}) /\ Same(r)

LEMMA BeginReq ==
  ASSUME ReqsOK, Shape, NEW r \in Reqs, NEW pc \in Steps, NEW b \in Archives, NEW m \in Mounts,
         Begin(r, pc, b, m)
  PROVE  Begun(r, pc, b, m)
<1>1. PICK q : q = [req[r] EXCEPT !.pc = pc, !.backup = b, !.mount = m]
  OBVIOUS
<1>2. req' = [req EXCEPT ![r] = q] /\ req[r].pc = "idle"
  BY <1>1 DEF Begin, At
<1>3. /\ req[r] \in ReqType
      /\ req[r].inode = Nothing /\ req[r].files = {} /\ req[r].todo = {}
  BY <1>2 DEF ReqsOK, Shape, Early
<1>4. /\ q \in ReqType /\ q.pc = pc /\ q.backup = b /\ q.mount = m
      /\ q.inode = Nothing /\ q.files = {} /\ q.todo = {}
  BY <1>1, <1>3 DEF ReqType
<1> QED BY <1>2, <1>4 DEF ReqsOK, Begun, Moved

LEMMA GotoReq ==
  ASSUME ReqsOK, NEW r \in Reqs, NEW pc \in Steps, Goto(r, pc)
  PROVE  Went(r, pc)
  BY DEF ReqsOK, ReqType, Goto, Went, Moved, Same

LEMMA FinishReq ==
  ASSUME ReqsOK, NEW r \in Reqs, Finish(r)
  PROVE  Ended(r)
  BY StepNames DEF ReqsOK, ReqType, Finish, NoRequest, Ended, Moved, Same

LEMMA HoldReq ==
  ASSUME ReqsOK, NEW r \in Reqs, NEW pc \in Steps, NEW i \in Inodes \cup {Nothing},
         req' = [req EXCEPT ![r].pc = pc, ![r].inode = i]
  PROVE  Moved(r, pc, i, req[r].files, req[r].todo) /\ Same(r)
  BY DEF ReqsOK, ReqType, Moved, Same

LEMMA OpenReq ==
  ASSUME ReqsOK, NEW r \in Reqs, NEW i \in Inodes, NEW F \in SUBSET Files,
         req' = [req EXCEPT ![r].pc = "walk", ![r].inode = i, ![r].files = F]
  PROVE  Moved(r, "walk", i, F, req[r].todo) /\ Same(r)
  BY StepNames DEF ReqsOK, ReqType, Moved, Same

LEMMA FilesReq ==
  ASSUME ReqsOK, NEW r \in Reqs, NEW F \in SUBSET Files, req' = [req EXCEPT ![r].files = F]
  PROVE  Moved(r, req[r].pc, req[r].inode, F, req[r].todo) /\ Same(r)
  BY DEF ReqsOK, ReqType, Moved, Same

LEMMA ListReq ==
  ASSUME ReqsOK, NEW r \in Reqs, NEW F \in SUBSET Files,
         req' = [req EXCEPT ![r].pc = "copy", ![r].todo = F]
  PROVE  Moved(r, "copy", req[r].inode, req[r].files, F) /\ Same(r)
  BY StepNames DEF ReqsOK, ReqType, Moved, Same

LEMMA CopyReq ==
  ASSUME ReqsOK, NEW r \in Reqs, NEW F \in SUBSET Files, NEW T \in SUBSET Files,
         req' = [req EXCEPT ![r].files = F, ![r].todo = T]
  PROVE  Moved(r, req[r].pc, req[r].inode, F, T) /\ Same(r)
  BY DEF ReqsOK, ReqType, Moved, Same

-----------------------------------------------------------------------------
(* What the steps do to their request.                                     *)
LEMMA CreateMoves ==
  ASSUME Inv0, NEW r \in Reqs
  PROVE  /\ \A b \in Archives : CreateStat(r, b) => Begun(r, "open", b, req[r].mount)
         /\ CreateOpen(r) => \/ \E i \in Inodes : Free(i) /\ Moved(r, "walk", i, live, req[r].todo) /\ Same(r)
                             \/ Went(r, "undo")
         /\ CreateWalk(r) => \E f \in live :
              Moved(r, "walk", req[r].inode, req[r].files \ {f}, req[r].todo) /\ Same(r)
         /\ CreateClose(r) => Went(r, "sum") \/ Went(r, "undo")
         /\ CreateSum(r) => Ended(r) \/ Went(r, "undo")
         /\ CreateUndo(r) => Ended(r)
<1>0. ReqsOK /\ DiskOK /\ DirsOK /\ Shape
  BY TypeParts DEF Inv0
<1>1. ASSUME NEW b \in Archives, CreateStat(r, b)
      PROVE  Begun(r, "open", b, req[r].mount)
  <2>1. req[r].mount \in Mounts
    BY <1>0 DEF ReqsOK, ReqType
  <2> QED BY <1>0, <1>1, <2>1, StepNames, BeginReq DEF CreateStat
<1>2. ASSUME CreateOpen(r)
      PROVE  \/ \E i \in Inodes : Free(i) /\ Moved(r, "walk", i, live, req[r].todo) /\ Same(r)
             \/ Went(r, "undo")
  <2>1. live \in SUBSET Files
    BY <1>0 DEF DirsOK
  <2>2. \/ \E i \in Inodes : Free(i) /\ req' = [req EXCEPT ![r].pc = "walk", ![r].inode = i, ![r].files = live]
        \/ Goto(r, "undo")
    BY <1>2 DEF CreateOpen
  <2> QED BY <1>0, <2>1, <2>2, StepNames, OpenReq, GotoReq
<1>3. ASSUME CreateWalk(r)
      PROVE  \E f \in live : Moved(r, "walk", req[r].inode, req[r].files \ {f}, req[r].todo) /\ Same(r)
  <2>1. PICK f \in live : req' = [req EXCEPT ![r].files = @ \ {f}]
    BY <1>3 DEF CreateWalk
  <2>2. req' = [req EXCEPT ![r].files = req[r].files \ {f}]
    BY <2>1
  <2>3. req[r].files \ {f} \in SUBSET Files /\ req[r].pc = "walk"
    BY <1>0, <1>3 DEF ReqsOK, ReqType, CreateWalk, At
  <2> QED BY <1>0, <2>2, <2>3, FilesReq
<1>4. CreateClose(r) => Went(r, "sum") \/ Went(r, "undo")
  BY <1>0, StepNames, GotoReq DEF CreateClose
<1>5. CreateSum(r) => Ended(r) \/ Went(r, "undo")
  BY <1>0, StepNames, GotoReq, FinishReq DEF CreateSum
<1>6. CreateUndo(r) => Ended(r)
  BY <1>0, FinishReq DEF CreateUndo
<1> QED BY <1>1, <1>2, <1>3, <1>4, <1>5, <1>6

LEMMA RestoreMoves ==
  ASSUME Inv0, NEW r \in Reqs
  PROVE  /\ \A b \in Archives : DeleteStat(r, b) => Begun(r, "remove", b, req[r].mount)
         /\ DeleteRemove(r) => Ended(r)
         /\ \A b \in Archives : RestoreStat(r, b) => Begun(r, "clear", b, req[r].mount)
         /\ RestoreClear(r) => Went(r, "reopen")
         /\ RestoreOpen(r) =>
              \/ Moved(r, "extract", name[req[r].backup], req[r].files, req[r].todo) /\ Same(r)
                 /\ Named(req[r].backup)
              \/ Ended(r)
         /\ RestoreExtract(r) => \E f \in data[req[r].inode] :
              /\ Moved(r, "extract", req[r].inode, req[r].files \cup {f}, req[r].todo) /\ Same(r)
              /\ live' = live \cup {f}
         /\ RestoreFails(r) \/ RestoreAnswers(r) => Ended(r)
<1>0. ReqsOK /\ DiskOK /\ DirsOK /\ Shape
  BY TypeParts DEF Inv0
<1>1. req[r].mount \in Mounts /\ req[r].backup \in Archives
      /\ name[req[r].backup] \in Inodes \cup {Nothing}
  BY <1>0 DEF ReqsOK, ReqType, DiskOK
<1>2. ASSUME NEW b \in Archives
      PROVE  /\ DeleteStat(r, b) => Begun(r, "remove", b, req[r].mount)
             /\ RestoreStat(r, b) => Begun(r, "clear", b, req[r].mount)
  BY <1>0, <1>1, StepNames, BeginReq DEF DeleteStat, RestoreStat
<1>3. DeleteRemove(r) \/ RestoreFails(r) \/ RestoreAnswers(r) => Ended(r)
  BY <1>0, FinishReq DEF DeleteRemove, RestoreFails, RestoreAnswers
<1>4. RestoreClear(r) => Went(r, "reopen")
  BY <1>0, StepNames, GotoReq DEF RestoreClear
<1>5. RestoreOpen(r) =>
        \/ Moved(r, "extract", name[req[r].backup], req[r].files, req[r].todo) /\ Same(r)
           /\ Named(req[r].backup)
        \/ Ended(r)
  BY <1>0, <1>1, StepNames, HoldReq, FinishReq DEF RestoreOpen
<1>6. ASSUME RestoreExtract(r)
      PROVE  \E f \in data[req[r].inode] :
               /\ Moved(r, "extract", req[r].inode, req[r].files \cup {f}, req[r].todo) /\ Same(r)
               /\ live' = live \cup {f}
  <2>1. req[r].pc = "extract"
    BY <1>6 DEF RestoreExtract, At
  <2>2. req[r].inode \in Inodes /\ data[req[r].inode] \subseteq Files
    BY <1>0, <2>1 DEF Shape, Reading, ReqsOK, ReqType, DiskOK
  <2>3. PICK f \in data[req[r].inode] : req' = [req EXCEPT ![r].files = @ \cup {f}] /\ live' = live \cup {f}
    BY <1>6 DEF RestoreExtract
  <2>4. req' = [req EXCEPT ![r].files = req[r].files \cup {f}]
    BY <2>3
  <2>5. req[r].files \cup {f} \in SUBSET Files
    BY <1>0, <2>2 DEF ReqsOK, ReqType
  <2> QED BY <1>0, <2>1, <2>3, <2>4, <2>5, FilesReq
<1> QED BY <1>2, <1>3, <1>4, <1>5, <1>6

LEMMA MountMoves ==
  ASSUME Inv0, NEW r \in Reqs
  PROVE  /\ \A b \in Archives, m \in Mounts : MountStat(r, b, m) => Begun(r, "clean", b, m)
         /\ MountClean(r) => Went(r, "source")
         /\ MountOpen(r) =>
              \/ Moved(r, "fill", name[req[r].backup], req[r].files, req[r].todo) /\ Same(r)
                 /\ Named(req[r].backup)
              \/ Went(r, "discard")
         /\ MountFill(r) => \E f \in data[req[r].inode] :
              /\ Moved(r, "fill", req[r].inode, req[r].files \cup {f}, req[r].todo) /\ Same(r)
              /\ staging' = [staging EXCEPT ![req[r].mount] =
                              (IF @ = Nothing THEN {} ELSE @) \cup {f}]
         /\ MountFilled(r) => Went(r, "rename") \/ Went(r, "discard")
         /\ MountRename(r) => Ended(r) \/ Went(r, "discard")
         /\ MountDiscard(r) => Ended(r)
<1>0. ReqsOK /\ DiskOK /\ DirsOK /\ Shape
  BY TypeParts DEF Inv0
<1>1. req[r].mount \in Mounts /\ req[r].backup \in Archives
      /\ name[req[r].backup] \in Inodes \cup {Nothing}
  BY <1>0 DEF ReqsOK, ReqType, DiskOK
<1>2. ASSUME NEW b \in Archives, NEW m \in Mounts, MountStat(r, b, m)
      PROVE  Begun(r, "clean", b, m)
  BY <1>0, <1>2, StepNames, BeginReq DEF MountStat
<1>3. MountClean(r) => Went(r, "source")
  BY <1>0, StepNames, GotoReq DEF MountClean
<1>4. MountOpen(r) =>
        \/ Moved(r, "fill", name[req[r].backup], req[r].files, req[r].todo) /\ Same(r)
           /\ Named(req[r].backup)
        \/ Went(r, "discard")
  BY <1>0, <1>1, StepNames, HoldReq, GotoReq DEF MountOpen
<1>5. ASSUME MountFill(r)
      PROVE  \E f \in data[req[r].inode] :
               /\ Moved(r, "fill", req[r].inode, req[r].files \cup {f}, req[r].todo) /\ Same(r)
               /\ staging' = [staging EXCEPT ![req[r].mount] =
                               (IF @ = Nothing THEN {} ELSE @) \cup {f}]
  <2>1. req[r].pc = "fill"
    BY <1>5 DEF MountFill, At
  <2>2. req[r].inode \in Inodes /\ data[req[r].inode] \subseteq Files
    BY <1>0, <2>1 DEF Shape, Reading, ReqsOK, ReqType, DiskOK
  <2>3. PICK f \in data[req[r].inode] :
          /\ req' = [req EXCEPT ![r].files = @ \cup {f}]
          /\ staging' = [staging EXCEPT ![req[r].mount] = (IF staging[req[r].mount] = Nothing THEN {}
                                                           ELSE staging[req[r].mount]) \cup {f}]
    BY <1>5 DEF MountFill
  <2>4. req' = [req EXCEPT ![r].files = req[r].files \cup {f}]
    BY <2>3
  <2>5. req[r].files \cup {f} \in SUBSET Files
    BY <1>0, <2>2 DEF ReqsOK, ReqType
  <2>6. Moved(r, "fill", req[r].inode, req[r].files \cup {f}, req[r].todo) /\ Same(r)
    BY <1>0, <2>1, <2>4, <2>5, FilesReq
  <2> QED BY <2>3, <2>6
<1>6. MountFilled(r) => Went(r, "rename") \/ Went(r, "discard")
  BY <1>0, StepNames, GotoReq DEF MountFilled
<1>7. MountRename(r) => Ended(r) \/ Went(r, "discard")
  BY <1>0, StepNames, GotoReq, FinishReq DEF MountRename
<1>8. MountDiscard(r) => Ended(r)
  BY <1>0, FinishReq DEF MountDiscard
<1> QED BY <1>2, <1>3, <1>4, <1>5, <1>6, <1>7, <1>8

LEMMA PathMoves ==
  ASSUME Inv0, NEW r \in Reqs
  PROVE  /\ \A m \in Mounts : /\ Unmount(r, m) => Begun(r, "unmount", req[r].backup, m)
                              /\ RestorePath(r, m) => Begun(r, "list", req[r].backup, m)
         /\ UnmountRemove(r) => Went(r, "unstage") \/ UNCHANGED req
         /\ Unstage(r) => Ended(r)
         /\ RestoreList(r) => \/ Ended(r)
                              \/ /\ mounted[req[r].mount] # Nothing /\ Same(r)
                                 /\ Moved(r, "copy", req[r].inode, req[r].files, mounted[req[r].mount].files)
         /\ RestoreCopy(r) =>
              \/ \E f \in req[r].todo :
                   Moved(r, "copy", req[r].inode, req[r].files \cup {f}, req[r].todo \ {f}) /\ Same(r)
              \/ Ended(r)
         /\ PathRestored(r) => Ended(r)
<1>0. ReqsOK /\ DiskOK /\ DirsOK /\ Shape
  BY TypeParts DEF Inv0
<1>1. req[r].mount \in Mounts /\ req[r].backup \in Archives
      /\ req[r].files \subseteq Files /\ req[r].todo \subseteq Files
  BY <1>0 DEF ReqsOK, ReqType
<1>2. ASSUME NEW m \in Mounts
      PROVE  /\ Unmount(r, m) => Begun(r, "unmount", req[r].backup, m)
             /\ RestorePath(r, m) => Begun(r, "list", req[r].backup, m)
  BY <1>0, <1>1, StepNames, BeginReq DEF Unmount, RestorePath
<1>3. UnmountRemove(r) => Went(r, "unstage") \/ UNCHANGED req
  BY <1>0, StepNames, GotoReq DEF UnmountRemove
<1>4. Unstage(r) \/ PathRestored(r) => Ended(r)
  BY <1>0, FinishReq DEF Unstage, PathRestored
<1>5. ASSUME RestoreList(r)
      PROVE  \/ Ended(r)
             \/ /\ mounted[req[r].mount] # Nothing /\ Same(r)
                /\ Moved(r, "copy", req[r].inode, req[r].files, mounted[req[r].mount].files)
  <2>1. CASE mounted[req[r].mount] = Nothing
    BY <1>0, <1>5, <2>1, FinishReq DEF RestoreList
  <2>2. CASE mounted[req[r].mount] # Nothing
    <3>1. mounted[req[r].mount].files \in SUBSET Files
      BY <1>0, <1>1, <2>2 DEF DirsOK, MountType
    <3> QED BY <1>0, <1>5, <2>2, <3>1, ListReq DEF RestoreList
  <2> QED BY <2>1, <2>2
<1>6. ASSUME RestoreCopy(r)
      PROVE  \/ \E f \in req[r].todo :
                  Moved(r, "copy", req[r].inode, req[r].files \cup {f}, req[r].todo \ {f}) /\ Same(r)
             \/ Ended(r)
  <2>1. PICK f \in req[r].todo :
          \/ req' = [req EXCEPT ![r].files = @ \cup {f}, ![r].todo = @ \ {f}]
          \/ Finish(r)
    BY <1>6 DEF RestoreCopy, CopyFails
  <2>2. CASE req' = [req EXCEPT ![r].files = @ \cup {f}, ![r].todo = @ \ {f}]
    <3>1. req' = [req EXCEPT ![r].files = req[r].files \cup {f}, ![r].todo = req[r].todo \ {f}]
      BY <2>2
    <3>2. req[r].files \cup {f} \in SUBSET Files /\ req[r].todo \ {f} \in SUBSET Files
      BY <1>1
    <3>3. req[r].pc = "copy"
      BY <1>6 DEF RestoreCopy, At
    <3> QED BY <1>0, <3>1, <3>2, <3>3, CopyReq
  <2> QED BY <1>0, <2>1, <2>2, FinishReq
<1> QED BY <1>2, <1>3, <1>4, <1>5, <1>6

-----------------------------------------------------------------------------
(* The steps of one request by what it is about, and all other steps.      *)
CreateAct(r) ==
  \/ \E b \in Archives : CreateStat(r, b)
  \/ CreateOpen(r) \/ CreateWalk(r) \/ CreateClose(r) \/ CreateSum(r) \/ CreateUndo(r)
RestoreAct(r) ==
  \/ \E b \in Archives : DeleteStat(r, b) \/ RestoreStat(r, b)
  \/ DeleteRemove(r)
  \/ RestoreClear(r) \/ RestoreOpen(r) \/ RestoreExtract(r) \/ RestoreFails(r) \/ RestoreAnswers(r)
MountAct(r) ==
  \/ \E b \in Archives, m \in Mounts : MountStat(r, b, m)
  \/ MountClean(r) \/ MountOpen(r) \/ MountFill(r) \/ MountFilled(r) \/ MountRename(r) \/ MountDiscard(r)
PathAct(r) ==
  \/ \E m \in Mounts : Unmount(r, m) \/ RestorePath(r, m)
  \/ UnmountRemove(r) \/ Unstage(r) \/ RestoreList(r) \/ RestoreCopy(r) \/ PathRestored(r)
Outside ==
  \/ \E m \in Mounts, f \in Files : RestoreFile(m, f)
  \/ \E b \in Archives, f \in Files : ExtractPath(b, f)
  \/ \E f \in Files : Edit(f)

LEMMA Families ==
  ASSUME [Next]_vars
  PROVE  \/ \E r \in Reqs : CreateAct(r) \/ RestoreAct(r) \/ MountAct(r) \/ PathAct(r)
         \/ Outside \/ Crash \/ UNCHANGED vars
  BY DEF Next, RequestStep, CreateAct, RestoreAct, MountAct, PathAct, Outside

\* The request stays within the steps S of its kind, and the others stay put.
Within(r, S) ==
  /\ \A q \in Reqs \ {r} : req'[q] = req[q]
  /\ req[r].pc \in S \cup {"idle"} /\ req'[r].pc \in S \cup {"idle"}

LEMMA ShapeMoved ==
  ASSUME Shape, NEW r \in Reqs, NEW pc, NEW i, NEW F, NEW T, Moved(r, pc, i, F, T),
         pc \in Early => i = Nothing /\ F = {} /\ T = {},
         pc \in Reading => i # Nothing
  PROVE  ReqsOK' /\ Shape'
  BY DEF Shape, Moved

LEMMA CreateWithin ==
  ASSUME Inv0, NEW r \in Reqs, CreateAct(r)
  PROVE  ReqsOK' /\ Shape' /\ Within(r, CreateSteps) /\ UNCHANGED <<cell, mounts>>
<1>0. Shape
  BY DEF Inv0
<1>1. ASSUME NEW b \in Archives, CreateStat(r, b)
      PROVE  ReqsOK' /\ Shape' /\ Within(r, CreateSteps)
  <2>1. Begun(r, "open", b, req[r].mount)
    BY <1>1, CreateMoves
  <2> QED BY <1>0, <2>1, ShapeMoved DEF Begun, Within, Moved, CreateSteps, Reading
<1>2. ASSUME CreateOpen(r)
      PROVE  ReqsOK' /\ Shape' /\ Within(r, CreateSteps)
  <2>0. req[r].pc = "open"
    BY <1>2 DEF CreateOpen, At
  <2>1. CASE \E i \in Inodes : Moved(r, "walk", i, live, req[r].todo)
    <3>1. PICK i \in Inodes : Moved(r, "walk", i, live, req[r].todo)
      BY <2>1
    <3> QED BY <1>0, <2>0, <3>1, ShapeMoved, BackupsAssumption DEF Within, Moved, CreateSteps, Early
  <2>2. CASE Went(r, "undo")
    BY <1>0, <2>0, <2>2, ShapeMoved DEF Went, Within, Moved, CreateSteps, Early, Reading
  <2> QED BY <1>2, <2>1, <2>2, CreateMoves
<1>3. ASSUME CreateWalk(r)
      PROVE  ReqsOK' /\ Shape' /\ Within(r, CreateSteps)
  <2>0. req[r].pc = "walk"
    BY <1>3 DEF CreateWalk, At
  <2>1. PICK f \in live : Moved(r, "walk", req[r].inode, req[r].files \ {f}, req[r].todo)
    BY <1>3, CreateMoves
  <2>2. req[r].inode # Nothing
    BY <1>0, <2>0 DEF Shape, Reading
  <2> QED BY <1>0, <2>0, <2>1, <2>2, ShapeMoved DEF Within, Moved, CreateSteps, Early
<1>4. ASSUME CreateClose(r)
      PROVE  ReqsOK' /\ Shape' /\ Within(r, CreateSteps)
  <2>0. req[r].pc = "walk"
    BY <1>4 DEF CreateClose, At
  <2>1. Went(r, "sum") \/ Went(r, "undo")
    BY <1>4, CreateMoves
  <2>2. req[r].inode # Nothing
    BY <1>0, <2>0 DEF Shape, Reading
  <2> QED BY <1>0, <2>0, <2>1, <2>2, ShapeMoved DEF Went, Within, Moved, CreateSteps, Early, Reading
<1>5. ASSUME CreateSum(r) \/ CreateUndo(r)
      PROVE  ReqsOK' /\ Shape' /\ Within(r, CreateSteps)
  <2>0. req[r].pc \in {"sum", "undo"}
    BY <1>5 DEF CreateSum, CreateUndo, At
  <2>1. Ended(r) \/ Went(r, "undo")
    BY <1>5, CreateMoves
  <2> QED BY <1>0, <2>0, <2>1, ShapeMoved DEF Ended, Went, Within, Moved, CreateSteps, Early, Reading
<1>6. UNCHANGED <<cell, mounts>>
  BY DEF CreateAct, CreateStat, CreateOpen, CreateWalk, CreateClose, CreateSum, CreateUndo
<1> QED BY <1>1, <1>2, <1>3, <1>4, <1>5, <1>6 DEF CreateAct

LEMMA RestoreWithin ==
  ASSUME Inv0, NEW r \in Reqs, RestoreAct(r)
  PROVE  /\ ReqsOK' /\ Shape' /\ Within(r, RestoreSteps \cup {"remove"}) /\ UNCHANGED <<data, state, mounts>>
         /\ DeleteRemove(r) \/ UNCHANGED <<name, told>>
<1> DEFINE P == ReqsOK' /\ Shape' /\ Within(r, RestoreSteps \cup {"remove"})
<1>0. Shape
  BY DEF Inv0
<1>1. ASSUME NEW b \in Archives, DeleteStat(r, b) \/ RestoreStat(r, b)
      PROVE  P
  <2>1. Begun(r, "remove", b, req[r].mount) \/ Begun(r, "clear", b, req[r].mount)
    BY <1>1, RestoreMoves
  <2> QED BY <1>0, <2>1, ShapeMoved DEF Begun, Within, Moved, RestoreSteps, Reading
<1>2. ASSUME DeleteRemove(r) \/ RestoreFails(r) \/ RestoreAnswers(r)
      PROVE  P
  <2>0. req[r].pc \in {"remove", "extract"}
    BY <1>2 DEF DeleteRemove, RestoreFails, RestoreAnswers, At
  <2>1. Ended(r)
    BY <1>2, RestoreMoves
  <2> QED BY <1>0, <2>0, <2>1, ShapeMoved DEF Ended, Within, Moved, RestoreSteps, Reading
<1>3. ASSUME RestoreClear(r)
      PROVE  P
  <2>0. req[r].pc = "clear"
    BY <1>3 DEF RestoreClear, At
  <2>1. Went(r, "reopen")
    BY <1>3, RestoreMoves
  <2>2. req[r].inode = Nothing /\ req[r].files = {} /\ req[r].todo = {}
    BY <1>0, <2>0 DEF Shape, Early
  <2> QED BY <1>0, <2>0, <2>1, <2>2, ShapeMoved DEF Went, Within, Moved, RestoreSteps, Reading
<1>4. ASSUME RestoreOpen(r)
      PROVE  P
  <2>0. req[r].pc = "reopen"
    BY <1>4 DEF RestoreOpen, At
  <2>1. CASE Moved(r, "extract", name[req[r].backup], req[r].files, req[r].todo) /\ Named(req[r].backup)
    BY <1>0, <2>0, <2>1, ShapeMoved DEF Named, Within, Moved, RestoreSteps, Early
  <2>2. CASE Ended(r)
    BY <1>0, <2>0, <2>2, ShapeMoved DEF Ended, Within, Moved, RestoreSteps, Reading
  <2> QED BY <1>4, <2>1, <2>2, RestoreMoves
<1>5. ASSUME RestoreExtract(r)
      PROVE  P
  <2>0. req[r].pc = "extract"
    BY <1>5 DEF RestoreExtract, At
  <2>1. PICK f : Moved(r, "extract", req[r].inode, req[r].files \cup {f}, req[r].todo)
    BY <1>5, RestoreMoves
  <2>2. req[r].inode # Nothing
    BY <1>0, <2>0 DEF Shape, Reading
  <2> QED BY <1>0, <2>0, <2>1, <2>2, ShapeMoved DEF Within, Moved, RestoreSteps, Early
<1>6. UNCHANGED <<data, state, mounts>> /\ (DeleteRemove(r) \/ UNCHANGED <<name, told>>)
  BY DEF RestoreAct, DeleteStat, DeleteRemove, RestoreStat, RestoreClear, RestoreOpen, RestoreExtract,
         RestoreFails, RestoreAnswers, disk
<1> QED BY <1>1, <1>2, <1>3, <1>4, <1>5, <1>6 DEF RestoreAct

LEMMA MountWithin ==
  ASSUME Inv0, NEW r \in Reqs, MountAct(r)
  PROVE  ReqsOK' /\ Shape' /\ Within(r, MountSteps) /\ UNCHANGED <<disk, told, cell>>
<1> DEFINE P == ReqsOK' /\ Shape' /\ Within(r, MountSteps)
<1>0. Shape
  BY DEF Inv0
<1>1. ASSUME NEW b \in Archives, NEW m \in Mounts, MountStat(r, b, m)
      PROVE  P
  <2>1. Begun(r, "clean", b, m)
    BY <1>1, MountMoves
  <2> QED BY <1>0, <2>1, ShapeMoved DEF Begun, Within, Moved, MountSteps, Reading
<1>2. ASSUME MountClean(r)
      PROVE  P
  <2>0. req[r].pc = "clean"
    BY <1>2 DEF MountClean, At
  <2>1. Went(r, "source")
    BY <1>2, MountMoves
  <2>2. req[r].inode = Nothing /\ req[r].files = {} /\ req[r].todo = {}
    BY <1>0, <2>0 DEF Shape, Early
  <2> QED BY <1>0, <2>0, <2>1, <2>2, ShapeMoved DEF Went, Within, Moved, MountSteps, Reading
<1>3. ASSUME MountOpen(r)
      PROVE  P
  <2>0. req[r].pc = "source"
    BY <1>3 DEF MountOpen, At
  <2>1. CASE Moved(r, "fill", name[req[r].backup], req[r].files, req[r].todo) /\ Named(req[r].backup)
    BY <1>0, <2>0, <2>1, ShapeMoved DEF Named, Within, Moved, MountSteps, Early
  <2>2. CASE Went(r, "discard")
    BY <1>0, <2>0, <2>2, ShapeMoved DEF Went, Within, Moved, MountSteps, Early, Reading
  <2> QED BY <1>3, <2>1, <2>2, MountMoves
<1>4. ASSUME MountFill(r)
      PROVE  P
  <2>0. req[r].pc = "fill"
    BY <1>4 DEF MountFill, At
  <2>1. PICK f : Moved(r, "fill", req[r].inode, req[r].files \cup {f}, req[r].todo)
    BY <1>4, MountMoves
  <2>2. req[r].inode # Nothing
    BY <1>0, <2>0 DEF Shape, Reading
  <2> QED BY <1>0, <2>0, <2>1, <2>2, ShapeMoved DEF Within, Moved, MountSteps, Early
<1>5. ASSUME MountFilled(r)
      PROVE  P
  <2>0. req[r].pc = "fill"
    BY <1>5 DEF MountFilled, At
  <2>1. Went(r, "rename") \/ Went(r, "discard")
    BY <1>5, MountMoves
  <2>2. req[r].inode # Nothing
    BY <1>0, <2>0 DEF Shape, Reading
  <2> QED BY <1>0, <2>0, <2>1, <2>2, ShapeMoved DEF Went, Within, Moved, MountSteps, Early, Reading
<1>6. ASSUME MountRename(r) \/ MountDiscard(r)
      PROVE  P
  <2>0. req[r].pc \in {"rename", "discard"}
    BY <1>6 DEF MountRename, MountDiscard, At
  <2>1. Ended(r) \/ Went(r, "discard")
    BY <1>6, MountMoves
  <2> QED BY <1>0, <2>0, <2>1, ShapeMoved DEF Ended, Went, Within, Moved, MountSteps, Early, Reading
<1>7. UNCHANGED <<disk, told, cell>>
  BY DEF MountAct, MountStat, MountClean, MountOpen, MountFill, MountFilled, MountRename, MountDiscard
<1> QED BY <1>1, <1>2, <1>3, <1>4, <1>5, <1>6, <1>7 DEF MountAct

LEMMA PathWithin ==
  ASSUME Inv0, NEW r \in Reqs, PathAct(r)
  PROVE  /\ ReqsOK' /\ Shape' /\ Within(r, UnmountSteps \cup RestorePathSteps) /\ UNCHANGED <<disk, told>>
<1> DEFINE P == ReqsOK' /\ Shape' /\ Within(r, UnmountSteps \cup RestorePathSteps)
<1>0. Shape
  BY DEF Inv0
<1>1. ASSUME NEW m \in Mounts, Unmount(r, m) \/ RestorePath(r, m)
      PROVE  P
  <2>1. Begun(r, "unmount", req[r].backup, m) \/ Begun(r, "list", req[r].backup, m)
    BY <1>1, PathMoves
  <2> QED BY <1>0, <2>1, ShapeMoved DEF Begun, Within, Moved, UnmountSteps, RestorePathSteps, Reading
<1>2. ASSUME UnmountRemove(r)
      PROVE  P
  <2>0. req[r].pc = "unmount"
    BY <1>2 DEF UnmountRemove, At
  <2>1. CASE Went(r, "unstage")
    <3>1. req[r].inode = Nothing /\ req[r].files = {} /\ req[r].todo = {}
      BY <1>0, <2>0 DEF Shape, Early
    <3> QED BY <1>0, <2>0, <2>1, <3>1, ShapeMoved DEF Went, Within, Moved, UnmountSteps, Reading
  <2>2. CASE UNCHANGED req
    BY <1>0, <2>0, <2>2, TypeParts DEF Inv0, Shape, ReqsOK, Within, UnmountSteps
  <2> QED BY <1>2, <2>1, <2>2, PathMoves
<1>3. ASSUME Unstage(r) \/ PathRestored(r)
      PROVE  P
  <2>0. req[r].pc \in {"unstage", "copy"}
    BY <1>3 DEF Unstage, PathRestored, At
  <2>1. Ended(r)
    BY <1>3, PathMoves
  <2> QED BY <1>0, <2>0, <2>1, ShapeMoved DEF Ended, Within, Moved, UnmountSteps, RestorePathSteps, Reading
<1>4. ASSUME RestoreList(r)
      PROVE  P
  <2>0. req[r].pc = "list"
    BY <1>4 DEF RestoreList, At
  <2>1. CASE Moved(r, "copy", req[r].inode, req[r].files, mounted[req[r].mount].files)
    BY <1>0, <2>0, <2>1, ShapeMoved DEF Within, Moved, RestorePathSteps, Early, Reading
  <2>2. CASE Ended(r)
    BY <1>0, <2>0, <2>2, ShapeMoved DEF Ended, Within, Moved, RestorePathSteps, Reading
  <2> QED BY <1>4, <2>1, <2>2, PathMoves
<1>5. ASSUME RestoreCopy(r)
      PROVE  P
  <2>0. req[r].pc = "copy"
    BY <1>5 DEF RestoreCopy, At
  <2>1. CASE \E f \in req[r].todo : Moved(r, "copy", req[r].inode, req[r].files \cup {f}, req[r].todo \ {f})
    <3>1. PICK f \in req[r].todo : Moved(r, "copy", req[r].inode, req[r].files \cup {f}, req[r].todo \ {f})
      BY <2>1
    <3> QED BY <1>0, <2>0, <3>1, ShapeMoved DEF Within, Moved, RestorePathSteps, Early, Reading
  <2>2. CASE Ended(r)
    BY <1>0, <2>0, <2>2, ShapeMoved DEF Ended, Within, Moved, RestorePathSteps, Reading
  <2> QED BY <1>5, <2>1, <2>2, PathMoves
<1>6. UNCHANGED <<disk, told>>
  BY DEF PathAct, Unmount, RestorePath, UnmountRemove, Unstage, RestoreList, RestoreCopy, PathRestored
<1> QED BY <1>1, <1>2, <1>3, <1>4, <1>5, <1>6 DEF PathAct

LEMMA OthersStep ==
  ASSUME Inv0
  PROVE  /\ Outside => UNCHANGED <<disk, told, mounts, req>> /\ edited' = TRUE
         /\ Crash => /\ \A r \in Reqs : /\ req'[r].pc = "idle" /\ req'[r].inode = Nothing
                                        /\ req'[r].files = {} /\ req'[r].todo = {}
                     /\ ReqsOK' /\ UNCHANGED <<name, data, told, cell, mounts>>
<1>1. ReqsOK
  BY TypeParts DEF Inv0
<1>2. Crash => /\ \A r \in Reqs : /\ req'[r].pc = "idle" /\ req'[r].inode = Nothing
                                  /\ req'[r].files = {} /\ req'[r].todo = {}
               /\ ReqsOK'
  <2> SUFFICES ASSUME Crash
               PROVE  /\ \A r \in Reqs : /\ req'[r].pc = "idle" /\ req'[r].inode = Nothing
                                         /\ req'[r].files = {} /\ req'[r].todo = {}
                      /\ ReqsOK'
    OBVIOUS
  <2>1. req' = [r \in Reqs |-> NoRequest(r)]
    BY DEF Crash
  <2>2. ASSUME NEW r \in Reqs
        PROVE  /\ NoRequest(r) \in ReqType
               /\ NoRequest(r).pc = "idle" /\ NoRequest(r).inode = Nothing
               /\ NoRequest(r).files = {} /\ NoRequest(r).todo = {}
    BY <1>1, StepNames DEF NoRequest, ReqsOK, ReqType
  <2> QED BY <2>1, <2>2 DEF ReqsOK
<1>3. Outside => UNCHANGED <<disk, told, mounts, req>> /\ edited' = TRUE
  BY DEF Outside, RestoreFile, ExtractPath, Edit
<1> QED BY <1>2, <1>3 DEF Crash

LEMMA ReqsStep ==
  ASSUME Inv0, [Next]_vars
  PROVE  ReqsOK' /\ Shape'
<1>1. ASSUME NEW r \in Reqs, CreateAct(r) \/ RestoreAct(r) \/ MountAct(r) \/ PathAct(r)
      PROVE  ReqsOK' /\ Shape'
  BY <1>1, CreateWithin, RestoreWithin, MountWithin, PathWithin
<1>2. CASE Outside \/ UNCHANGED vars
  <2>1. ReqsOK /\ Shape
    BY TypeParts DEF Inv0
  <2>2. req' = req
    BY <1>2, OthersStep DEF vars
  <2> QED BY <2>1, <2>2 DEF Shape, ReqsOK
<1>3. CASE Crash
  BY <1>3, OthersStep DEF Shape, Reading
<1> QED BY <1>1, <1>2, <1>3, Families

LEMMA DiskStep ==
  ASSUME Inv0, [Next]_vars
  PROVE  DiskOK'
<1>0. ReqsOK /\ DiskOK /\ DirsOK /\ Shape
  BY TypeParts DEF Inv0
<1>1. CASE \E r \in Reqs : MountAct(r) \/ PathAct(r)
  <2>1. UNCHANGED <<disk, told>>
    BY <1>1, MountWithin, PathWithin
  <2> QED BY <1>0, <2>1 DEF DiskOK, disk
<1>2. CASE Outside \/ UNCHANGED vars
  <2>1. UNCHANGED <<disk, told>>
    BY <1>2, OthersStep DEF vars
  <2> QED BY <1>0, <2>1 DEF DiskOK, disk
<1>3. CASE Crash
  <2>1. UNCHANGED <<name, data, told>>
    BY <1>3, OthersStep
  <2>2. state' \in [Inodes -> {"open", "closed", "torn", "left"}]
    BY <1>0, <1>3 DEF Crash, DiskOK
  <2> QED BY <1>0, <2>1, <2>2 DEF DiskOK
<1>4. ASSUME NEW r \in Reqs, RestoreAct(r)
      PROVE  DiskOK'
  <2>1. UNCHANGED <<data, state>> /\ (DeleteRemove(r) \/ UNCHANGED <<name, told>>)
    BY <1>4, RestoreWithin
  <2>2. CASE DeleteRemove(r)
    BY <1>0, <2>1, <2>2 DEF DeleteRemove, Forget, DiskOK
  <2>3. CASE UNCHANGED <<name, told>>
    BY <1>0, <2>1, <2>3 DEF DiskOK
  <2> QED BY <2>1, <2>2, <2>3
<1>5. ASSUME NEW r \in Reqs, CreateAct(r)
      PROVE  DiskOK'
  <2>0. req[r].backup \in Archives /\ name[req[r].backup] \in Inodes \cup {Nothing}
    BY <1>0 DEF ReqsOK, ReqType, DiskOK
  <2>1. ASSUME NEW b \in Archives, CreateStat(r, b)
        PROVE  DiskOK'
    BY <1>0, <2>1 DEF CreateStat, DiskOK, disk
  <2>2. CASE CreateOpen(r)
    <3>1. CASE UNCHANGED disk
      BY <1>0, <2>2, <3>1 DEF CreateOpen, DiskOK, disk
    <3>2. CASE ~UNCHANGED disk
      <4>1. PICK i \in Inodes : /\ name' = [name EXCEPT ![req[r].backup] = i]
                                /\ data' = [data EXCEPT ![i] = {}]
                                /\ state' = [state EXCEPT ![i] = "open"]
        BY <2>2, <3>2 DEF CreateOpen
      <4>2. UNCHANGED told
        BY <2>2 DEF CreateOpen
      <4> QED BY <1>0, <2>0, <4>1, <4>2 DEF DiskOK
    <3> QED BY <3>1, <3>2
  <2>3. CASE CreateWalk(r)
    <3>1. PICK f \in req[r].files \cap live : data' = [data EXCEPT ![req[r].inode] = @ \cup {f}]
      BY <2>3 DEF CreateWalk, Append
    <3>2. f \in Files /\ UNCHANGED <<name, state, told>>
      BY <1>0, <2>3 DEF CreateWalk, DirsOK
    <3> QED BY <1>0, <3>1, <3>2 DEF DiskOK
  <2>4. CASE CreateClose(r)
    BY <1>0, <2>4 DEF CreateClose, DiskOK
  <2>5. CASE CreateSum(r)
    <3>1. UNCHANGED disk
      BY <2>5 DEF CreateSum
    <3>2. told' = [told EXCEPT ![req[r].backup] = name[req[r].backup]] \/ UNCHANGED told
      BY <2>5 DEF CreateSum
    <3> QED BY <1>0, <2>0, <3>1, <3>2 DEF DiskOK, disk
  <2>6. CASE CreateUndo(r)
    BY <1>0, <2>0, <2>6 DEF CreateUndo, RemoveTarget, Forget, DiskOK
  <2> QED BY <1>5, <2>1, <2>2, <2>3, <2>4, <2>5, <2>6 DEF CreateAct
<1> QED BY <1>1, <1>2, <1>3, <1>4, <1>5, Families

\* What the steps of a RestorePath, an Unmount and an Edit leave in the directories.
LEMMA DirsStep ==
  ASSUME Inv0, [Next]_vars
  PROVE  DirsOK'
<1>0. ReqsOK /\ DiskOK /\ DirsOK /\ Shape
  BY TypeParts DEF Inv0
<1>1. CASE Crash \/ (\E r \in Reqs : CreateAct(r)) \/ UNCHANGED vars
  <2>1. UNCHANGED <<cell, mounts>>
    BY <1>1, OthersStep, CreateWithin DEF vars
  <2> QED BY <1>0, <2>1 DEF DirsOK, cell, mounts
<1>2. CASE Outside
  <2>1. live' \subseteq Files
    BY <1>0, <1>2 DEF Outside, RestoreFile, ExtractPath, Edit, DirsOK
  <2>2. UNCHANGED mounts /\ edited' = TRUE
    BY <1>2, OthersStep
  <2> QED BY <1>0, <2>1, <2>2 DEF DirsOK, mounts
<1>3. ASSUME NEW r \in Reqs, RestoreAct(r)
      PROVE  DirsOK'
  <2>1. UNCHANGED mounts
    BY <1>3, RestoreWithin
  <2>2. live' \subseteq Files /\ edited' \in BOOLEAN
    <3>1. CASE UNCHANGED cell
      BY <1>0, <3>1 DEF DirsOK, cell
    <3>2. CASE RestoreClear(r)
      BY <3>2 DEF RestoreClear, ClearLive
    <3>3. CASE RestoreExtract(r)
      <4>1. req[r].inode \in Inodes
        BY <1>0, <3>3 DEF RestoreExtract, At, Shape, Reading, ReqsOK, ReqType
      <4>2. PICK f \in data[req[r].inode] : live' = live \cup {f}
        BY <3>3 DEF RestoreExtract
      <4>3. f \in Files
        BY <1>0, <4>1, <4>2 DEF DiskOK
      <4> QED BY <1>0, <3>3, <4>2, <4>3 DEF RestoreExtract, DirsOK
    <3> QED BY <1>3, <3>1, <3>2, <3>3 DEF RestoreAct, DeleteStat, DeleteRemove, RestoreStat, RestoreOpen,
             RestoreFails, RestoreAnswers
  <2> QED BY <1>0, <2>1, <2>2 DEF DirsOK, mounts
<1>4. ASSUME NEW r \in Reqs, MountAct(r)
      PROVE  DirsOK'
  <2>0. UNCHANGED cell /\ req[r].mount \in Mounts
    BY <1>0, <1>4, MountWithin DEF ReqsOK, ReqType
  <2>1. CASE UNCHANGED mounts
    BY <1>0, <2>0, <2>1 DEF DirsOK, cell, mounts
  <2>2. CASE MountClean(r) \/ MountDiscard(r)
    BY <1>0, <2>0, <2>2 DEF MountClean, MountDiscard, DirsOK, cell
  <2>3. CASE MountFill(r)
    <3>1. req[r].inode \in Inodes
      BY <1>0, <2>3 DEF MountFill, At, Shape, Reading, ReqsOK, ReqType
    <3>2. PICK f \in data[req[r].inode] :
            staging' = [staging EXCEPT ![req[r].mount] = (IF @ = Nothing THEN {} ELSE @) \cup {f}]
      BY <2>3, MountMoves
    <3>3. (IF staging[req[r].mount] = Nothing THEN {} ELSE staging[req[r].mount]) \cup {f} \in SUBSET Files
      BY <1>0, <2>0, <3>1, <3>2 DEF DiskOK, DirsOK
    <3>4. staging' \in [Mounts -> {Nothing} \cup SUBSET Files]
      BY <1>0, <3>2, <3>3 DEF DirsOK
    <3> QED BY <1>0, <2>0, <2>3, <3>4 DEF MountFill, DirsOK, cell
  <2>4. CASE MountRename(r) /\ ~UNCHANGED mounts
    <3>1. req[r].inode \in Inodes
      BY <1>0, <2>4 DEF MountRename, At, Shape, Reading, ReqsOK, ReqType
    <3>2. staging[req[r].mount] # Nothing
      BY <2>4 DEF MountRename
    <3>3. [files |-> staging[req[r].mount], want |-> data[req[r].inode], leaving |-> FALSE] \in MountType
      BY <1>0, <2>0, <3>1, <3>2 DEF DiskOK, DirsOK, MountType
    <3>4. /\ mounted' = [mounted EXCEPT ![req[r].mount] =
               [files |-> staging[req[r].mount], want |-> data[req[r].inode], leaving |-> FALSE]]
          /\ staging' = [staging EXCEPT ![req[r].mount] = Nothing]
      BY <2>4 DEF MountRename
    <3> QED BY <1>0, <2>0, <3>3, <3>4 DEF DirsOK, cell
  <2> QED BY <1>4, <2>1, <2>2, <2>3, <2>4 DEF MountAct, MountStat, MountOpen, MountFilled
<1>5. ASSUME NEW r \in Reqs, PathAct(r)
      PROVE  DirsOK'
  <2>0. req[r].mount \in Mounts
    BY <1>0 DEF ReqsOK, ReqType
  <2>1. ASSUME NEW m \in Mounts, Unmount(r, m), mounted[m] # Nothing
        PROVE  DirsOK'
    <3>1. mounted[m] \in MountType
      BY <1>0, <2>1 DEF DirsOK
    <3>2. [mounted[m] EXCEPT !.leaving = TRUE] \in MountType
      BY <3>1 DEF MountType
    <3>3. mounted' = [mounted EXCEPT ![m] = [mounted[m] EXCEPT !.leaving = TRUE]]
      BY <2>1 DEF Unmount
    <3>4. mounted' \in [Mounts -> {Nothing} \cup MountType]
      BY <1>0, <3>2, <3>3 DEF DirsOK
    <3> QED BY <1>0, <2>1, <3>4 DEF Unmount, DirsOK, cell
  <2>2. ASSUME NEW m \in Mounts, (Unmount(r, m) /\ mounted[m] = Nothing) \/ RestorePath(r, m)
        PROVE  DirsOK'
    BY <1>0, <2>2 DEF Unmount, RestorePath, DirsOK, cell, mounts
  <2>3. CASE UnmountRemove(r) /\ (mounted[req[r].mount] = Nothing \/ mounted[req[r].mount].files = {})
    BY <1>0, <2>0, <2>3 DEF UnmountRemove, DirsOK, cell
  <2>4. CASE UnmountRemove(r) /\ ~(mounted[req[r].mount] = Nothing \/ mounted[req[r].mount].files = {})
    <3>1. PICK f : mounted' = [mounted EXCEPT ![req[r].mount].files = @ \ {f}]
      BY <2>4 DEF UnmountRemove
    <3>2. mounted' = [mounted EXCEPT ![req[r].mount] =
                       [mounted[req[r].mount] EXCEPT !.files = mounted[req[r].mount].files \ {f}]]
      BY <3>1
    <3>3. mounted[req[r].mount] \in MountType
      BY <1>0, <2>0, <2>4 DEF DirsOK
    <3>4. [mounted[req[r].mount] EXCEPT !.files = mounted[req[r].mount].files \ {f}] \in MountType
      BY <3>3 DEF MountType
    <3>5. mounted' \in [Mounts -> {Nothing} \cup MountType]
      BY <1>0, <3>2, <3>4 DEF DirsOK
    <3> QED BY <1>0, <2>4, <3>5 DEF UnmountRemove, DirsOK, cell
  <2>5. CASE Unstage(r)
    BY <1>0, <2>0, <2>5 DEF Unstage, DirsOK, cell
  <2>6. CASE RestoreList(r) \/ PathRestored(r)
    BY <1>0, <2>6 DEF RestoreList, PathRestored, DirsOK, cell, mounts
  <2>7. CASE RestoreCopy(r)
    <3>1. UNCHANGED mounts
      BY <2>7 DEF RestoreCopy
    <3>2. req[r].todo \subseteq Files
      BY <1>0 DEF ReqsOK, ReqType
    <3>3. UNCHANGED cell \/ \E f \in req[r].todo : live' = live \cup {f} /\ edited' = TRUE
      BY <2>7 DEF RestoreCopy
    <3> QED BY <1>0, <3>1, <3>2, <3>3 DEF DirsOK, cell, mounts
  <2> QED BY <1>5, <2>1, <2>2, <2>3, <2>4, <2>5, <2>6, <2>7 DEF PathAct
<1> QED BY <1>1, <1>2, <1>3, <1>4, <1>5, Families

LEMMA Inv0Step ==
  ASSUME Inv0, [Next]_vars
  PROVE  Inv0'
<1>1. ReqsOK' /\ Shape'
  BY ReqsStep
<1>2. DiskOK' /\ DirsOK'
  BY DiskStep, DirsStep
<1> QED BY <1>1, <1>2 DEF Inv0, TypeOK, ReqsOK, DiskOK, DirsOK, ReqType, MountType

LEMMA Inv0Init == Init => Inv0
<1> SUFFICES ASSUME Init PROVE Inv0
  OBVIOUS
<1>1. TypeOK
  BY TypeInit
<1>2. \A r \in Reqs : /\ req[r].pc = "idle" /\ req[r].inode = Nothing
                      /\ req[r].files = {} /\ req[r].todo = {}
  BY DEF Init
<1>3. Shape
  BY <1>2 DEF Shape, Reading
<1> QED BY <1>1, <1>3 DEF Inv0

LEMMA Inv0Holds == Spec => []Inv0
  BY Inv0Init, Inv0Step, PTL DEF Spec

\* Archives, directories, mounts and requests keep their types (manager.go:59,
\* mount_service.go:122): a request that reads or writes has an archive in hand.
THEOREM TypeCorrect == Spec => []TypeOK
<1>1. Inv0 => TypeOK
  BY DEF Inv0
<1> QED BY <1>1, Inv0Holds, PTL

-----------------------------------------------------------------------------
(* Archives.  With the Creates of a backup serialised, an archive is its   *)
(* Create's own until the Create is over: nobody else has its inode for a  *)
(* name, and nobody was told of it.                                        *)
Creating(r) == req[r].pc \in CreateSteps

CreatorsApart ==
  \A r, s \in Reqs : r # s /\ Creating(r) /\ Creating(s) => req[r].backup # req[s].backup
NamesApart == \A b, c \in Archives : b # c /\ name[b] # Nothing => name[b] # name[c]
OwnArchive(r) ==
  /\ req[r].inode \in Inodes /\ name[req[r].backup] \in {Nothing, req[r].inode}
  /\ \A c \in Archives \ {req[r].backup} : name[c] # req[r].inode
  /\ \A s \in Reqs \ {r} : Creating(s) => req[s].inode # req[r].inode
CreatorOK(r) ==
  /\ Creating(r) => told[req[r].backup] = Nothing
  /\ req[r].pc = "open" => name[req[r].backup] = Nothing
  /\ req[r].pc \in {"walk", "sum", "undo"} => OwnArchive(r)
  /\ req[r].pc = "walk" => state[req[r].inode] = "open"
  /\ req[r].pc = "sum" => state[req[r].inode] = "closed"

ArchInv == CreatorsApart /\ NamesApart /\ (\A r \in Reqs : CreatorOK(r)) /\ BackupSound /\ ListedIsAnswered

SameCreator(q) == req'[q].pc = req[q].pc /\ req'[q].backup = req[q].backup /\ req'[q].inode = req[q].inode
CreatorsKept == \A q \in Reqs : Creating(q) \/ Creating(q)' => SameCreator(q)

LEMMA ArchKept ==
  ASSUME ArchInv, CreatorsKept, UNCHANGED <<name, told, state>>
  PROVE  ArchInv'
<1>1. \A q \in Reqs : (Creating(q) <=> Creating(q)') /\ (Creating(q) => SameCreator(q))
  BY DEF CreatorsKept, SameCreator, Creating
<1>2. \A q \in Reqs : \A pc \in CreateSteps : req'[q].pc = pc <=> req[q].pc = pc
  BY <1>1 DEF SameCreator, Creating
<1>3. "open" \in CreateSteps /\ "walk" \in CreateSteps /\ "sum" \in CreateSteps /\ "undo" \in CreateSteps
  BY DEF CreateSteps
<1>4. CreatorsApart' /\ NamesApart'
  BY <1>1 DEF ArchInv, CreatorsApart, NamesApart, SameCreator
<1>5. ASSUME NEW r \in Reqs, Creating(r)
      PROVE  CreatorOK(r)'
  <2>1. CreatorOK(r) /\ SameCreator(r)
    BY <1>1, <1>5 DEF ArchInv
  <2>2. OwnArchive(r) => OwnArchive(r)'
    BY <1>1, <2>1 DEF OwnArchive, SameCreator
  <2> QED BY <2>1, <2>2, <1>5, <1>1 DEF CreatorOK, SameCreator
<1>6. ASSUME NEW r \in Reqs, ~Creating(r)
      PROVE  CreatorOK(r)'
  <2>1. ~Creating(r)'
    BY <1>1, <1>6
  <2> QED BY <2>1, <1>3 DEF CreatorOK, Creating
<1>7. BackupSound'
  BY DEF ArchInv, BackupSound, StreamEnds
<1>8. ListedIsAnswered'
  BY <1>1 DEF ArchInv, ListedIsAnswered, Named, SameCreator, Creating
<1> QED BY <1>4, <1>5, <1>6, <1>7, <1>8 DEF ArchInv

LEMMA WithinKeepsCreators ==
  ASSUME NEW r \in Reqs, NEW S, Within(r, S), S \cap CreateSteps = {}
  PROVE  CreatorsKept
<1>1. "idle" \notin CreateSteps
  BY DEF CreateSteps
<1>2. ~Creating(r) /\ ~Creating(r)'
  BY <1>1 DEF Within, Creating
<1> QED BY <1>2 DEF CreatorsKept, SameCreator, Within

LEMMA StepsApart ==
  /\ (RestoreSteps \cup {"remove"}) \cap CreateSteps = {} /\ MountSteps \cap CreateSteps = {}
  /\ (UnmountSteps \cup RestorePathSteps) \cap CreateSteps = {}
  BY DEF RestoreSteps, CreateSteps, MountSteps, UnmountSteps, RestorePathSteps

\* What leaves the archives and their Creates alone.
LEMMA ArchQuiet ==
  ASSUME Inv0, ArchInv,
         \/ \E r \in Reqs : MountAct(r) \/ PathAct(r) \/ CreateWalk(r) \/ (RestoreAct(r) /\ ~DeleteRemove(r))
         \/ Outside \/ UNCHANGED vars
  PROVE  ArchInv'
<1>1. ASSUME NEW r \in Reqs, MountAct(r) \/ PathAct(r)
      PROVE  CreatorsKept /\ UNCHANGED <<name, told, state>>
  BY <1>1, MountWithin, PathWithin, WithinKeepsCreators, StepsApart DEF disk
<1>2. ASSUME NEW r \in Reqs, RestoreAct(r), ~DeleteRemove(r)
      PROVE  CreatorsKept /\ UNCHANGED <<name, told, state>>
  BY <1>2, RestoreWithin, WithinKeepsCreators, StepsApart
<1>3. ASSUME NEW r \in Reqs, CreateWalk(r)
      PROVE  CreatorsKept /\ UNCHANGED <<name, told, state>>
  <2>1. PICK f : Moved(r, "walk", req[r].inode, req[r].files \ {f}, req[r].todo) /\ Same(r)
    BY <1>3, CreateMoves
  <2>2. req[r].pc = "walk" /\ UNCHANGED <<name, told, state>>
    BY <1>3 DEF CreateWalk, At
  <2> QED BY <2>1, <2>2 DEF CreatorsKept, SameCreator, Moved, Same
<1>4. CASE Outside \/ UNCHANGED vars
  <2>1. UNCHANGED <<name, told, state, req>>
    BY <1>4, OthersStep DEF vars, disk
  <2> QED BY <2>1, ArchKept DEF CreatorsKept, SameCreator
<1> QED BY <1>1, <1>2, <1>3, <1>4, ArchKept

LEMMA ArchDelete ==
  ASSUME Inv0, ArchInv, NEW r \in Reqs, DeleteRemove(r)
  PROVE  ArchInv'
<1> DEFINE b == req[r].backup
<1>0. ReqsOK /\ DiskOK /\ b \in Archives
  BY TypeParts DEF Inv0, ReqsOK, ReqType
<1>1. name' = [name EXCEPT ![b] = Nothing] /\ told' = [told EXCEPT ![b] = Nothing] /\ state' = state
  BY DEF DeleteRemove, Forget
<1>2. CreatorsKept
  BY RestoreWithin, WithinKeepsCreators, StepsApart DEF RestoreAct
<1>3. /\ name'[b] = Nothing /\ told'[b] = Nothing
      /\ \A c \in Archives \ {b} : name'[c] = name[c] /\ told'[c] = told[c]
  BY <1>0, <1>1 DEF DiskOK
<1>4. \A q \in Reqs : (Creating(q) <=> Creating(q)') /\ (Creating(q) => SameCreator(q))
  BY <1>2 DEF CreatorsKept, SameCreator, Creating
<1>5. CreatorsApart' /\ NamesApart'
  BY <1>3, <1>4 DEF ArchInv, CreatorsApart, NamesApart, SameCreator
<1>6. \A q \in Reqs : req[q].backup \in Archives
  BY <1>0 DEF ReqsOK, ReqType
<1>7. "open" \in CreateSteps /\ "walk" \in CreateSteps /\ "sum" \in CreateSteps /\ "undo" \in CreateSteps
  BY DEF CreateSteps
<1>8. ASSUME NEW q \in Reqs, Creating(q)
      PROVE  CreatorOK(q)'
  <2>1. CreatorOK(q) /\ SameCreator(q)
    BY <1>4, <1>8 DEF ArchInv
  <2>2. OwnArchive(q) => OwnArchive(q)'
    BY <1>0, <1>3, <1>4, <1>6, <2>1, BackupsAssumption DEF OwnArchive, SameCreator
  <2>3. told'[req[q].backup] \in {told[req[q].backup], Nothing}
        /\ name'[req[q].backup] \in {name[req[q].backup], Nothing}
    BY <1>3, <1>6
  <2> QED BY <1>1, <2>1, <2>2, <2>3, <1>8, <1>4 DEF CreatorOK, SameCreator
<1>9. ASSUME NEW q \in Reqs, ~Creating(q)
      PROVE  CreatorOK(q)'
  BY <1>4, <1>7, <1>9 DEF CreatorOK, Creating
<1>10. BackupSound'
  BY <1>1, <1>3 DEF ArchInv, BackupSound, StreamEnds
<1>11. ListedIsAnswered'
  <2>1. \A c \in Archives : Named(c)' => c # b
    BY <1>3 DEF Named
  <2> QED BY <1>1, <1>3, <1>4, <2>1 DEF ArchInv, ListedIsAnswered, Named, SameCreator, Creating
<1> QED BY <1>5, <1>8, <1>9, <1>10, <1>11 DEF ArchInv

LEMMA CreatePcs ==
  "open" \in CreateSteps /\ "walk" \in CreateSteps /\ "sum" \in CreateSteps /\ "undo" \in CreateSteps
  /\ "idle" \notin CreateSteps
  BY DEF CreateSteps

LEMMA ArchCreateStat ==
  ASSUME Serial, Inv0, ArchInv, NEW r \in Reqs, NEW b \in Archives, CreateStat(r, b)
  PROVE  ArchInv'
<1>1. Begun(r, "open", b, req[r].mount)
  BY CreateMoves
<1>2. /\ req[r].pc = "idle" /\ req'[r].pc = "open" /\ req'[r].backup = b /\ req'[r].inode = Nothing
      /\ \A q \in Reqs \ {r} : req'[q] = req[q]
  BY <1>1 DEF Begun, Moved
<1>3. UNCHANGED <<name, told, state>> /\ name[b] = Nothing
      /\ \A s \in Reqs : Creating(s) => req[s].backup # b
  BY DEF CreateStat, SameBackup, Named, Creating, disk
<1>4. told[b] = Nothing
  BY <1>3 DEF ArchInv, BackupSound
<1>5. CreatorsApart' /\ NamesApart'
  BY <1>2, <1>3 DEF ArchInv, CreatorsApart, NamesApart, Creating
<1>6. CreatorOK(r)'
  BY <1>2, <1>3, <1>4 DEF CreatorOK
<1>7. ASSUME NEW q \in Reqs \ {r}
      PROVE  CreatorOK(q)'
  <2>1. CreatorOK(q) /\ req'[q] = req[q]
    BY <1>2 DEF ArchInv
  <2>2. OwnArchive(q) => OwnArchive(q)'
    BY <1>2, <1>3, <2>1, BackupsAssumption DEF OwnArchive, Creating
  <2> QED BY <1>3, <2>1, <2>2 DEF CreatorOK, Creating
<1>8. BackupSound'
  BY <1>3 DEF ArchInv, BackupSound, StreamEnds
<1>9. ListedIsAnswered'
  BY <1>2, <1>3, CreatePcs DEF ArchInv, ListedIsAnswered, Named
<1> QED BY <1>5, <1>6, <1>7, <1>8, <1>9 DEF ArchInv

LEMMA ArchCreateOpen ==
  ASSUME Inv0, ArchInv, NEW r \in Reqs, CreateOpen(r)
  PROVE  ArchInv'
<1> DEFINE b == req[r].backup
<1>0. ReqsOK /\ DiskOK /\ b \in Archives /\ Shape
  BY TypeParts DEF Inv0, ReqsOK, ReqType
<1>1. req[r].pc = "open" /\ name[b] = Nothing /\ told[b] = Nothing
  BY CreatePcs DEF CreateOpen, At, ArchInv, CreatorOK, Creating
<1>2. PICK i \in Inodes :
        /\ Free(i)
        /\ name' = [name EXCEPT ![b] = i] /\ state' = [state EXCEPT ![i] = "open"]
        /\ req' = [req EXCEPT ![r].pc = "walk", ![r].inode = i, ![r].files = live]
  BY <1>1 DEF CreateOpen, Exclusive, Named
<1>3. told' = told
  BY DEF CreateOpen
<1>4. live \in SUBSET Files
  BY TypeParts DEF Inv0, DirsOK
<1>5. /\ req'[r].pc = "walk" /\ req'[r].inode = i /\ req'[r].backup = b
      /\ \A q \in Reqs \ {r} : req'[q] = req[q]
  BY <1>0, <1>2, <1>4, OpenReq DEF Moved, Same
<1>6. /\ name'[b] = i /\ \A c \in Archives \ {b} : name'[c] = name[c]
      /\ state'[i] = "open" /\ \A j \in Inodes \ {i} : state'[j] = state[j]
  BY <1>0, <1>2 DEF DiskOK
<1>7. /\ \A c \in Archives : name[c] # i /\ told[c] # i
      /\ \A q \in Reqs : req[q].inode # i
  BY <1>2 DEF Free
<1>8. i # Nothing
  BY BackupsAssumption
<1>9. \A q \in Reqs : req[q].backup \in Archives
  BY <1>0 DEF ReqsOK, ReqType
<1>10. CreatorsApart' /\ NamesApart'
  <2>1. CreatorsApart'
    BY <1>1, <1>5, CreatePcs DEF ArchInv, CreatorsApart, Creating
  <2>2. NamesApart'
    BY <1>6, <1>7 DEF ArchInv, NamesApart
  <2> QED BY <2>1, <2>2
<1>11. CreatorOK(r)'
  <2>1. OwnArchive(r)'
    BY <1>5, <1>6, <1>7, <1>8 DEF OwnArchive, Creating
  <2> QED BY <1>1, <1>3, <1>5, <1>6, <2>1 DEF CreatorOK
<1>12. ASSUME NEW q \in Reqs \ {r}
       PROVE  CreatorOK(q)'
  <2>1. CreatorOK(q) /\ req'[q] = req[q] /\ req[q].inode # i
    BY <1>5, <1>7 DEF ArchInv
  <2>2. Creating(q) => req[q].backup # b
    BY <1>1, CreatePcs DEF ArchInv, CreatorsApart, Creating
  <2>3. OwnArchive(q) /\ Creating(q) => OwnArchive(q)'
    BY <1>5, <1>6, <1>9, <2>1, <2>2 DEF OwnArchive, Creating
  <2>4. Creating(q) => name'[req[q].backup] = name[req[q].backup]
    BY <1>6, <1>9, <2>2
  <2>5. req[q].pc \in {"walk", "sum"} => state'[req[q].inode] = state[req[q].inode]
    BY <1>6, <2>1 DEF CreatorOK, OwnArchive
  <2> QED BY <1>3, <2>1, <2>3, <2>4, <2>5, CreatePcs DEF CreatorOK, Creating
<1>13. BackupSound'
  <2> SUFFICES ASSUME NEW c \in Archives, told[c] # Nothing
               PROVE  name'[c] = told[c] /\ state'[told[c]] \in {"closed", "left"}
    BY <1>3 DEF BackupSound, StreamEnds
  <2>1. c # b /\ name[c] = told[c] /\ state[told[c]] \in {"closed", "left"}
    BY <1>1 DEF ArchInv, BackupSound, StreamEnds
  <2>2. told[c] \in Inodes \ {i}
    BY <1>0, <1>7 DEF DiskOK
  <2> QED BY <1>6, <2>1, <2>2
<1>14. ListedIsAnswered'
  <2> SUFFICES ASSUME NEW c \in Archives, name'[c] # Nothing, state'[name'[c]] \in {"open", "closed"}
               PROVE  told[c] = name'[c] \/ \E q \in Reqs : Creating(q)' /\ req'[q].inode = name'[c]
    BY <1>3 DEF ListedIsAnswered, Named, Creating
  <2>1. CASE c = b
    BY <1>5, <1>6, <2>1, CreatePcs DEF Creating
  <2>2. CASE c # b
    <3>1. name'[c] = name[c] /\ name[c] \in Inodes \ {i}
      BY <1>0, <1>6, <1>7, <2>2 DEF DiskOK
    <3>2. state[name[c]] \in {"open", "closed"}
      BY <1>6, <3>1
    <3>3. told[c] = name[c] \/ \E q \in Reqs : Creating(q) /\ req[q].inode = name[c]
      BY <3>1, <3>2 DEF ArchInv, ListedIsAnswered, Named, Creating
    <3>4. req[r].inode = Nothing /\ \A q \in Reqs \ {r} : Creating(q)' <=> Creating(q)
      BY <1>0, <1>1, <1>5 DEF Shape, Early, Creating
    <3>5. name[c] # Nothing
      BY <1>8, <3>1, BackupsAssumption
    <3> QED BY <1>5, <3>1, <3>3, <3>4, <3>5
  <2> QED BY <2>1, <2>2
<1> QED BY <1>10, <1>11, <1>12, <1>13, <1>14 DEF ArchInv

LEMMA ArchCreateClose ==
  ASSUME Inv0, ArchInv, NEW r \in Reqs, CreateClose(r)
  PROVE  ArchInv'
<1> DEFINE b == req[r].backup  i == req[r].inode
<1>0. ReqsOK /\ DiskOK /\ b \in Archives
  BY TypeParts DEF Inv0, ReqsOK, ReqType
<1>1. req[r].pc = "walk" /\ OwnArchive(r) /\ told[b] = Nothing /\ i \in Inodes /\ UNCHANGED <<name, told>>
  BY CreatePcs DEF CreateClose, At, ArchInv, CreatorOK, Creating, OwnArchive
<1>2. PICK end \in {"closed", "torn"} :
        state' = [state EXCEPT ![i] = end] /\ ((end = "closed" /\ Goto(r, "sum")) \/ Goto(r, "undo"))
  BY DEF CreateClose
<1>3. \/ Went(r, "sum") /\ end = "closed"
      \/ Went(r, "undo")
  BY <1>0, <1>2, GotoReq, StepNames
<1>4. /\ req'[r].backup = b /\ req'[r].inode = i /\ \A q \in Reqs \ {r} : req'[q] = req[q]
      /\ (req'[r].pc = "sum" /\ end = "closed") \/ req'[r].pc = "undo"
  BY <1>3 DEF Went, Moved, Same
<1>5. state'[i] = end /\ \A j \in Inodes \ {i} : state'[j] = state[j]
  BY <1>0, <1>1, <1>2 DEF DiskOK
<1>6. Creating(r) /\ Creating(r)' /\ \A q \in Reqs \ {r} : Creating(q)' <=> Creating(q)
  BY <1>1, <1>4, CreatePcs DEF Creating
<1>7. \A c \in Archives : told[c] # i
  BY <1>0, <1>1, BackupsAssumption DEF ArchInv, BackupSound, OwnArchive
<1>8. CreatorsApart' /\ NamesApart'
  BY <1>1, <1>4, <1>6 DEF ArchInv, CreatorsApart, NamesApart
<1>9. CreatorOK(r)'
  <2>1. OwnArchive(r)'
    BY <1>1, <1>4, <1>6 DEF OwnArchive
  <2> QED BY <1>1, <1>4, <1>5, <2>1 DEF CreatorOK
<1>10. ASSUME NEW q \in Reqs \ {r}
       PROVE  CreatorOK(q)'
  <2>1. CreatorOK(q) /\ req'[q] = req[q]
    BY <1>4 DEF ArchInv
  <2>2. OwnArchive(q) => OwnArchive(q)'
    BY <1>1, <1>4, <1>6 DEF OwnArchive
  <2>3. req[q].pc \in {"walk", "sum"} => req[q].inode \in Inodes \ {i}
    BY <1>1, <2>1, CreatePcs DEF CreatorOK, OwnArchive, Creating
  <2> QED BY <1>1, <1>5, <1>6, <2>1, <2>2, <2>3 DEF CreatorOK
<1>11. BackupSound'
  <2> SUFFICES ASSUME NEW c \in Archives, told[c] # Nothing
               PROVE  name[c] = told[c] /\ state'[told[c]] \in {"closed", "left"}
    BY <1>1 DEF BackupSound, StreamEnds
  <2>1. name[c] = told[c] /\ state[told[c]] \in {"closed", "left"}
    BY DEF ArchInv, BackupSound, StreamEnds
  <2>2. told[c] \in Inodes \ {i}
    BY <1>0, <1>7 DEF DiskOK
  <2> QED BY <1>5, <2>1, <2>2
<1>12. ListedIsAnswered'
  <2> SUFFICES ASSUME NEW c \in Archives, name[c] # Nothing, state'[name[c]] \in {"open", "closed"}
               PROVE  told[c] = name[c] \/ \E q \in Reqs : Creating(q)' /\ req'[q].inode = name[c]
    BY <1>1 DEF ListedIsAnswered, Named, Creating
  <2>1. CASE name[c] = i
    BY <1>4, <1>6, <2>1
  <2>2. CASE name[c] # i
    <3>1. state'[name[c]] = state[name[c]]
      BY <1>0, <1>5, <2>2 DEF DiskOK
    <3>2. told[c] = name[c] \/ \E q \in Reqs : Creating(q) /\ req[q].inode = name[c]
      BY <3>1 DEF ArchInv, ListedIsAnswered, Named, Creating
    <3> QED BY <1>4, <1>6, <3>2
  <2> QED BY <2>1, <2>2
<1> QED BY <1>8, <1>9, <1>10, <1>11, <1>12 DEF ArchInv

LEMMA ArchCreateSum ==
  ASSUME Inv0, ArchInv, NEW r \in Reqs, CreateSum(r)
  PROVE  ArchInv'
<1> DEFINE b == req[r].backup  i == req[r].inode
<1>0. ReqsOK /\ DiskOK /\ b \in Archives
  BY TypeParts DEF Inv0, ReqsOK, ReqType
<1>1. /\ req[r].pc = "sum" /\ OwnArchive(r) /\ told[b] = Nothing /\ i \in Inodes /\ state[i] = "closed"
      /\ UNCHANGED <<name, state>>
  BY CreatePcs DEF CreateSum, At, ArchInv, CreatorOK, Creating, OwnArchive, disk
<1>2. CASE name[b] # Nothing /\ told' = [told EXCEPT ![b] = name[b]] /\ Ended(r)
  <2>1. name[b] = i /\ told'[b] = i /\ \A c \in Archives \ {b} : told'[c] = told[c]
    BY <1>0, <1>1, <1>2 DEF OwnArchive, DiskOK
  <2>2. req'[r].pc = "idle" /\ \A q \in Reqs \ {r} : req'[q] = req[q]
    BY <1>2 DEF Ended, Moved
  <2>3. Creating(r) /\ ~Creating(r)' /\ \A q \in Reqs \ {r} : Creating(q)' <=> Creating(q)
    BY <1>1, <2>2, CreatePcs DEF Creating
  <2>4. CreatorsApart' /\ NamesApart'
    BY <1>1, <2>2, <2>3 DEF ArchInv, CreatorsApart, NamesApart
  <2>5. CreatorOK(r)'
    BY <2>2, <2>3, CreatePcs DEF CreatorOK, Creating
  <2>6. ASSUME NEW q \in Reqs \ {r}
        PROVE  CreatorOK(q)'
    <3>1. CreatorOK(q) /\ req'[q] = req[q] /\ req[q].backup \in Archives
      BY <1>0, <2>2 DEF ArchInv, ReqsOK, ReqType
    <3>2. Creating(q) => req[q].backup # b
      BY <2>3 DEF ArchInv, CreatorsApart
    <3>3. OwnArchive(q) => OwnArchive(q)'
      BY <1>1, <2>2, <2>3 DEF OwnArchive
    <3>4. Creating(q) => told'[req[q].backup] = Nothing
      BY <2>1, <3>1, <3>2 DEF CreatorOK
    <3> QED BY <1>1, <2>3, <3>1, <3>3, <3>4 DEF CreatorOK
  <2>7. BackupSound'
    BY <1>1, <2>1 DEF ArchInv, BackupSound, StreamEnds
  <2>8. ListedIsAnswered'
    <3> SUFFICES ASSUME NEW c \in Archives, name[c] # Nothing, state[name[c]] \in {"open", "closed"}
                 PROVE  told'[c] = name[c] \/ \E q \in Reqs : Creating(q)' /\ req'[q].inode = name[c]
      BY <1>1 DEF ListedIsAnswered, Named, Creating
    <3>1. CASE c = b
      BY <2>1, <3>1
    <3>2. CASE c # b
      <4>1. told[c] = name[c] \/ \E q \in Reqs : Creating(q) /\ req[q].inode = name[c]
        BY DEF ArchInv, ListedIsAnswered, Named, Creating
      <4>2. name[c] # i
        BY <1>1, <3>2 DEF OwnArchive
      <4> QED BY <2>1, <2>2, <2>3, <3>2, <4>1, <4>2
    <3> QED BY <3>1, <3>2
  <2> QED BY <2>4, <2>5, <2>6, <2>7, <2>8 DEF ArchInv
<1>3. CASE UNCHANGED told /\ Went(r, "undo")
  <2>1. /\ req'[r].pc = "undo" /\ req'[r].backup = b /\ req'[r].inode = i
        /\ \A q \in Reqs \ {r} : req'[q] = req[q]
    BY <1>3 DEF Went, Moved, Same
  <2>2. Creating(r) /\ Creating(r)' /\ \A q \in Reqs \ {r} : Creating(q)' <=> Creating(q)
    BY <1>1, <2>1, CreatePcs DEF Creating
  <2>3. CreatorsApart' /\ NamesApart'
    BY <1>1, <2>1, <2>2 DEF ArchInv, CreatorsApart, NamesApart
  <2>4. ASSUME NEW q \in Reqs
        PROVE  CreatorOK(q)'
    <3>1. CreatorOK(q) /\ req'[q].inode = req[q].inode /\ req'[q].backup = req[q].backup
      BY <2>1 DEF ArchInv
    <3>2. OwnArchive(q) => OwnArchive(q)'
      BY <1>1, <2>1, <2>2, <3>1 DEF OwnArchive
    <3>3. CASE q = r
      BY <1>1, <1>3, <2>1, <3>2, <3>3 DEF CreatorOK
    <3>4. CASE q # r
      BY <1>1, <1>3, <2>1, <2>2, <3>1, <3>2, <3>4 DEF CreatorOK
    <3> QED BY <3>3, <3>4
  <2>5. BackupSound'
    BY <1>1, <1>3 DEF ArchInv, BackupSound, StreamEnds
  <2>6. \A q \in Reqs : Creating(q) => Creating(q)' /\ req'[q].inode = req[q].inode
    BY <2>1, <2>2
  <2>7. ListedIsAnswered'
    BY <1>1, <1>3, <2>6 DEF ArchInv, ListedIsAnswered, Named, Creating
  <2> QED BY <2>3, <2>4, <2>5, <2>7 DEF ArchInv
<1>4. \/ name[b] # Nothing /\ told' = [told EXCEPT ![b] = name[b]] /\ Ended(r)
      \/ UNCHANGED told /\ Went(r, "undo")
  BY <1>0, GotoReq, FinishReq, StepNames DEF CreateSum, Named
<1> QED BY <1>2, <1>3, <1>4

LEMMA ArchCreateUndo ==
  ASSUME Inv0, ArchInv, NEW r \in Reqs, CreateUndo(r)
  PROVE  ArchInv'
<1> DEFINE b == req[r].backup  i == req[r].inode
<1>0. ReqsOK /\ DiskOK /\ b \in Archives
  BY TypeParts DEF Inv0, ReqsOK, ReqType
<1>1. /\ req[r].pc = "undo" /\ OwnArchive(r) /\ told[b] = Nothing
      /\ UNCHANGED <<state, told>> /\ name' = [name EXCEPT ![b] = Nothing]
  BY CreatePcs DEF CreateUndo, RemoveTarget, Forget, At, ArchInv, CreatorOK, Creating
<1>2. req'[r].pc = "idle" /\ \A q \in Reqs \ {r} : req'[q] = req[q]
  BY CreateMoves DEF Ended, Moved
<1>3. Creating(r) /\ ~Creating(r)' /\ \A q \in Reqs \ {r} : Creating(q)' <=> Creating(q)
  BY <1>1, <1>2, CreatePcs DEF Creating
<1>4. name'[b] = Nothing /\ \A c \in Archives \ {b} : name'[c] = name[c]
  BY <1>0, <1>1 DEF DiskOK
<1>5. CreatorsApart' /\ NamesApart'
  BY <1>2, <1>3, <1>4 DEF ArchInv, CreatorsApart, NamesApart
<1>6. CreatorOK(r)'
  BY <1>2, <1>3, CreatePcs DEF CreatorOK, Creating
<1>7. ASSUME NEW q \in Reqs \ {r}
      PROVE  CreatorOK(q)'
  <2>1. CreatorOK(q) /\ req'[q] = req[q] /\ req[q].backup \in Archives
    BY <1>0, <1>2 DEF ArchInv, ReqsOK, ReqType
  <2>2. OwnArchive(q) => OwnArchive(q)'
    BY <1>2, <1>3, <1>4, <2>1, BackupsAssumption DEF OwnArchive
  <2>3. name'[req[q].backup] \in {name[req[q].backup], Nothing}
    BY <1>4, <2>1
  <2> QED BY <1>1, <1>3, <2>1, <2>2, <2>3 DEF CreatorOK
<1>8. BackupSound'
  BY <1>1, <1>4 DEF ArchInv, BackupSound, StreamEnds
<1>9. ListedIsAnswered'
  <2> SUFFICES ASSUME NEW c \in Archives, name'[c] # Nothing, state[name'[c]] \in {"open", "closed"}
               PROVE  told[c] = name'[c] \/ \E q \in Reqs : Creating(q)' /\ req'[q].inode = name'[c]
    BY <1>1 DEF ListedIsAnswered, Named, Creating
  <2>1. c # b /\ name'[c] = name[c]
    BY <1>4
  <2>2. told[c] = name[c] \/ \E q \in Reqs : Creating(q) /\ req[q].inode = name[c]
    BY <2>1 DEF ArchInv, ListedIsAnswered, Named, Creating
  <2>3. name[c] # i
    BY <1>1, <2>1 DEF OwnArchive
  <2> QED BY <1>2, <1>3, <2>1, <2>2, <2>3
<1> QED BY <1>5, <1>6, <1>7, <1>8, <1>9 DEF ArchInv

LEMMA ArchCrash ==
  ASSUME Inv0, ArchInv, Crash
  PROVE  ArchInv'
<1>0. ReqsOK /\ DiskOK
  BY TypeParts DEF Inv0
<1>1. UNCHANGED <<name, told>> /\ \A q \in Reqs : req'[q].pc = "idle" /\ ~Creating(q)'
  BY OthersStep, CreatePcs DEF Creating
<1>2. \A i \in Inodes : state'[i] = IF state[i] = "open" THEN "torn"
                                   ELSE IF \E r \in Reqs : req[r].inode = i /\ req[r].pc \in {"sum", "undo"}
                                        THEN "left" ELSE state[i]
  BY DEF Crash
<1>3. CreatorsApart' /\ NamesApart' /\ \A q \in Reqs : CreatorOK(q)'
  BY <1>1, CreatePcs DEF ArchInv, CreatorsApart, NamesApart, CreatorOK, Creating
<1>4. BackupSound'
  <2> SUFFICES ASSUME NEW c \in Archives, told[c] # Nothing
               PROVE  name[c] = told[c] /\ state'[told[c]] \in {"closed", "left"}
    BY <1>1 DEF BackupSound, StreamEnds
  <2>1. name[c] = told[c] /\ state[told[c]] \in {"closed", "left"} /\ told[c] \in Inodes
    BY <1>0 DEF ArchInv, BackupSound, StreamEnds, DiskOK
  <2> QED BY <1>2, <2>1
<1>5. ListedIsAnswered'
  <2> SUFFICES ASSUME NEW c \in Archives, name[c] # Nothing, state'[name[c]] \in {"open", "closed"}
               PROVE  told[c] = name[c]
    BY <1>1 DEF ListedIsAnswered, Named
  <2>1. name[c] \in Inodes
    BY <1>0 DEF DiskOK
  <2>2. state[name[c]] = "closed" /\ ~\E r \in Reqs : req[r].inode = name[c] /\ req[r].pc \in {"sum", "undo"}
    <3>1. state[name[c]] # "open"
      BY <1>2, <2>1
    <3> QED BY <1>0, <1>2, <2>1, <3>1 DEF DiskOK
  <2>3. \A r \in Reqs : req[r].pc \in CreateSteps => req[r].inode # name[c]
    <3> SUFFICES ASSUME NEW r \in Reqs, req[r].pc \in CreateSteps, req[r].inode = name[c]
                 PROVE  FALSE
      OBVIOUS
    <3>1. req[r].pc \in {"open", "walk"}
      BY <2>2 DEF CreateSteps
    <3>2. req[r].pc # "open"
      BY <2>1, BackupsAssumption DEF Inv0, Shape, Early
    <3>3. state[req[r].inode] = "open"
      BY <3>1, <3>2 DEF ArchInv, CreatorOK
    <3> QED BY <2>2, <3>3
  <2> QED BY <2>2, <2>3 DEF ArchInv, ListedIsAnswered, Named
<1> QED BY <1>3, <1>4, <1>5 DEF ArchInv

LEMMA ArchStep ==
  ASSUME Serial, Inv0, ArchInv, [Next]_vars
  PROVE  ArchInv'
<1>1. ASSUME NEW r \in Reqs, CreateAct(r)
      PROVE  ArchInv'
  <2>1. ASSUME NEW b \in Archives, CreateStat(r, b)
        PROVE  ArchInv'
    BY <2>1, ArchCreateStat
  <2> QED BY <1>1, <2>1, ArchQuiet, ArchCreateOpen, ArchCreateClose, ArchCreateSum, ArchCreateUndo
          DEF CreateAct
<1>2. ASSUME NEW r \in Reqs, RestoreAct(r)
      PROVE  ArchInv'
  BY <1>2, ArchQuiet, ArchDelete
<1>3. ASSUME NEW r \in Reqs, MountAct(r) \/ PathAct(r)
      PROVE  ArchInv'
  BY <1>3, ArchQuiet
<1> QED BY <1>1, <1>2, <1>3, ArchQuiet, ArchCrash, Families

LEMMA ArchInit == Init => ArchInv
<1> SUFFICES ASSUME Init PROVE ArchInv
  OBVIOUS
<1>1. \A r \in Reqs : req[r].pc = "idle"
  BY DEF Init
<1>2. \A b \in Archives : name[b] = Nothing /\ told[b] = Nothing
  BY DEF Init
<1> QED BY <1>1, <1>2, CreatePcs DEF ArchInv, CreatorsApart, NamesApart, CreatorOK, BackupSound,
         ListedIsAnswered, Named, Creating

LEMMA ArchHolds == ASSUME Serial PROVE Spec => [](Inv0 /\ ArchInv)
<1>1. Init => Inv0 /\ ArchInv
  BY Inv0Init, ArchInit
<1>2. Inv0 /\ ArchInv /\ [Next]_vars => (Inv0 /\ ArchInv)'
  BY Inv0Step, ArchStep
<1> QED BY <1>1, <1>2, PTL DEF Spec

\* An answered backup stays the archive the panel was told of, with its end
\* (manager.go:117-135), for any number of backups and requests, if Creates of one
\* backup are serialised.
THEOREM AnsweredBackupsAreSound == ASSUME Serial PROVE Spec => []BackupSound
<1>1. ArchInv => BackupSound
  BY DEF ArchInv
<1> QED BY <1>1, ArchHolds, PTL

\* A Create that fails leaves nothing in the list (manager.go:107), for any number
\* of backups and requests, under the same assumption.
THEOREM ListedBackupsAreAnswered == ASSUME Serial PROVE Spec => []ListedIsAnswered
<1>1. ArchInv => ListedIsAnswered
  BY DEF ArchInv
<1> QED BY <1>1, ArchHolds, PTL

-----------------------------------------------------------------------------
(* Mounts.  With the requests of a mount serialised, its staging directory *)
(* holds what its one Mount has extracted, and only an Unmount, which says *)
(* so first, takes files from a mount.                                     *)
MountPcs == MountSteps \cup UnmountSteps
AtMount(r) == req[r].pc \in MountPcs

MountersApart ==
  \A r, s \in Reqs : r # s /\ AtMount(r) /\ AtMount(s) => req[r].mount # req[s].mount
MounterOK(r) ==
  /\ req[r].pc \in MountSteps =>
       /\ mounted[req[r].mount] = Nothing
       /\ \A s \in Reqs : req[s].pc \in RestorePathSteps => req[s].mount # req[r].mount
  /\ req[r].pc = "source" => staging[req[r].mount] = {}
  /\ req[r].pc \in {"fill", "rename"} => staging[req[r].mount] = req[r].files
  /\ req[r].pc = "rename" => req[r].files = data[req[r].inode] /\ StreamEnds(req[r].inode)
  /\ req[r].pc = "unmount" => ~Intact(req[r].mount)
  /\ req[r].pc = "copy" /\ Intact(req[r].mount) => req[r].files \cup req[r].todo = mounted[req[r].mount].files

MountInv == MountersApart /\ (\A r \in Reqs : MounterOK(r)) /\ MountComplete

LEMMA MountPcNames ==
  /\ "clean" \in MountSteps /\ "source" \in MountSteps /\ "fill" \in MountSteps /\ "rename" \in MountSteps
  /\ "discard" \in MountSteps /\ "unmount" \in UnmountSteps /\ "unstage" \in UnmountSteps
  /\ "list" \in RestorePathSteps /\ "copy" \in RestorePathSteps
  /\ "idle" \notin MountPcs \cup RestorePathSteps /\ MountPcs \cap RestorePathSteps = {}
  /\ "unmount" \notin MountSteps /\ "unstage" \notin MountSteps /\ "copy" \notin MountSteps
  /\ "list" \notin MountSteps
  /\ \A pc \in MountSteps \cup UnmountSteps : pc \notin RestorePathSteps
  BY DEF MountSteps, UnmountSteps, RestorePathSteps, MountPcs

\* An archive that has its end is written by nobody, and recycled only when no
\* request has it.
LEMMA ReadersKeep ==
  ASSUME Inv0, ArchInv, NEW r \in Reqs, CreateAct(r), NEW q \in Reqs, req[q].inode \in Inodes,
         StreamEnds(req[q].inode)
  PROVE  data'[req[q].inode] = data[req[q].inode] /\ state'[req[q].inode] \in {"closed", "left"}
<1> DEFINE j == req[q].inode
<1>0. DiskOK
  BY TypeParts DEF Inv0
<1>1. CASE UNCHANGED disk
  BY <1>1 DEF disk, StreamEnds
<1>2. CASE CreateOpen(r) /\ ~UNCHANGED disk
  <2>1. PICK i \in Inodes : Free(i) /\ data' = [data EXCEPT ![i] = {}] /\ state' = [state EXCEPT ![i] = "open"]
    BY <1>2 DEF CreateOpen
  <2>2. j # i
    BY <2>1 DEF Free
  <2> QED BY <1>0, <2>1, <2>2 DEF DiskOK, StreamEnds
<1>3. CASE CreateWalk(r) \/ CreateClose(r)
  <2>1. req[r].inode \in Inodes /\ state[req[r].inode] = "open"
    BY <1>3, CreatePcs DEF CreateWalk, CreateClose, At, ArchInv, CreatorOK, OwnArchive
  <2>2. j # req[r].inode
    BY <2>1 DEF StreamEnds
  <2>3. CASE CreateWalk(r)
    BY <1>0, <2>2, <2>3 DEF CreateWalk, Append, DiskOK, StreamEnds
  <2>4. CASE CreateClose(r)
    BY <1>0, <2>2, <2>4 DEF CreateClose, DiskOK, StreamEnds
  <2> QED BY <1>3, <2>3, <2>4
<1>4. CASE CreateUndo(r)
  BY <1>4 DEF CreateUndo, StreamEnds
<1> QED BY <1>1, <1>2, <1>3, <1>4 DEF CreateAct, CreateStat, CreateSum

LEMMA MountKept ==
  ASSUME Inv0, MountInv, UNCHANGED mounts,
         \A q \in Reqs : req[q].pc \in MountPcs \cup RestorePathSteps
                           \/ req'[q].pc \in MountPcs \cup RestorePathSteps => req'[q] = req[q],
         \A q \in Reqs : req[q].pc = "rename" /\ StreamEnds(req[q].inode)
                           => data'[req[q].inode] = data[req[q].inode] /\ state'[req[q].inode] \in {"closed", "left"}
  PROVE  MountInv'
<1>1. \A m \in Mounts : staging'[m] = staging[m] /\ mounted'[m] = mounted[m]
  BY DEF mounts
<1>2. \A m \in Mounts : Intact(m)' <=> Intact(m)
  BY <1>1 DEF Intact
<1>3. MountersApart' /\ MountComplete'
  BY <1>1, <1>2 DEF MountInv, MountersApart, AtMount, MountComplete
<1>4. ASSUME NEW q \in Reqs, req'[q].pc \in MountPcs \cup RestorePathSteps
      PROVE  MounterOK(q)'
  <2>1. req'[q] = req[q] /\ MounterOK(q)
    BY <1>4 DEF MountInv
  <2>2. req[q].mount \in Mounts
    BY TypeParts DEF Inv0, ReqsOK, ReqType
  <2> QED BY <1>1, <1>2, <2>1, <2>2 DEF MounterOK, StreamEnds
<1>5. ASSUME NEW q \in Reqs, req'[q].pc \notin MountPcs \cup RestorePathSteps
      PROVE  MounterOK(q)'
  BY <1>5, MountPcNames DEF MounterOK, MountPcs
<1> QED BY <1>3, <1>4, <1>5 DEF MountInv

\* What leaves the mounts alone.
LEMMA MountQuiet ==
  ASSUME Inv0, ArchInv, MountInv,
         (\E r \in Reqs : CreateAct(r) \/ RestoreAct(r)) \/ Outside \/ UNCHANGED vars
  PROVE  MountInv'
<1>1. ASSUME NEW r \in Reqs, CreateAct(r)
      PROVE  MountInv'
  <2>1. Within(r, CreateSteps) /\ UNCHANGED mounts
    BY <1>1, CreateWithin
  <2>2. \A q \in Reqs : req[q].pc \in MountPcs \cup RestorePathSteps
                          \/ req'[q].pc \in MountPcs \cup RestorePathSteps => req'[q] = req[q]
    BY <2>1 DEF Within, CreateSteps, MountPcs, MountSteps, UnmountSteps, RestorePathSteps
  <2>3. \A q \in Reqs : req[q].pc = "rename" => req[q].inode \in Inodes
    BY TypeParts DEF Inv0, Shape, Reading, ReqsOK, ReqType
  <2>4. \A q \in Reqs : req[q].pc = "rename" /\ StreamEnds(req[q].inode)
                          => data'[req[q].inode] = data[req[q].inode] /\ state'[req[q].inode] \in {"closed", "left"}
    BY <1>1, <2>3, ReadersKeep
  <2> QED BY <2>1, <2>2, <2>4, MountKept
<1>2. ASSUME NEW r \in Reqs, RestoreAct(r)
      PROVE  MountInv'
  <2>1. Within(r, RestoreSteps \cup {"remove"}) /\ UNCHANGED <<data, state, mounts>>
    BY <1>2, RestoreWithin
  <2>2. \A q \in Reqs : req[q].pc \in MountPcs \cup RestorePathSteps
                          \/ req'[q].pc \in MountPcs \cup RestorePathSteps => req'[q] = req[q]
    BY <2>1 DEF Within, RestoreSteps, MountPcs, MountSteps, UnmountSteps, RestorePathSteps
  <2> QED BY <2>1, <2>2, MountKept DEF StreamEnds
<1>3. CASE Outside \/ UNCHANGED vars
  <2>1. UNCHANGED <<data, state, mounts, req>>
    BY <1>3, OthersStep DEF vars, disk
  <2> QED BY <2>1, MountKept DEF StreamEnds
<1> QED BY <1>1, <1>2, <1>3

LEMMA MountCrash ==
  ASSUME Inv0, MountInv, Crash
  PROVE  MountInv'
<1>1. UNCHANGED mounts /\ \A q \in Reqs : req'[q].pc = "idle"
  BY OthersStep
<1>2. MountComplete'
  BY <1>1 DEF MountInv, MountComplete, Intact, mounts
<1>3. MountersApart' /\ \A q \in Reqs : MounterOK(q)'
  BY <1>1, MountPcNames DEF MountersApart, AtMount, MounterOK, MountPcs
<1> QED BY <1>2, <1>3 DEF MountInv

\* A step of a Mount or an Unmount of m disturbs no other request and no other
\* mount.
LEMMA MountOthers ==
  ASSUME Inv0, MountInv, NEW r \in Reqs, NEW m \in Mounts,
         UNCHANGED disk, \A q \in Reqs \ {r} : req'[q] = req[q],
         req'[r].mount = m, req'[r].pc \notin RestorePathSteps,
         \A n \in Mounts \ {m} : staging'[n] = staging[n] /\ mounted'[n] = mounted[n],
         \A q \in Reqs \ {r} : AtMount(q) => req[q].mount # m,
         \A q \in Reqs \ {r} : req[q].pc = "copy" /\ req[q].mount = m
                                 => ~Intact(m)' \/ mounted'[m] = mounted[m],
         MounterOK(r)', Intact(m)' => mounted'[m].files = mounted'[m].want
  PROVE  MountInv'
<1>1. \A q \in Reqs : req[q].mount \in Mounts
  BY TypeParts DEF Inv0, ReqsOK, ReqType
<1>2. MountersApart'
  BY DEF MountInv, MountersApart, AtMount
<1>3. MountComplete'
  <2> SUFFICES ASSUME NEW n \in Mounts \ {m}, Intact(n)'
               PROVE  mounted'[n].files = mounted'[n].want
    BY DEF MountComplete
  <2> QED BY DEF MountInv, MountComplete, Intact
<1>4. ASSUME NEW q \in Reqs \ {r}, req[q].mount # m
      PROVE  MounterOK(q)'
  <2>1. req'[q] = req[q] /\ MounterOK(q) /\ staging'[req[q].mount] = staging[req[q].mount]
        /\ mounted'[req[q].mount] = mounted[req[q].mount]
    BY <1>1, <1>4 DEF MountInv
  <2> QED BY <1>4, <2>1 DEF MounterOK, Intact, StreamEnds, disk
<1>5. ASSUME NEW q \in Reqs \ {r}, req[q].mount = m
      PROVE  MounterOK(q)'
  <2>1. req'[q] = req[q] /\ MounterOK(q) /\ req[q].pc \notin MountPcs
    BY <1>5 DEF MountInv, AtMount
  <2>2. req[q].pc = "copy" /\ Intact(m)' => req[q].files \cup req[q].todo = mounted'[m].files
    BY <1>5, <2>1 DEF MounterOK, Intact
  <2> QED BY <1>5, <2>1, <2>2, MountPcNames DEF MounterOK, MountPcs
<1> QED BY <1>2, <1>3, <1>4, <1>5 DEF MountInv

\* What every step of a Mount past the first knows of its mount.
LEMMA MountAlone ==
  ASSUME Inv0, MountInv, NEW r \in Reqs, req[r].pc \in MountSteps
  PROVE  /\ req[r].mount \in Mounts /\ mounted[req[r].mount] = Nothing
         /\ \A q \in Reqs \ {r} : AtMount(q) => req[q].mount # req[r].mount
         /\ \A q \in Reqs : req[q].pc \in RestorePathSteps => req[q].mount # req[r].mount
<1>1. MounterOK(r) /\ MountersApart /\ AtMount(r)
  BY DEF MountInv, AtMount, MountPcs
<1> QED BY <1>1, TypeParts DEF Inv0, ReqsOK, ReqType, MounterOK, MountersApart

LEMMA MountStatKeeps ==
  ASSUME Serial, Inv0, MountInv, NEW r \in Reqs, NEW b \in Archives, NEW m \in Mounts, MountStat(r, b, m)
  PROVE  MountInv'
<1>1. /\ req'[r].pc = "clean" /\ req'[r].mount = m /\ \A q \in Reqs \ {r} : req'[q] = req[q]
  BY MountMoves DEF Begun, Moved
<1>2. UNCHANGED <<disk, mounts>> /\ mounted[m] = Nothing
      /\ \A q \in Reqs : req[q].pc \in MountPcs \cup RestorePathSteps => req[q].mount # m
  BY DEF MountStat, Mountable, SameMount, OnMount, MountPcs
<1>3. MounterOK(r)'
  BY <1>1, <1>2, MountPcNames DEF MounterOK, mounts
<1>4. ~Intact(m)'
  BY <1>2 DEF Intact, mounts
<1> QED BY <1>1, <1>2, <1>3, <1>4, MountOthers, MountPcNames DEF AtMount, mounts

LEMMA MountCleanKeeps ==
  ASSUME Inv0, MountInv, NEW r \in Reqs, MountClean(r)
  PROVE  MountInv'
<1> DEFINE m == req[r].mount
<1>0. DirsOK /\ req[r].pc = "clean"
  BY TypeParts DEF Inv0, MountClean, At
<1>1. /\ req'[r].pc = "source" /\ req'[r].mount = m /\ \A q \in Reqs \ {r} : req'[q] = req[q]
  BY MountMoves DEF Went, Moved, Same
<1>2. /\ m \in Mounts /\ mounted[m] = Nothing
      /\ \A q \in Reqs \ {r} : AtMount(q) => req[q].mount # m
      /\ \A q \in Reqs : req[q].pc \in RestorePathSteps => req[q].mount # m
  BY <1>0, MountAlone, MountPcNames
<1>3. UNCHANGED <<disk, mounted>> /\ staging' = [staging EXCEPT ![m] = {}]
  BY DEF MountClean
<1>4. staging'[m] = {} /\ \A n \in Mounts \ {m} : staging'[n] = staging[n]
  BY <1>0, <1>2, <1>3 DEF DirsOK
<1>5. MounterOK(r)'
  BY <1>1, <1>2, <1>3, <1>4, MountPcNames DEF MounterOK
<1>6. mounted'[m] = Nothing
  BY <1>2, <1>3, <1>1
<1> QED BY <1>1, <1>2, <1>3, <1>4, <1>5, <1>6, MountOthers, MountPcNames DEF Intact

LEMMA MountOpenKeeps ==
  ASSUME Inv0, MountInv, NEW r \in Reqs, MountOpen(r)
  PROVE  MountInv'
<1> DEFINE m == req[r].mount
<1>0. req[r].pc = "source" /\ MounterOK(r) /\ Shape
  BY DEF Inv0, MountOpen, At, MountInv
<1>1. /\ req'[r].mount = m /\ \A q \in Reqs \ {r} : req'[q] = req[q]
      /\ req'[r].pc = "fill" \/ req'[r].pc = "discard"
      /\ req'[r].files = req[r].files
  BY MountMoves DEF Went, Moved, Same
<1>2. /\ m \in Mounts /\ mounted[m] = Nothing
      /\ \A q \in Reqs \ {r} : AtMount(q) => req[q].mount # m
      /\ \A q \in Reqs : req[q].pc \in RestorePathSteps => req[q].mount # m
  BY <1>0, MountAlone, MountPcNames
<1>3. UNCHANGED <<disk, mounts>>
  BY DEF MountOpen
<1>4. staging[m] = {} /\ req[r].files = {}
  BY <1>0 DEF MounterOK, Shape, Early
<1>5. MounterOK(r)'
  BY <1>1, <1>2, <1>3, <1>4, MountPcNames DEF MounterOK, mounts
<1>6. mounted'[m] = Nothing
  BY <1>1, <1>2, <1>3 DEF mounts
<1> QED BY <1>1, <1>2, <1>3, <1>5, <1>6, MountOthers, MountPcNames DEF Intact, mounts

LEMMA MountFillKeeps ==
  ASSUME Inv0, MountInv, NEW r \in Reqs, MountFill(r)
  PROVE  MountInv'
<1> DEFINE m == req[r].mount
<1>0. req[r].pc = "fill" /\ MounterOK(r) /\ ReqsOK /\ DirsOK
  BY TypeParts DEF Inv0, MountFill, At, MountInv
<1>1. PICK f : /\ Moved(r, "fill", req[r].inode, req[r].files \cup {f}, req[r].todo) /\ Same(r)
               /\ staging' = [staging EXCEPT ![m] = (IF @ = Nothing THEN {} ELSE @) \cup {f}]
  BY MountMoves
<1>2. /\ req'[r].mount = m /\ \A q \in Reqs \ {r} : req'[q] = req[q]
      /\ req'[r].pc = "fill" /\ req'[r].files = req[r].files \cup {f}
  BY <1>1 DEF Moved, Same
<1>3. /\ m \in Mounts /\ mounted[m] = Nothing
      /\ \A q \in Reqs \ {r} : AtMount(q) => req[q].mount # m
      /\ \A q \in Reqs : req[q].pc \in RestorePathSteps => req[q].mount # m
  BY <1>0, MountAlone, MountPcNames
<1>4. UNCHANGED <<disk, mounted>>
  BY DEF MountFill
<1>5. staging[m] = req[r].files /\ staging[m] # Nothing
  BY <1>0, BackupsAssumption DEF MounterOK, ReqsOK, ReqType
<1>6. staging'[m] = req'[r].files /\ \A n \in Mounts \ {m} : staging'[n] = staging[n]
  BY <1>0, <1>1, <1>2, <1>3, <1>5 DEF DirsOK
<1>7. MounterOK(r)'
  BY <1>2, <1>3, <1>4, <1>6, MountPcNames DEF MounterOK
<1>8. mounted'[m] = Nothing
  BY <1>2, <1>3, <1>4
<1> QED BY <1>2, <1>3, <1>4, <1>6, <1>7, <1>8, MountOthers, MountPcNames DEF Intact

LEMMA MountFilledKeeps ==
  ASSUME Inv0, MountInv, NEW r \in Reqs, MountFilled(r)
  PROVE  MountInv'
<1> DEFINE m == req[r].mount
<1>0. req[r].pc = "fill" /\ MounterOK(r) /\ ReqsOK
  BY TypeParts DEF Inv0, MountFilled, At, MountInv
<1>1. UNCHANGED <<disk, mounts>> /\ ((Extracted(r) /\ Goto(r, "rename")) \/ Goto(r, "discard"))
  BY DEF MountFilled
<1>2. /\ req'[r].mount = m /\ req'[r].files = req[r].files /\ req'[r].inode = req[r].inode
      /\ \A q \in Reqs \ {r} : req'[q] = req[q]
      /\ (req'[r].pc = "rename" /\ Extracted(r)) \/ req'[r].pc = "discard"
  BY <1>0, <1>1, GotoReq, StepNames DEF Went, Moved, Same
<1>3. /\ m \in Mounts /\ mounted[m] = Nothing
      /\ \A q \in Reqs \ {r} : AtMount(q) => req[q].mount # m
      /\ \A q \in Reqs : req[q].pc \in RestorePathSteps => req[q].mount # m
  BY <1>0, MountAlone, MountPcNames
<1>4. MounterOK(r)'
  BY <1>0, <1>1, <1>2, <1>3, MountPcNames DEF MounterOK, Extracted, StreamEnds, mounts, disk
<1>5. mounted'[m] = Nothing
  BY <1>1, <1>2, <1>3 DEF mounts
<1> QED BY <1>1, <1>2, <1>3, <1>4, <1>5, MountOthers, MountPcNames DEF Intact, mounts

LEMMA MountRenameKeeps ==
  ASSUME Inv0, MountInv, NEW r \in Reqs, MountRename(r)
  PROVE  MountInv'
<1> DEFINE m == req[r].mount
<1>0. req[r].pc = "rename" /\ MounterOK(r) /\ ReqsOK /\ DirsOK /\ DiskOK
  BY TypeParts DEF Inv0, MountRename, At, MountInv
<1>1. /\ m \in Mounts /\ mounted[m] = Nothing
      /\ \A q \in Reqs \ {r} : AtMount(q) => req[q].mount # m
      /\ \A q \in Reqs : req[q].pc \in RestorePathSteps => req[q].mount # m
  BY <1>0, MountAlone, MountPcNames
<1>2. staging[m] = req[r].files /\ staging[m] # Nothing /\ staging[m] = data[req[r].inode]
  BY <1>0, BackupsAssumption DEF MounterOK, ReqsOK, ReqType
<1>3. /\ mounted' = [mounted EXCEPT ![m] =
             [files |-> staging[m], want |-> data[req[r].inode], leaving |-> FALSE]]
      /\ staging' = [staging EXCEPT ![m] = Nothing]
      /\ Finish(r) /\ UNCHANGED disk
  BY <1>1, <1>2 DEF MountRename
<1>4. req'[r].mount = m /\ req'[r].pc = "idle" /\ \A q \in Reqs \ {r} : req'[q] = req[q]
  BY <1>0, <1>3, FinishReq DEF Ended, Moved, Same
<1>5. \A n \in Mounts \ {m} : staging'[n] = staging[n] /\ mounted'[n] = mounted[n]
  BY <1>0, <1>3 DEF DirsOK
<1>6. mounted'[m].files = mounted'[m].want
  BY <1>0, <1>1, <1>2, <1>3 DEF DirsOK
<1>7. MounterOK(r)'
  BY <1>4, MountPcNames DEF MounterOK, MountPcs
<1> QED BY <1>1, <1>3, <1>4, <1>5, <1>6, <1>7, MountOthers, MountPcNames DEF Intact

LEMMA MountDiscardKeeps ==
  ASSUME Inv0, MountInv, NEW r \in Reqs, MountDiscard(r)
  PROVE  MountInv'
<1> DEFINE m == req[r].mount
<1>0. req[r].pc = "discard" /\ DirsOK
  BY TypeParts DEF Inv0, MountDiscard, At
<1>1. /\ m \in Mounts /\ mounted[m] = Nothing
      /\ \A q \in Reqs \ {r} : AtMount(q) => req[q].mount # m
      /\ \A q \in Reqs : req[q].pc \in RestorePathSteps => req[q].mount # m
  BY <1>0, MountAlone, MountPcNames
<1>2. UNCHANGED <<disk, mounted>> /\ \A n \in Mounts \ {m} : staging'[n] = staging[n]
  BY <1>0 DEF MountDiscard, DirsOK
<1>3. req'[r].mount = m /\ req'[r].pc = "idle" /\ \A q \in Reqs \ {r} : req'[q] = req[q]
  BY MountMoves DEF Ended, Moved, Same
<1>4. MounterOK(r)'
  BY <1>3, MountPcNames DEF MounterOK, MountPcs
<1>5. mounted'[m] = Nothing
  BY <1>1, <1>2, <1>3
<1> QED BY <1>1, <1>2, <1>3, <1>4, <1>5, MountOthers, MountPcNames DEF Intact

LEMMA UnmountKeeps ==
  ASSUME Serial, Inv0, MountInv, NEW r \in Reqs, NEW m \in Mounts, Unmount(r, m)
  PROVE  MountInv'
<1>0. DirsOK
  BY TypeParts DEF Inv0
<1>1. req'[r].pc = "unmount" /\ req'[r].mount = m /\ \A q \in Reqs \ {r} : req'[q] = req[q]
  BY PathMoves DEF Begun, Moved
<1>2. /\ UNCHANGED <<disk, staging>> /\ \A q \in Reqs : AtMount(q) => req[q].mount # m
      /\ mounted' = IF mounted[m] = Nothing THEN mounted ELSE [mounted EXCEPT ![m].leaving = TRUE]
  BY DEF Unmount, SameMount, OnMount, AtMount, MountPcs
<1>3. /\ \A n \in Mounts \ {m} : mounted'[n] = mounted[n]
      /\ mounted'[m] = Nothing \/ mounted'[m].leaving
  BY <1>0, <1>2 DEF DirsOK, MountType
<1>4. MounterOK(r)'
  BY <1>1, <1>3, MountPcNames DEF MounterOK, Intact
<1> QED BY <1>1, <1>2, <1>3, <1>4, MountOthers, MountPcNames DEF Intact

\* The same of an Unmount; a RestorePath may be under way.
LEMMA UnmountAlone ==
  ASSUME Inv0, MountInv, NEW r \in Reqs, req[r].pc \in UnmountSteps
  PROVE  req[r].mount \in Mounts /\ \A q \in Reqs \ {r} : AtMount(q) => req[q].mount # req[r].mount
<1>1. MountersApart /\ AtMount(r)
  BY DEF MountInv, AtMount, MountPcs
<1> QED BY <1>1, TypeParts DEF Inv0, ReqsOK, ReqType, MountersApart

LEMMA UnmountRemoveKeeps ==
  ASSUME Inv0, MountInv, NEW r \in Reqs, UnmountRemove(r)
  PROVE  MountInv'
<1> DEFINE m == req[r].mount
<1>0. req[r].pc = "unmount" /\ MounterOK(r) /\ DirsOK /\ ReqsOK
  BY TypeParts DEF Inv0, UnmountRemove, At, MountInv
<1>1. m \in Mounts /\ \A q \in Reqs \ {r} : AtMount(q) => req[q].mount # m
  BY <1>0, UnmountAlone, MountPcNames
<1>2. mounted[m] = Nothing \/ mounted[m].leaving
  BY <1>0 DEF MounterOK, Intact
<1>3. UNCHANGED <<disk, staging>>
  BY DEF UnmountRemove
<1>4. /\ \A n \in Mounts \ {m} : mounted'[n] = mounted[n]
      /\ mounted'[m] = Nothing \/ mounted'[m].leaving
      /\ req'[r].mount = m /\ req'[r].pc \in {"unmount", "unstage"}
      /\ \A q \in Reqs \ {r} : req'[q] = req[q]
  <2>1. CASE mounted[m] = Nothing \/ mounted[m].files = {}
    <3>1. mounted' = [mounted EXCEPT ![m] = Nothing] /\ Goto(r, "unstage")
      BY <2>1 DEF UnmountRemove
    <3>2. Went(r, "unstage")
      BY <1>0, <3>1, GotoReq, StepNames
    <3> QED BY <1>0, <1>1, <3>1, <3>2 DEF DirsOK, Went, Moved, Same
  <2>2. CASE ~(mounted[m] = Nothing \/ mounted[m].files = {})
    <3>1. PICK f : mounted' = [mounted EXCEPT ![m].files = @ \ {f}]
      BY <2>2 DEF UnmountRemove
    <3>2. mounted' = [mounted EXCEPT ![m] = [mounted[m] EXCEPT !.files = mounted[m].files \ {f}]]
      BY <3>1
    <3>3. mounted[m] \in MountType
      BY <1>0, <1>1, <2>2 DEF DirsOK
    <3>4. [mounted[m] EXCEPT !.files = mounted[m].files \ {f}].leaving = mounted[m].leaving
      BY <3>3 DEF MountType
    <3>5. UNCHANGED req
      BY <2>2 DEF UnmountRemove
    <3> QED BY <1>0, <1>1, <1>2, <2>2, <3>2, <3>4, <3>5 DEF DirsOK
  <2> QED BY <2>1, <2>2
<1>5. MounterOK(r)'
  BY <1>4, MountPcNames DEF MounterOK, Intact
<1> QED BY <1>1, <1>3, <1>4, <1>5, MountOthers, MountPcNames DEF Intact

LEMMA UnstageKeeps ==
  ASSUME Inv0, MountInv, NEW r \in Reqs, Unstage(r)
  PROVE  MountInv'
<1> DEFINE m == req[r].mount
<1>0. req[r].pc = "unstage" /\ DirsOK
  BY TypeParts DEF Inv0, Unstage, At
<1>1. m \in Mounts /\ \A q \in Reqs \ {r} : AtMount(q) => req[q].mount # m
  BY <1>0, UnmountAlone, MountPcNames
<1>2. UNCHANGED <<disk, mounted>> /\ \A n \in Mounts \ {m} : staging'[n] = staging[n]
  BY <1>0 DEF Unstage, DirsOK
<1>3. req'[r].mount = m /\ req'[r].pc = "idle" /\ \A q \in Reqs \ {r} : req'[q] = req[q]
  BY PathMoves DEF Ended, Moved, Same
<1>4. MounterOK(r)'
  BY <1>3, MountPcNames DEF MounterOK, MountPcs
<1>5. mounted'[m] # Nothing /\ ~mounted'[m].leaving => mounted'[m].files = mounted'[m].want
  BY <1>1, <1>2 DEF MountInv, MountComplete, Intact
<1> QED BY <1>1, <1>2, <1>3, <1>4, <1>5, MountOthers, MountPcNames DEF Intact

\* Where a RestorePath is after a step of its own.
PathMoved(r) ==
  /\ \A q \in Reqs \ {r} : req'[q] = req[q]
  /\ req'[r].pc \in {"idle"} \cup RestorePathSteps
  /\ req'[r].pc \in RestorePathSteps =>
       \/ mounted[req'[r].mount] # Nothing
       \/ req[r].pc \in RestorePathSteps /\ req'[r].mount = req[r].mount
  /\ req'[r].pc = "copy" /\ mounted[req'[r].mount] # Nothing /\ ~mounted[req'[r].mount].leaving
       => req'[r].files \cup req'[r].todo = mounted[req'[r].mount].files

\* A RestorePath reads its mount, and none begins while there is none.
LEMMA PathKeeps ==
  ASSUME Inv0, MountInv, NEW r \in Reqs,
         (\E m \in Mounts : RestorePath(r, m)) \/ RestoreList(r) \/ RestoreCopy(r) \/ PathRestored(r)
  PROVE  MountInv'
<1>0. ReqsOK /\ DirsOK /\ Shape /\ MounterOK(r)
  BY TypeParts DEF Inv0, MountInv
<1>1. UNCHANGED <<disk, mounts>>
  BY DEF RestorePath, RestoreList, RestoreCopy, PathRestored
<1>2. PathMoved(r)
  <2>1. ASSUME NEW m \in Mounts, RestorePath(r, m)
        PROVE  PathMoved(r)
    <3>1. Begun(r, "list", req[r].backup, m) /\ mounted[m] # Nothing
      BY <2>1, PathMoves DEF RestorePath
    <3> QED BY <3>1, MountPcNames DEF PathMoved, Begun, Moved
  <2>2. CASE RestoreList(r)
    <3>0. req[r].pc = "list" /\ req[r].files = {}
      BY <1>0, <2>2 DEF RestoreList, At, Shape, Early
    <3>1. CASE Ended(r)
      BY <3>1, MountPcNames DEF PathMoved, Ended, Moved
    <3>2. CASE Moved(r, "copy", req[r].inode, req[r].files, mounted[req[r].mount].files) /\ Same(r)
      BY <3>0, <3>2, MountPcNames DEF PathMoved, Moved, Same
    <3> QED BY <2>2, <3>1, <3>2, PathMoves
  <2>3. CASE RestoreCopy(r)
    <3>0. req[r].pc = "copy"
      BY <2>3 DEF RestoreCopy, At
    <3>1. CASE Ended(r)
      BY <3>1, MountPcNames DEF PathMoved, Ended, Moved
    <3>2. CASE \E f \in req[r].todo :
                 Moved(r, "copy", req[r].inode, req[r].files \cup {f}, req[r].todo \ {f}) /\ Same(r)
      <4>1. PICK f \in req[r].todo :
              Moved(r, "copy", req[r].inode, req[r].files \cup {f}, req[r].todo \ {f}) /\ Same(r)
        BY <3>2
      <4>2. (req[r].files \cup {f}) \cup (req[r].todo \ {f}) = req[r].files \cup req[r].todo
        BY <4>1
      <4> QED BY <1>0, <3>0, <4>1, <4>2, MountPcNames DEF PathMoved, Moved, Same, MounterOK, Intact
    <3> QED BY <2>3, <3>1, <3>2, PathMoves
  <2>4. CASE PathRestored(r)
    BY <2>4, PathMoves, MountPcNames DEF PathMoved, Ended, Moved
  <2> QED BY <2>1, <2>2, <2>3, <2>4
<1>3. \A n \in Mounts : staging'[n] = staging[n] /\ mounted'[n] = mounted[n]
  BY <1>1 DEF mounts
<1>4. ReqsOK'
  BY PathWithin DEF PathAct
<1>5. MountersApart' /\ MountComplete'
  <2>1. ~AtMount(r)'
    BY <1>2, MountPcNames DEF PathMoved, AtMount, MountPcs
  <2>2. MountersApart'
    BY <1>2, <2>1 DEF PathMoved, MountInv, MountersApart, AtMount
  <2>3. MountComplete'
    BY <1>3 DEF MountInv, MountComplete, Intact
  <2> QED BY <2>2, <2>3
<1>6. MounterOK(r)'
  <2>1. req'[r].mount \in Mounts
    BY <1>4 DEF ReqsOK, ReqType
  <2>2. req'[r].pc \notin MountSteps \cup UnmountSteps
    BY <1>2, MountPcNames DEF PathMoved, MountPcs
  <2> QED BY <1>2, <1>3, <2>1, <2>2, MountPcNames DEF PathMoved, MounterOK, Intact
<1>7. ASSUME NEW q \in Reqs \ {r}
      PROVE  MounterOK(q)'
  <2>1. req'[q] = req[q] /\ MounterOK(q) /\ req[q].mount \in Mounts
    BY <1>0, <1>2 DEF PathMoved, MountInv, ReqsOK, ReqType
  <2>2. staging'[req[q].mount] = staging[req[q].mount] /\ mounted'[req[q].mount] = mounted[req[q].mount]
    BY <1>3, <2>1
  <2>3. req[q].pc \in MountSteps =>
          \A s \in Reqs : req'[s].pc \in RestorePathSteps => req'[s].mount # req[q].mount
    BY <1>2, <2>1 DEF PathMoved, MounterOK
  <2> QED BY <1>1, <2>1, <2>2, <2>3 DEF MounterOK, Intact, StreamEnds, disk
<1> QED BY <1>5, <1>6, <1>7 DEF MountInv

LEMMA MountStep ==
  ASSUME Serial, Inv0, ArchInv, MountInv, [Next]_vars
  PROVE  MountInv'
<1>1. ASSUME NEW r \in Reqs, MountAct(r)
      PROVE  MountInv'
  <2>1. ASSUME NEW b \in Archives, NEW m \in Mounts, MountStat(r, b, m)
        PROVE  MountInv'
    BY <2>1, MountStatKeeps
  <2> QED BY <1>1, <2>1, MountCleanKeeps, MountOpenKeeps, MountFillKeeps, MountFilledKeeps,
             MountRenameKeeps, MountDiscardKeeps DEF MountAct
<1>2. ASSUME NEW r \in Reqs, PathAct(r)
      PROVE  MountInv'
  <2>1. ASSUME NEW m \in Mounts, Unmount(r, m)
        PROVE  MountInv'
    BY <2>1, UnmountKeeps
  <2> QED BY <1>2, <2>1, UnmountRemoveKeeps, UnstageKeeps, PathKeeps DEF PathAct
<1>3. ASSUME NEW r \in Reqs, CreateAct(r) \/ RestoreAct(r)
      PROVE  MountInv'
  BY <1>3, MountQuiet
<1> QED BY <1>1, <1>2, <1>3, MountQuiet, MountCrash, Families

-----------------------------------------------------------------------------
(* Restores.  With one Restore at a time, the directory holds what it has  *)
(* extracted unless somebody else has written there.                       *)
RestoreInv ==
  /\ \A r, s \in Reqs : req[r].pc \in RestoreSteps /\ req[s].pc \in RestoreSteps => r = s
  /\ ~edited => \A r \in Reqs : /\ req[r].pc = "reopen" => live = {}
                                /\ req[r].pc = "extract" => live = req[r].files

LEMMA RestorePcNames ==
  /\ "clear" \in RestoreSteps /\ "reopen" \in RestoreSteps /\ "extract" \in RestoreSteps
  /\ \A pc \in CreateSteps \cup MountSteps \cup UnmountSteps \cup RestorePathSteps \cup {"idle", "remove"} :
       pc \notin RestoreSteps
  BY DEF RestoreSteps, CreateSteps, MountSteps, UnmountSteps, RestorePathSteps

LEMMA RestoreQuiet ==
  ASSUME RestoreInv, UNCHANGED cell \/ edited' = TRUE,
         \A q \in Reqs : req'[q].pc \in RestoreSteps => req'[q] = req[q]
  PROVE  RestoreInv'
  BY RestorePcNames DEF RestoreInv, cell

LEMMA RestoreOwnStep ==
  ASSUME Serial, Inv0, RestoreInv, NEW r \in Reqs, RestoreAct(r)
  PROVE  RestoreInv'
<1>0. Within(r, RestoreSteps \cup {"remove"})
  BY RestoreWithin
<1>1. ASSUME NEW b \in Archives, DeleteStat(r, b)
      PROVE  RestoreInv'
  <2>1. req'[r].pc = "remove" /\ UNCHANGED cell
    BY <1>1, RestoreMoves DEF Begun, Moved, DeleteStat
  <2> QED BY <1>0, <2>1, RestoreQuiet, RestorePcNames DEF Within
<1>2. ASSUME NEW b \in Archives, RestoreStat(r, b)
      PROVE  RestoreInv'
  <2>1. req'[r].pc = "clear" /\ UNCHANGED cell /\ \A q \in Reqs : req[q].pc \notin RestoreSteps
    BY <1>2, RestoreMoves DEF Begun, Moved, RestoreStat, Restoring
  <2> QED BY <1>0, <2>1, RestorePcNames DEF Within, RestoreInv, cell
<1>3. CASE DeleteRemove(r) \/ RestoreFails(r) \/ RestoreAnswers(r)
  <2>1. req'[r].pc = "idle" /\ UNCHANGED cell
    BY <1>3, RestoreMoves DEF Ended, Moved, DeleteRemove, RestoreFails, RestoreAnswers
  <2> QED BY <1>0, <2>1, RestoreQuiet, RestorePcNames DEF Within
<1>4. CASE RestoreClear(r)
  <2>1. req[r].pc = "clear" /\ req'[r].pc = "reopen" /\ live' = {} /\ edited' = FALSE
    BY <1>4, RestoreMoves DEF Went, Moved, RestoreClear, ClearLive, At
  <2> QED BY <1>0, <2>1, RestorePcNames DEF Within, RestoreInv
<1>5. CASE RestoreOpen(r)
  <2>1. req[r].pc = "reopen" /\ req[r].files = {} /\ UNCHANGED cell
    BY <1>5 DEF RestoreOpen, At, Inv0, Shape, Early
  <2>2. (req'[r].pc = "extract" /\ req'[r].files = {}) \/ req'[r].pc = "idle"
    BY <1>5, <2>1, RestoreMoves DEF Moved, Ended
  <2> QED BY <1>0, <2>1, <2>2, RestorePcNames DEF Within, RestoreInv, cell
<1>6. CASE RestoreExtract(r)
  <2>1. req[r].pc = "extract" /\ edited' = edited
    BY <1>6 DEF RestoreExtract, At
  <2>2. PICK f : /\ req'[r].pc = "extract" /\ req'[r].files = req[r].files \cup {f}
                 /\ live' = live \cup {f}
    BY <1>6, RestoreMoves DEF Moved
  <2> QED BY <1>0, <2>1, <2>2, RestorePcNames DEF Within, RestoreInv
<1> QED BY <1>1, <1>2, <1>3, <1>4, <1>5, <1>6 DEF RestoreAct

LEMMA RestoreStep ==
  ASSUME Serial, Inv0, RestoreInv, [Next]_vars
  PROVE  RestoreInv'
<1>1. ASSUME NEW r \in Reqs, CreateAct(r) \/ MountAct(r)
      PROVE  RestoreInv'
  <2>1. UNCHANGED cell /\ (Within(r, CreateSteps) \/ Within(r, MountSteps))
    BY <1>1, CreateWithin, MountWithin
  <2> QED BY <2>1, RestoreQuiet, RestorePcNames DEF Within
<1>2. ASSUME NEW r \in Reqs, PathAct(r)
      PROVE  RestoreInv'
  <2>1. Within(r, UnmountSteps \cup RestorePathSteps)
    BY <1>2, PathWithin
  <2>2. UNCHANGED cell \/ edited' = TRUE
    BY <1>2 DEF PathAct, Unmount, RestorePath, UnmountRemove, Unstage, RestoreList, RestoreCopy, PathRestored
  <2> QED BY <2>1, <2>2, RestoreQuiet, RestorePcNames DEF Within
<1>3. CASE Outside \/ UNCHANGED vars
  <2>1. req' = req /\ (UNCHANGED cell \/ edited' = TRUE)
    BY <1>3, OthersStep DEF vars
  <2> QED BY <2>1, RestoreQuiet
<1>4. CASE Crash
  <2>1. UNCHANGED cell /\ \A q \in Reqs : req'[q].pc = "idle"
    BY <1>4, OthersStep
  <2> QED BY <2>1, RestoreQuiet, RestorePcNames
<1> QED BY <1>1, <1>2, <1>3, <1>4, RestoreOwnStep, Families

-----------------------------------------------------------------------------
BackupsInv == Inv0 /\ ArchInv /\ MountInv /\ RestoreInv

LEMMA BackupsInvHolds == ASSUME Serial PROVE Spec => []BackupsInv
<1>1. ASSUME Init
      PROVE  MountInv /\ RestoreInv
  <2>1. (\A r \in Reqs : req[r].pc = "idle") /\ \A m \in Mounts : mounted[m] = Nothing
    BY <1>1 DEF Init
  <2>2. MountInv
    BY <2>1, MountPcNames DEF MountInv, MountersApart, AtMount, MounterOK, MountComplete, Intact, MountPcs
  <2> QED BY <2>1, <2>2, RestorePcNames DEF RestoreInv
<1>2. Init => BackupsInv
  BY <1>1, Inv0Init, ArchInit DEF BackupsInv
<1>3. BackupsInv /\ [Next]_vars => BackupsInv'
  BY Inv0Step, ArchStep, MountStep, RestoreStep DEF BackupsInv
<1> QED BY <1>2, <1>3, PTL DEF Spec

\* A mount no Unmount has set about holds the files of its archive and no other
\* (mount_service.go:189), for any number of mounts, if the requests of one mount
\* are serialised.
THEOREM MountsAreComplete == ASSUME Serial PROVE Spec => []MountComplete
<1>1. BackupsInv => MountComplete
  BY DEF BackupsInv, MountInv
<1> QED BY <1>1, BackupsInvHolds, PTL

\* A Restore that answers success leaves exactly the archive if nobody else has
\* written meanwhile (manager.go:211-223), if there is one Restore at a time.
THEOREM RestoresAreExact == ASSUME Serial PROVE Spec => RestoreExact
<1>1. BackupsInv /\ [Next]_vars =>
        [\A r \in Reqs : RestoreAnswers(r) /\ ~edited => live = data[req[r].inode]]_vars
  <2> SUFFICES ASSUME BackupsInv, NEW r \in Reqs, RestoreAnswers(r), ~edited
               PROVE  live = data[req[r].inode]
    OBVIOUS
  <2>1. req[r].pc = "extract" /\ req[r].files = data[req[r].inode]
    BY DEF RestoreAnswers, At, Extracted
  <2> QED BY <2>1 DEF BackupsInv, RestoreInv
<1> QED BY <1>1, BackupsInvHolds, PTL DEF Spec, RestoreExact

\* A RestorePath that answers success, its mount intact, has restored all of it
\* (mount_service.go:824), whatever ran beside it.
THEOREM RestoredPathsAreComplete == ASSUME Serial PROVE Spec => RestorePathComplete
<1>1. BackupsInv /\ [Next]_vars =>
        [\A r \in Reqs : PathRestored(r) /\ Intact(req[r].mount)
           => req[r].files = mounted[req[r].mount].want]_vars
  <2> SUFFICES ASSUME BackupsInv, NEW r \in Reqs, PathRestored(r), Intact(req[r].mount)
               PROVE  req[r].files = mounted[req[r].mount].want
    OBVIOUS
  <2>1. req[r].pc = "copy" /\ req[r].todo = {}
    BY DEF PathRestored, At
  <2>2. req[r].mount \in Mounts
    BY TypeParts DEF BackupsInv, Inv0, ReqsOK, ReqType
  <2>3. req[r].files \cup req[r].todo = mounted[req[r].mount].files
    BY <2>1 DEF BackupsInv, MountInv, MounterOK
  <2> QED BY <2>1, <2>2, <2>3 DEF BackupsInv, MountInv, MountComplete
<1> QED BY <1>1, BackupsInvHolds, PTL DEF Spec, RestorePathComplete
=============================================================================
