------------------------------- MODULE Backups -------------------------------
(***************************************************************************)
(* internal/backup and internal/cell/backup.go: the archives of one Cell,  *)
(* their mounts, and the Cell directory they are made from and restored    *)
(* to.  Nothing here is under a mutex: requests race on the file system,   *)
(* and each action is one system call, or a run of them no other request   *)
(* can tell apart.                                                         *)
(*                                                                         *)
(* A file is present or not; its content is not looked at.  An archive is  *)
(* a name in the backup directory and an inode behind it, which a writer   *)
(* or a reader holds on to after the name has gone.                        *)
(***************************************************************************)
CONSTANTS
  Files,    \* what may be in the Cell directory
  Archives, \* backup IDs
  Mounts,   \* mount IDs
  Inodes,   \* archive files; recycled once no name and no request has them
  Reqs,     \* concurrent requests
  Nothing,
  Serial    \* TRUE: the panel never has two Creates of a backup, two requests
            \* of a mount or two Restores in flight

ASSUME BackupsAssumption ==
  /\ Nothing \notin Inodes
  /\ \A F \in SUBSET Files : F # Nothing
  /\ Archives # {} /\ Mounts # {}
  /\ Serial \in BOOLEAN

VARIABLES
  name,     \* the inode each backup ID names
  data,     \* the files an inode holds so far
  state,    \* an inode: "open" to its writer, "closed", "torn" (its stream will
            \* never have an end) or, after a crash, "left" (it has its end, but
            \* nobody was told)
  told,     \* the inode whose checksum Create answered for a backup
  live,     \* the files in the Cell directory
  edited,   \* the directory changed since the last Restore cleared it
  staging,  \* <mount>.mounting: Nothing, or the files extracted so far
  mounted,  \* <mount>: Nothing, or its files, those of its archive, and whether an
            \* Unmount has set about it
  req       \* the requests in flight

disk == <<name, data, state>>
cell == <<live, edited>>
mounts == <<staging, mounted>>
vars == <<disk, told, cell, mounts, req>>

CreateSteps == {"open", "walk", "sum", "undo"}
RestoreSteps == {"clear", "reopen", "extract"}
MountSteps == {"clean", "source", "fill", "rename", "discard"}
UnmountSteps == {"unmount", "unstage"}
RestorePathSteps == {"list", "copy"}
Steps == {"idle", "remove"} \cup UnmountSteps \cup RestorePathSteps \cup CreateSteps \cup RestoreSteps \cup MountSteps
NoRequest(r) == [req[r] EXCEPT !.pc = "idle", !.inode = Nothing, !.files = {}, !.todo = {}]

\* A request holds a backup ID, a mount ID, an inode, the files it is through
\* with or has yet to visit and, in a RestorePath, those it has yet to copy.
TypeOK ==
  /\ name \in [Archives -> Inodes \cup {Nothing}]
  /\ data \in [Inodes -> SUBSET Files]
  /\ state \in [Inodes -> {"open", "closed", "torn", "left"}]
  /\ told \in [Archives -> Inodes \cup {Nothing}]
  /\ live \subseteq Files /\ edited \in BOOLEAN
  /\ staging \in [Mounts -> {Nothing} \cup SUBSET Files]
  /\ mounted \in [Mounts -> {Nothing} \cup
                              [files : SUBSET Files, want : SUBSET Files, leaving : BOOLEAN]]
  /\ req \in [Reqs -> [pc : Steps, backup : Archives, mount : Mounts,
                       inode : Inodes \cup {Nothing}, files : SUBSET Files,
                       todo : SUBSET Files]]

Init ==
  /\ name = [b \in Archives |-> Nothing]
  /\ data = [i \in Inodes |-> {}] /\ state = [i \in Inodes |-> "closed"]
  /\ told = [b \in Archives |-> Nothing]
  /\ live \in SUBSET Files /\ edited = FALSE
  /\ staging = [m \in Mounts |-> Nothing] /\ mounted = [m \in Mounts |-> Nothing]
  /\ req \in [Reqs -> [pc : {"idle"}, backup : {CHOOSE b \in Archives : TRUE},
                       mount : {CHOOSE m \in Mounts : TRUE}, inode : {Nothing}, files : {{}},
                       todo : {{}}]]

-----------------------------------------------------------------------------
At(r, pc) == req[r].pc = pc
Finish(r) == req' = [req EXCEPT ![r] = NoRequest(r)]
Goto(r, pc) == req' = [req EXCEPT ![r].pc = pc]
Begin(r, pc, b, m) ==
  /\ At(r, "idle")
  /\ req' = [req EXCEPT ![r].pc = pc, ![r].backup = b, ![r].mount = m]

Free(i) == (\A b \in Archives : i \notin {name[b], told[b]}) /\ (\A r \in Reqs : req[r].inode # i)
Named(b) == name[b] # Nothing
Forget(b) == name' = [name EXCEPT ![b] = Nothing]

\* Slips: a failing Create that leaves its file, or an empty one, a Restore over the
\* files that are there, a Mount or a Restore that does not mind how its archive
\* ends, a RestorePath that goes on after an entry it could not restore.
FileLeft(r) == UNCHANGED name
FileEmptied(r) == name' = [name EXCEPT ![req[r].backup] = {}]
NotCleared(r) == UNCHANGED live
EndIgnored(i) == TRUE
EntrySkipped(r, f) == req' = [req EXCEPT ![r].todo = @ \ {f}]

\* os.OpenFile with O_CREATE and O_EXCL
Exclusive(b) == ~Named(b)
\* os.Remove(targetPath), whichever request made the file
RemoveTarget(r) == Forget(req[r].backup)
\* os.RemoveAll(targetDir), os.MkdirAll(targetDir)
ClearLive(r) == live' = {}
\* The end of the gzip stream is only there once the writer has closed it.
StreamEnds(i) == state[i] \in {"closed", "left"}
\* The error of one entry is that of the whole RestorePath.
CopyFails(r, f) == Finish(r)
\* tarWriter.WriteHeader, io.Copy
Append(r, f) == data' = [data EXCEPT ![req[r].inode] = @ \cup {f}]

-----------------------------------------------------------------------------
\* Create: look for the archive, open it, walk the Cell directory, close it and
\* read it again for the checksum.
SameBackup(r, b) == \A s \in Reqs : req[s].pc \in CreateSteps => req[s].backup # b

CreateStat(r, b) ==
  /\ Serial => SameBackup(r, b)
  /\ ~Named(b)
  /\ Begin(r, "open", b, req[r].mount)
  /\ UNCHANGED <<disk, told, cell, mounts>>

CreateOpen(r) ==
  /\ At(r, "open")
  /\ IF Exclusive(req[r].backup)
     THEN \E i \in Inodes :
            /\ Free(i)
            /\ name' = [name EXCEPT ![req[r].backup] = i]
            /\ data' = [data EXCEPT ![i] = {}]
            /\ state' = [state EXCEPT ![i] = "open"]
            /\ req' = [req EXCEPT ![r].pc = "walk", ![r].inode = i, ![r].files = live]
     ELSE Goto(r, "undo") /\ UNCHANGED disk
  /\ UNCHANGED <<told, cell, mounts>>

\* A file that has gone since the directory was read fails the walk.
CreateWalk(r) ==
  /\ At(r, "walk")
  /\ \E f \in req[r].files \cap live :
       Append(r, f) /\ req' = [req EXCEPT ![r].files = @ \ {f}]
  /\ UNCHANGED <<name, state, told, cell, mounts>>

\* Slip: the checksum before the Closes.
SumUnclosed(r) == At(r, "walk") /\ Goto(r, "sum") /\ UNCHANGED <<disk, told, cell, mounts>>

\* The deferred Closes run whether the walk has failed or not, and end the stream
\* unless the failure was in the middle of an entry or is their own.
CreateClose(r) ==
  /\ At(r, "walk")
  /\ \E end \in {"closed", "torn"} :
       /\ state' = [state EXCEPT ![req[r].inode] = end]
       /\ \/ end = "closed" /\ req[r].files = {} /\ Goto(r, "sum")
          \/ Goto(r, "undo")
  /\ UNCHANGED <<name, data, told, cell, mounts>>

\* The checksum is that of the file the name leads to by now.
CreateSum(r) ==
  LET b == req[r].backup IN
  /\ At(r, "sum")
  /\ \/ Named(b) /\ told' = [told EXCEPT ![b] = name[b]] /\ Finish(r)
     \/ Goto(r, "undo") /\ UNCHANGED told
  /\ UNCHANGED <<disk, cell, mounts>>

CreateUndo(r) ==
  /\ At(r, "undo")
  /\ RemoveTarget(r)
  /\ Finish(r)
  /\ UNCHANGED <<data, state, told, cell, mounts>>

-----------------------------------------------------------------------------
\* Delete: find the archive, remove it.
DeleteStat(r, b) ==
  /\ Named(b)
  /\ Begin(r, "remove", b, req[r].mount)
  /\ UNCHANGED <<disk, told, cell, mounts>>

DeleteRemove(r) ==
  /\ At(r, "remove")
  /\ Forget(req[r].backup)
  /\ told' = [told EXCEPT ![req[r].backup] = Nothing]
  /\ Finish(r)
  /\ UNCHANGED <<data, state, cell, mounts>>

-----------------------------------------------------------------------------
\* Restore: find the archive, clear the directory, open the archive, extract it.
\* Any step may fail and ends the request.  That the Cell must be stopped is only
\* looked at before the first of them, so its server may be up again by any
\* later one: what it writes is an Edit.
Restoring == \E r \in Reqs : req[r].pc \in RestoreSteps

RestoreStat(r, b) ==
  /\ Serial => ~Restoring
  /\ Named(b)
  /\ Begin(r, "clear", b, req[r].mount)
  /\ UNCHANGED <<disk, told, cell, mounts>>

RestoreClear(r) ==
  /\ At(r, "clear")
  /\ ClearLive(r)
  /\ edited' = FALSE
  /\ Goto(r, "reopen")
  /\ UNCHANGED <<disk, told, mounts>>

RestoreOpen(r) ==
  /\ At(r, "reopen")
  /\ IF Named(req[r].backup)
     THEN req' = [req EXCEPT ![r].pc = "extract", ![r].inode = name[req[r].backup]]
     ELSE Finish(r)
  /\ UNCHANGED <<disk, told, cell, mounts>>

RestoreExtract(r) ==
  /\ At(r, "extract")
  /\ \E f \in data[req[r].inode] \ req[r].files :
       live' = live \cup {f} /\ req' = [req EXCEPT ![r].files = @ \cup {f}]
  /\ UNCHANGED <<disk, told, edited, mounts>>

RestoreFails(r) ==
  /\ At(r, "extract")
  /\ Finish(r)
  /\ UNCHANGED <<disk, told, cell, mounts>>

Extracted(r) == req[r].files = data[req[r].inode] /\ StreamEnds(req[r].inode)

RestoreAnswers(r) ==
  /\ At(r, "extract")
  /\ Extracted(r)
  /\ Finish(r)
  /\ UNCHANGED <<disk, told, cell, mounts>>

-----------------------------------------------------------------------------
\* Mount: find the archive and no mount, empty the staging directory, extract
\* into it, rename it.  Unmount: remove the mount, then the staging directory.
OnMount(m, steps) == \E s \in Reqs : req[s].pc \in steps /\ req[s].mount = m
SameMount(m) == ~OnMount(m, MountSteps \cup UnmountSteps)

Mountable(b, m) == Named(b) /\ mounted[m] = Nothing

MountStat(r, b, m) ==
  /\ Serial => SameMount(m) /\ ~OnMount(m, RestorePathSteps)
  /\ Mountable(b, m)
  /\ Begin(r, "clean", b, m)
  /\ UNCHANGED <<disk, told, cell, mounts>>

MountClean(r) ==
  /\ At(r, "clean")
  /\ staging' = [staging EXCEPT ![req[r].mount] = {}]
  /\ Goto(r, "source")
  /\ UNCHANGED <<disk, told, cell, mounted>>

MountOpen(r) ==
  /\ At(r, "source")
  /\ IF Named(req[r].backup)
     THEN req' = [req EXCEPT ![r].pc = "fill", ![r].inode = name[req[r].backup]]
     ELSE Goto(r, "discard")
  /\ UNCHANGED <<disk, told, cell, mounts>>

\* Each entry makes the directories above it, the staging directory included.
MountFill(r) ==
  LET m == req[r].mount
      there == IF staging[m] = Nothing THEN {} ELSE staging[m]
  IN
  /\ At(r, "fill")
  /\ \E f \in data[req[r].inode] \ req[r].files :
       /\ staging' = [staging EXCEPT ![m] = there \cup {f}]
       /\ req' = [req EXCEPT ![r].files = @ \cup {f}]
  /\ UNCHANGED <<disk, told, cell, mounted>>

MountFilled(r) ==
  /\ At(r, "fill")
  /\ \/ Extracted(r) /\ Goto(r, "rename")
     \/ Goto(r, "discard")
  /\ UNCHANGED <<disk, told, cell, mounts>>

\* rename replaces an empty directory, and fails on any other.
MountRename(r) ==
  LET m == req[r].mount IN
  /\ At(r, "rename")
  /\ IF staging[m] # Nothing /\ (mounted[m] = Nothing \/ mounted[m].files = {})
     THEN /\ mounted' = [mounted EXCEPT ![m] =
                           [files |-> staging[m], want |-> data[req[r].inode],
                            leaving |-> FALSE]]
          /\ staging' = [staging EXCEPT ![m] = Nothing]
          /\ Finish(r)
     ELSE Goto(r, "discard") /\ UNCHANGED mounts
  /\ UNCHANGED <<disk, told, cell>>

MountDiscard(r) ==
  /\ At(r, "discard")
  /\ staging' = [staging EXCEPT ![req[r].mount] = Nothing]
  /\ Finish(r)
  /\ UNCHANGED <<disk, told, cell, mounted>>

Unmount(r, m) ==
  /\ Serial => SameMount(m)
  /\ mounted' = IF mounted[m] = Nothing THEN mounted
                ELSE [mounted EXCEPT ![m].leaving = TRUE]
  /\ Begin(r, "unmount", req[r].backup, m)
  /\ UNCHANGED <<disk, told, cell, staging>>

\* os.RemoveAll takes the files one by one, and the directory last.
UnmountRemove(r) ==
  LET m == req[r].mount IN
  /\ At(r, "unmount")
  /\ IF mounted[m] = Nothing \/ mounted[m].files = {}
     THEN mounted' = [mounted EXCEPT ![m] = Nothing] /\ Goto(r, "unstage")
     ELSE /\ \E f \in mounted[m].files : mounted' = [mounted EXCEPT ![m].files = @ \ {f}]
          /\ UNCHANGED req
  /\ UNCHANGED <<disk, told, cell, staging>>

Unstage(r) ==
  /\ At(r, "unstage")
  /\ staging' = [staging EXCEPT ![req[r].mount] = Nothing]
  /\ Finish(r)
  /\ UNCHANGED <<disk, told, cell, mounted>>

\* RestorePath of a file to a stopped Cell: copied beside its target, then renamed
\* over it.
InMount(m, f) == mounted[m] # Nothing /\ f \in mounted[m].files

RestoreFile(m, f) ==
  /\ InMount(m, f)
  /\ live' = live \cup {f} /\ edited' = TRUE
  /\ UNCHANGED <<disk, told, mounts, req>>

\* RestorePath of a directory: find it in the mount, read its entries, restore
\* each.  An entry that has gone, and any other error, ends the request.
RestorePath(r, m) ==
  /\ mounted[m] # Nothing
  /\ Begin(r, "list", req[r].backup, m)
  /\ UNCHANGED <<disk, told, cell, mounts>>

RestoreList(r) ==
  LET m == req[r].mount IN
  /\ At(r, "list")
  /\ IF mounted[m] = Nothing THEN Finish(r)
     ELSE req' = [req EXCEPT ![r].pc = "copy", ![r].todo = mounted[m].files]
  /\ UNCHANGED <<disk, told, cell, mounts>>

RestoreCopy(r) ==
  LET m == req[r].mount IN
  /\ At(r, "copy")
  /\ \E f \in req[r].todo :
       \/ /\ InMount(m, f)
          /\ live' = live \cup {f} /\ edited' = TRUE
          /\ req' = [req EXCEPT ![r].files = @ \cup {f}, ![r].todo = @ \ {f}]
       \/ CopyFails(r, f) /\ UNCHANGED cell
  /\ UNCHANGED <<disk, told, mounts>>

PathRestored(r) ==
  /\ At(r, "copy")
  /\ req[r].todo = {}
  /\ Finish(r)
  /\ UNCHANGED <<disk, told, cell, mounts>>

\* ExtractPath to a stopped Cell writes the asked entries over what is there, one
\* by one; once its archive has lost its name, what it still writes is an Edit.
ExtractPath(b, f) ==
  /\ Named(b)
  /\ f \in data[name[b]]
  /\ live' = live \cup {f} /\ edited' = TRUE
  /\ UNCHANGED <<disk, told, mounts, req>>

-----------------------------------------------------------------------------
\* The file manager, SFTP or the game server writes or removes a file.
Edit(f) ==
  /\ live' \in {live \cup {f}, live \ {f}}
  /\ edited' = TRUE
  /\ UNCHANGED <<disk, told, mounts, req>>

\* The worker dies with its requests; the files they were at stay.
Crash ==
  /\ state' = [i \in Inodes |->
       IF state[i] = "open" THEN "torn"
       ELSE IF \E r \in Reqs : req[r].inode = i /\ req[r].pc \in {"sum", "undo"} THEN "left"
       ELSE state[i]]
  /\ req' = [r \in Reqs |-> NoRequest(r)]
  /\ UNCHANGED <<name, data, told, cell, mounts>>

RequestStep(r) ==
  \/ CreateOpen(r) \/ CreateWalk(r) \/ CreateClose(r) \/ CreateSum(r) \/ CreateUndo(r)
  \/ DeleteRemove(r)
  \/ RestoreClear(r) \/ RestoreOpen(r) \/ RestoreExtract(r) \/ RestoreFails(r) \/ RestoreAnswers(r)
  \/ MountClean(r) \/ MountOpen(r) \/ MountFill(r) \/ MountFilled(r) \/ MountRename(r)
  \/ MountDiscard(r) \/ UnmountRemove(r) \/ Unstage(r)
  \/ RestoreList(r) \/ RestoreCopy(r) \/ PathRestored(r)

Next ==
  \/ \E r \in Reqs, b \in Archives : CreateStat(r, b) \/ DeleteStat(r, b) \/ RestoreStat(r, b)
  \/ \E r \in Reqs, b \in Archives, m \in Mounts : MountStat(r, b, m)
  \/ \E r \in Reqs, m \in Mounts : Unmount(r, m) \/ RestorePath(r, m)
  \/ \E r \in Reqs : RequestStep(r)
  \/ \E m \in Mounts, f \in Files : RestoreFile(m, f)
  \/ \E b \in Archives, f \in Files : ExtractPath(b, f)
  \/ \E f \in Files : Edit(f)
  \/ Crash

Spec == Init /\ [][Next]_vars

-----------------------------------------------------------------------------
\* A backup whose checksum the panel was told is still that very archive, with
\* its end, until the panel deletes it (manager.go:117-135).
BackupSound ==
  \A b \in Archives : told[b] # Nothing => name[b] = told[b] /\ StreamEnds(told[b])

\* Every listed archive was answered for, or its Create is still at work on it,
\* or a crash kept Create from removing it: a Create that fails leaves nothing
\* in the list (manager.go:107).
ListedIsAnswered ==
  \A b \in Archives : Named(b) /\ state[name[b]] \in {"open", "closed"} =>
    \/ told[b] = name[b]
    \/ \E r \in Reqs : req[r].pc \in CreateSteps /\ req[r].inode = name[b]

\* A mount no Unmount has set about.
Intact(m) == mounted[m] # Nothing /\ ~mounted[m].leaving

\* A mount holds every file of the archive it was made from, and no other
\* (mount_service.go:189), until an Unmount takes them, which a crash may cut off.
MountComplete == \A m \in Mounts : Intact(m) => mounted[m].files = mounted[m].want

\* A Restore that answers success leaves exactly the files of the archive, if
\* nobody else has changed the directory meanwhile (manager.go:211-223).
RestoreExact ==
  [][\A r \in Reqs : RestoreAnswers(r) /\ ~edited => live = data[req[r].inode]]_vars

\* A RestorePath that answers success has restored the whole directory of the
\* archive, whatever ran beside it, if its mount is intact by then
\* (mount_service.go:824, api/backup_mounts.go:506).
RestorePathComplete ==
  [][\A r \in Reqs : PathRestored(r) /\ Intact(req[r].mount)
       => req[r].files = mounted[req[r].mount].want]_vars
=============================================================================
