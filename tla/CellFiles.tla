------------------------------ MODULE CellFiles ------------------------------
(***************************************************************************)
(* internal/files and the handlers over it (internal/api), with the file    *)
(* operations of the SFTP sessions (internal/sftp/filesystem.go): what they *)
(* do to the directory of one Cell, its recycle bin and its disk limit.     *)
(*                                                                         *)
(* No mutex covers the directory.  An operation that looks before it acts   *)
(* is a request with a program counter; one that is a single call that      *)
(* matters is a single action.  A path is <<where, name, k>>: k = 0 for a   *)
(* name a user chose, k > 0 for one with " (deleted <time>)" put to it.     *)
(* Directories below the Cell's are not told from what is in them.  Users   *)
(* write in the Cell's directory, and not by hand in the recycle bin.       *)
(***************************************************************************)
EXTENDS SftpServer, FiniteSetsExt

CONSTANTS
  Names, Alts,  \* what users call files, and how many more names one may get
  MaxSize,      \* the largest file
  MaxFiles,     \* bounds the files there are
  DiskLimit,    \* Limits.DiskMB; 0 for none
  Reqs,         \* concurrent requests that look before they act
  SerialMoves,  \* TRUE: one request at a time moves something into the bin or out
  SelfArchive   \* TRUE: an archive may be among the files it is made of

ASSUME CellFilesAssumption ==
  /\ {Alts, MaxFiles, DiskLimit} \subseteq Nat /\ MaxSize \in Nat \ {0}
  /\ Reqs \cap Conns = {}
  /\ {SerialMoves, SelfArchive} \subseteq BOOLEAN

VARIABLES
  tree,    \* the file at each path: its size, and what it holds if it is an archive
  fd,      \* where the file is that an SFTP session or a request has open for
           \* writing: it goes with the file, to Nothing when that loses its name
  req      \* the requests in flight

files == <<tree, fd, req>>
vars == <<sftp, files>>

Paths == {"live", "bin"} \X Names \X (0 .. Alts)
Live == {p \in Paths : p[1] = "live"}
Bin == Paths \ Live
User == {p \in Live : p[3] = 0}
Entries == Names \X (0 .. MaxSize)
Plain(n) == [size |-> n, holds |-> {}, whole |-> FALSE]
Files == [size : 0 .. MaxSize, holds : SUBSET Entries, whole : BOOLEAN]
ASSUME NothingAssumption == Nothing \notin Files /\ Nothing \notin Paths

NoRequest == [pc |-> "idle", from |-> Nothing, to |-> Nothing, left |-> {}, alone |-> FALSE]
Steps == {"idle", "move", "create", "archive", "copy", "unpack", "entry", "place"}

\* A file is a plain one or an archive, whole or not; a request works from and to
\* paths, through the sources or entries it has left, and what is open has a name.
TypeOK ==
  /\ SftpTypeOK
  /\ \A p \in Paths : tree[p] = Nothing \/ tree[p] \in Files
  /\ fd \in [Conns \cup Reqs -> Paths \cup {Nothing}]
  /\ \A x \in Conns \cup Reqs : fd[x] # Nothing => tree[fd[x]] # Nothing
  /\ \A r \in Reqs :
       /\ req[r].pc \in Steps
       /\ {req[r].from, req[r].to} \subseteq Paths \cup {Nothing}
       /\ req[r].left \subseteq User \cup Entries
       /\ req[r].alone \in BOOLEAN

FilesInit ==
  /\ tree = [p \in Paths |-> Nothing]
  /\ fd = [x \in Conns \cup Reqs |-> Nothing]
  /\ req = [r \in Reqs |-> NoRequest]

-----------------------------------------------------------------------------
There(p) == tree[p] # Nothing
SizeOf(ps) == FoldSet(LAMBDA p, n : tree[p].size + n, 0, ps)
\* pathSize(root) counts the bin as well.
Used == SizeOf({p \in Paths : There(p)})

At(r, pc) == req[r].pc = pc
\* Whoever changes the directory is no longer alone there, and nobody else is.
Others(r) == [s \in Reqs |-> IF s = r THEN req[s] ELSE [req[s] EXCEPT !.alone = FALSE]]
Disturb == req' = [s \in Reqs |-> [req[s] EXCEPT !.alone = FALSE]]
Become(r, new) == req' = [Others(r) EXCEPT ![r] = new]
Begin(r, new) == Serving /\ At(r, "idle") /\ req' = [req EXCEPT ![r] = new]
Finish(r) == Become(r, [NoRequest EXCEPT !.alone = req[r].alone])

\* os.Rename replaces what is there.
Move(p, q) ==
  IF p = q THEN UNCHANGED <<tree, fd>>
  ELSE /\ tree' = [tree EXCEPT ![q] = tree[p], ![p] = Nothing]
       /\ fd' = [x \in DOMAIN fd |-> IF fd[x] = p THEN q ELSE IF fd[x] = q THEN Nothing ELSE fd[x]]
Drop(p) ==
  /\ tree' = [tree EXCEPT ![p] = Nothing]
  /\ fd' = [x \in DOMAIN fd |-> IF fd[x] = p THEN Nothing ELSE fd[x]]
\* os.OpenFile with O_CREATE, and what is written then
Place(p, content) ==
  /\ There(p) \/ Cardinality({q \in Paths : There(q)}) < MaxFiles
  /\ tree' = [tree EXCEPT ![p] = content]
Close(x) == fd' = [fd EXCEPT ![x] = Nothing]

\* Slips: a recycled file keeps its name whatever has it already; a limit that
\* only looks at the new bytes; a file that goes without its name.
NameKept(p) == {p}
NewBytesOnly(n) == DiskLimit = 0 \/ n <= DiskLimit
NameLeft(p) == tree' = [tree EXCEPT ![p] = Torn] /\ UNCHANGED fd

\* uniqueRecyclePath: the path itself, or the name with a stamp nobody has.
UniqueRecyclePath(p) ==
  IF There(p) THEN {q \in Paths : q[1] = p[1] /\ q[2] = p[2] /\ q[3] > p[3] /\ ~There(q)} ELSE {p}

\* os.O_CREATE|os.O_EXCL
Exclusive(p) == ~There(p)

\* ensureDiskCapacity
EnsureDiskCapacity(n) == DiskLimit = 0 \/ n <= DiskLimit - Used

\* archiveExpandedBytes: what the entries say they are
ExpandedBytes(p) == FoldSet(LAMBDA e, n : e[2] + n, 0, tree[p].holds)

\* os.RemoveAll of one path
Remove(p) == Drop(p)

-----------------------------------------------------------------------------
\* Write, WriteBytes, UploadFromURL: the file is truncated first, so that a
\* transfer that fails leaves an empty one.
WriteFile(p) ==
  /\ Serving
  /\ \E n \in 0 .. MaxSize : Place(p, Plain(n))
  /\ Disturb
  /\ UNCHANGED fd

RenameFile(p, q) ==
  /\ Serving
  /\ There(p)
  /\ Move(p, q)
  /\ Disturb

PermanentDeleteFile(p) ==
  /\ Serving
  /\ There(p)
  /\ Remove(p)
  /\ Disturb

\* MoveToRecycleBin of a live path, RestoreFromRecycleBin of one in the bin: look
\* for a name that is free there, then rename.
PickName(r, p) ==
  /\ SerialMoves => \A s \in Reqs : ~At(s, "move")
  /\ There(p)
  /\ \E q \in UniqueRecyclePath(<<IF p \in Live THEN "bin" ELSE "live", p[2], p[3]>>) :
       Begin(r, [NoRequest EXCEPT !.pc = "move", !.from = p, !.to = q])
  /\ UNCHANGED <<tree, fd>>

MoveFile(r) ==
  /\ At(r, "move")
  /\ IF There(req[r].from) THEN Move(req[r].from, req[r].to) ELSE UNCHANGED <<tree, fd>>
  /\ Finish(r)

\* CreateFile looks, and then opens with O_EXCL.
CreateFileStat(r, p) ==
  /\ ~There(p)
  /\ Begin(r, [NoRequest EXCEPT !.pc = "create", !.to = p])
  /\ UNCHANGED <<tree, fd>>

CreateFileOpen(r) ==
  /\ At(r, "create")
  /\ IF Exclusive(req[r].to) THEN Place(req[r].to, Plain(0)) ELSE UNCHANGED tree
  /\ Finish(r)
  /\ UNCHANGED fd

-----------------------------------------------------------------------------
\* CreateArchive looks for its destination, measures its sources and the Cell,
\* and then opens the destination with O_EXCL and copies source by source.
CreateArchiveCheck(r, sources, p) ==
  /\ sources # {}
  /\ ~There(p)
  /\ \A q \in sources : There(q) \/ (SelfArchive /\ q = p)
  /\ EnsureDiskCapacity(SizeOf(sources \ {p}))
  /\ Begin(r, [NoRequest EXCEPT !.pc = "archive", !.to = p, !.left = sources, !.alone = TRUE])
  /\ UNCHANGED <<tree, fd>>

CreateArchiveOpen(r) ==
  LET p == req[r].to IN
  /\ At(r, "archive")
  /\ IF Exclusive(p)
     THEN Place(p, Plain(0)) /\ fd' = [fd EXCEPT ![r] = p] /\ Become(r, [req[r] EXCEPT !.pc = "copy"])
     ELSE Finish(r) /\ UNCHANGED <<tree, fd>>

\* At most as large as the source is; a zip that comes upon itself reads what it
\* has just written, and is not done with itself.
Append(p, q, n) ==
  /\ tree[p].size + n <= MaxSize
  /\ tree' = [tree EXCEPT ![p].size = @ + n, ![p].holds = @ \cup {<<q[2], n>>}]

CreateArchiveCopy(r) ==
  /\ At(r, "copy")
  /\ \E q \in req[r].left :
       LET itself == fd[r] = q IN
       /\ There(q)
       /\ IF fd[r] = Nothing THEN UNCHANGED tree ELSE Append(fd[r], q, IF itself THEN 1 ELSE tree[q].size)
       /\ Become(r, [req[r] EXCEPT !.left = IF itself THEN @ ELSE @ \ {q}])
  /\ UNCHANGED fd

CreateArchiveEnd(r) ==
  /\ At(r, "copy")
  /\ req[r].left = {}
  /\ tree' = IF fd[r] = Nothing THEN tree ELSE [tree EXCEPT ![fd[r]].whole = TRUE]
  /\ Close(r)
  /\ Finish(r)

\* Any error; os.Remove takes whatever is at the destination by now.
CreateArchiveFail(r) ==
  /\ At(r, "copy")
  /\ tree' = [tree EXCEPT ![req[r].to] = Nothing]
  /\ fd' = [x \in DOMAIN fd |-> IF x = r \/ fd[x] = req[r].to THEN Nothing ELSE fd[x]]
  /\ Finish(r)

\* ExtractArchive reads the archive to its end for its size, and opens it again;
\* a torn one is refused the first time.
ExtractArchiveCheck(r, p) ==
  /\ There(p)
  /\ tree[p].whole
  /\ EnsureDiskCapacity(ExpandedBytes(p))
  /\ Begin(r, [NoRequest EXCEPT !.pc = "unpack", !.from = p, !.alone = TRUE])
  /\ UNCHANGED <<tree, fd>>

ExtractArchiveOpen(r) ==
  LET p == req[r].from IN
  /\ At(r, "unpack")
  /\ IF There(p) /\ tree[p].holds # {}
     THEN Become(r, [req[r] EXCEPT !.pc = "entry", !.left = tree[p].holds])
     ELSE Finish(r)
  /\ UNCHANGED <<tree, fd>>

\* prepareExtractTarget: an existing target is an error, or with overwrite goes.
PrepareTarget(r) ==
  /\ At(r, "entry")
  /\ \E e \in req[r].left :
       LET p == <<"live", e[1], 0>> IN
       \/ There(p) /\ Finish(r) /\ UNCHANGED <<tree, fd>>
       \/ Drop(p) /\ Become(r, [req[r] EXCEPT !.pc = "place", !.to = p])

\* O_CREATE|O_TRUNC; a copy that fails leaves what it has written.
PlaceEntry(r) ==
  /\ At(r, "place")
  /\ \E e \in {f \in req[r].left : f[1] = req[r].to[2]}, n \in 0 .. MaxSize :
       /\ n <= e[2]
       /\ Place(req[r].to, Plain(n))
       /\ IF n < e[2] \/ req[r].left = {e}
          THEN Finish(r)
          ELSE Become(r, [req[r] EXCEPT !.pc = "entry", !.left = @ \ {e}])
  /\ UNCHANGED fd

-----------------------------------------------------------------------------
\* An SFTP session: Filewrite opens, writes by offset and closes; the handle stays
\* with the file when its name changes.
InSession(c) == conn[c] = "session"

SftpOpen(c, p) ==
  /\ InSession(c)
  /\ fd[c] = Nothing
  /\ Place(p, Plain(0)) \/ (There(p) /\ UNCHANGED tree)
  /\ fd' = [fd EXCEPT ![c] = p]
  /\ Disturb

SftpWrite(c) ==
  /\ fd[c] # Nothing
  /\ tree' = [tree EXCEPT ![fd[c]] = Plain(IF @.size = 0 THEN 1 ELSE @.size)]
  /\ Disturb
  /\ UNCHANGED fd

SftpClose(c) ==
  /\ fd[c] # Nothing
  /\ Close(c)
  /\ UNCHANGED <<tree, req>>

SftpRename(c, p, q) ==
  /\ InSession(c)
  /\ There(p)
  /\ Move(p, q)
  /\ Disturb

SftpRemove(c, p) ==
  /\ InSession(c)
  /\ There(p)
  /\ Drop(p)
  /\ Disturb

Truncate(c, p) ==
  /\ InSession(c)
  /\ There(p)
  /\ tree' = [tree EXCEPT ![p] = Plain(0)]
  /\ Disturb
  /\ UNCHANGED fd

-----------------------------------------------------------------------------
FileOperation ==
  \/ \E p \in User : WriteFile(p)
  \/ \E p \in Live, q \in User : RenameFile(p, q)
  \/ \E p \in Bin : PermanentDeleteFile(p)
  \/ \E r \in Reqs :
       \/ \E p \in Paths : PickName(r, p)
       \/ \E p \in User : CreateFileStat(r, p) \/ ExtractArchiveCheck(r, p)
       \/ \E p \in User, sources \in SUBSET User : CreateArchiveCheck(r, sources, p)
       \/ MoveFile(r) \/ CreateFileOpen(r)
       \/ CreateArchiveOpen(r) \/ CreateArchiveCopy(r) \/ CreateArchiveEnd(r) \/ CreateArchiveFail(r)
       \/ ExtractArchiveOpen(r) \/ PrepareTarget(r) \/ PlaceEntry(r)

SessionOperation(c) ==
  \/ \E p \in User : SftpOpen(c, p) \/ Truncate(c, p)
  \/ \E p \in Live, q \in User : SftpRename(c, p, q)
  \/ \E p \in Paths : SftpRemove(c, p)
  \/ SftpWrite(c) \/ SftpClose(c)

\* What ends a session closes its file; what ends the worker, its requests.
ServerStep ==
  /\ SftpNext
  /\ fd' = [x \in DOMAIN fd |-> IF x \in Conns THEN IF conn'[x] = "session" THEN fd[x] ELSE Nothing
                               ELSE IF Serving' THEN fd[x] ELSE Nothing]
  /\ req' = IF Serving' THEN req ELSE [r \in Reqs |-> NoRequest]
  /\ UNCHANGED tree

Init == SftpInit /\ FilesInit
Next ==
  \/ FileOperation /\ UNCHANGED sftp
  \/ \E c \in Conns : SessionOperation(c) /\ UNCHANGED sftp
  \/ ServerStep

Spec == Init /\ [][Next]_vars

-----------------------------------------------------------------------------
\* An archive operation that has the directory to itself, from its check to whatever
\* end it comes to, keeps the Cell within its disk limit, the bin included
\* (files/archive.go:144).
QuotaKept == \A r \in Reqs : req[r].alone /\ DiskLimit # 0 => Used <= DiskLimit

\* Creating a file or an archive, or deleting a file, which only recycles it,
\* leaves every other file what it was, in the recycle bin as well, whatever
\* requests and sessions came between its look and its act
\* (files/manager.go:499, :559, files/archive.go:290).
Recycling(r) == At(r, "move") /\ req[r].from \in Live
NothingLost ==
  [][\A r \in Reqs : req'[r].pc # req[r].pc /\ (At(r, "create") \/ At(r, "archive") \/ Recycling(r)) =>
       \A p \in Paths : There(p) =>
         tree'[p] = tree[p] \/ (Recycling(r) /\ p = req[r].from /\ tree'[req[r].to] = tree[p])]_vars
=============================================================================
