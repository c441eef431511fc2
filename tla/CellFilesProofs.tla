--------------------------- MODULE CellFilesProofs ---------------------------
(***************************************************************************)
(* Proofs about CellFiles and the SftpServer below it: clients see one     *)
(* host key for good, whatever number of workers start, die and start      *)
(* again beside each other; files, open files and requests keep their      *)
(* types; recycling a file never costs another one; and an archive that    *)
(* has the directory to itself stays within the disk limit.                *)
(***************************************************************************)
EXTENDS CellFiles, Sums, TLAPS

-----------------------------------------------------------------------------
(* SftpServer.                                                             *)

\* A file of this process that is not finished, and one that is.
Unfinished(w) == boot[w] \in {"write", "undo"}
Finished(w) == boot[w] \in {"sync", "ready", "serving"}

OwnsTorn == \A w \in Workers : Unfinished(w) => keyFile = Torn
OneWriter == \A v, w \in Workers : Unfinished(v) /\ Unfinished(w) => v = w
HoldsKey == \A w \in Workers : boot[w] \in {"open", "write"} => hostKey[w] \in Keys
HoldsStored == \A w \in Workers : Finished(w) => hostKey[w] \in Keys /\ hostKey[w] = keyFile

HostKeyInv == SftpTypeOK /\ OwnsTorn /\ OneWriter /\ HoldsKey /\ HoldsStored

\* Every worker starts without a file of its own (cmd/daemon/main.go:84).
LEMMA HostKeyInit == SftpInit => HostKeyInv
  BY DEF SftpInit, HostKeyInv, SftpTypeOK, BootSteps, ConnSteps, OwnsTorn, OneWriter,
         HoldsKey, HoldsStored, Unfinished, Finished

\* The types need no more than themselves, whatever the disk does.
LEMMA SftpTypeStep ==
  ASSUME SftpTypeOK, [SftpNext]_sftp
  PROVE  SftpTypeOK'
<1> USE DEF SftpTypeOK, BootSteps, ConnSteps
<1>1. ASSUME NEW w \in Workers, BootNext(w) PROVE SftpTypeOK'
  <2> USE DEF Boot, Hold, Fatal, Parse
  <2>1. CASE Start(w) \/ CreateKeyFile(w) \/ ReadStored(w)
    BY <2>1 DEF Start, CreateKeyFile, ReadStored
  <2>2. CASE LoadOrCreateHostKey(w)
    BY <2>2 DEF LoadOrCreateHostKey
  <2>3. CASE WriteKey(w) \/ SyncKey(w)
    BY <2>3 DEF WriteKey, SyncKey
  <2>4. CASE RemoveKeyFile(w) \/ Listen(w)
    BY <2>4 DEF RemoveKeyFile, Listen
  <2> QED
    BY <1>1, <2>1, <2>2, <2>3, <2>4 DEF BootNext
<1>2. ASSUME NEW w \in Workers, Die(w) PROVE SftpTypeOK'
  BY <1>2 DEF Die, Fatal, Hold
<1>3. ASSUME NEW c \in Conns, ConnNext(c) PROVE SftpTypeOK'
  BY <1>3 DEF ConnNext, Conn, Accept, AskPanel, PanelDenies, Authenticated, HandshakeFails,
              OpenSession, EndSession, Disconnect, ReleaseSlot
<1>4. CASE UNCHANGED sftp
  BY <1>4 DEF sftp
<1> QED
  BY <1>1, <1>2, <1>3, <1>4 DEF SftpNext

\* What connections do leaves the host key alone (server.go:115).
LEMMA ConnStep ==
  ASSUME HostKeyInv, NEW c \in Conns, ConnNext(c)
  PROVE  HostKeyInv'
<1>1. UNCHANGED <<keyFile, boot, hostKey>>
  BY DEF ConnNext, Accept, AskPanel, PanelDenies, Authenticated, HandshakeFails, OpenSession,
         EndSession, Disconnect, ReleaseSlot
<1>2. conn' \in [Conns -> ConnSteps]
  BY DEF HostKeyInv, SftpTypeOK, ConnSteps, Conn, ConnNext, Accept, AskPanel, PanelDenies,
         Authenticated, HandshakeFails, OpenSession, EndSession, Disconnect, ReleaseSlot
<1> QED
  BY <1>1, <1>2 DEF HostKeyInv, SftpTypeOK, OwnsTorn, OneWriter, HoldsKey, HoldsStored,
                    Unfinished, Finished

\* A worker that gives up, or reads the file, writes nothing and holds what is
\* stored or nothing at all (host_key.go:80, :151).
LEMMA ParseStep ==
  ASSUME HostKeyInv, NEW w \in Workers, UNCHANGED <<keyFile, conn>>, Parse(w) \/ Fatal(w)
  PROVE  HostKeyInv'
<1> USE DEF HostKeyInv, SftpTypeOK, Parse, Fatal, Hold
<1>1. SftpTypeOK'
  BY DEF BootSteps
<1>2. (OwnsTorn /\ OneWriter)'
  BY DEF OwnsTorn, OneWriter, Unfinished
<1>3. HoldsKey'
  BY DEF HoldsKey
<1>4. HoldsStored'
  BY DEF HoldsStored, Finished
<1> QED
  BY <1>1, <1>2, <1>3, <1>4

\* The step that makes the file is exclusive, the one that writes it is of the
\* only process that has it unfinished (host_key.go:74, :104).
LEMMA BootStep ==
  ASSUME SftpServerAssumption, ~SyncFails, HostKeyInv, NEW w \in Workers, BootNext(w) \/ Die(w)
  PROVE  HostKeyInv'
<1> USE DEF HostKeyInv, SftpTypeOK, SftpServerAssumption, BootSteps, Boot, Hold,
            OwnsTorn, OneWriter, HoldsKey, HoldsStored, Unfinished, Finished
<1>1. CASE Start(w)
  BY <1>1 DEF Start
<1>2. CASE LoadOrCreateHostKey(w)
  <2>1. CASE Parse(w)
    BY <1>2, <2>1, ParseStep DEF LoadOrCreateHostKey
  <2>2. CASE /\ keyFile = Nothing /\ boot' = [boot EXCEPT ![w] = "open"]
             /\ \E k \in Keys : hostKey' = [hostKey EXCEPT ![w] = k]
    BY <1>2, <2>2 DEF LoadOrCreateHostKey
  <2> QED
    BY <1>2, <2>1, <2>2 DEF LoadOrCreateHostKey
<1>3. CASE CreateKeyFile(w)
  BY <1>3 DEF CreateKeyFile, KeyFileFree
<1>4. CASE ReadStored(w)
  BY <1>4, ParseStep DEF ReadStored
<1>5. CASE WriteKey(w)
  <2>1. boot[w] = "write" /\ hostKey[w] \in Keys /\ keyFile = Torn
    BY <1>5 DEF WriteKey
  <2>2. \A v \in Workers \ {w} : ~Unfinished(v) /\ ~Finished(v)
    BY <2>1
  <2> QED
    BY <1>5, <2>1, <2>2 DEF WriteKey
<1>6. CASE SyncKey(w)
  BY <1>6 DEF SyncKey
<1>7. CASE RemoveKeyFile(w)
  <2>1. boot[w] = "undo" /\ keyFile = Torn
    BY <1>7 DEF RemoveKeyFile
  <2>2. \A v \in Workers \ {w} : ~Unfinished(v) /\ ~Finished(v)
    BY <2>1
  <2> QED
    BY <1>7, <2>1, <2>2 DEF RemoveKeyFile, Fatal
<1>8. CASE Listen(w)
  <2>1. CASE Fatal(w)
    BY <1>8, <2>1, ParseStep DEF Listen
  <2>2. CASE Boot(w, "ready", "serving") /\ UNCHANGED hostKey
    BY <1>8, <2>2 DEF Listen
  <2> QED
    BY <1>8, <2>1, <2>2 DEF Listen
<1>9. CASE Die(w)
  <2>1. conn' \in [Conns -> ConnSteps]
    BY <1>9 DEF Die, ConnSteps
  <2> QED
    BY <1>9, <2>1 DEF Die, Fatal
<1> QED
  BY <1>1, <1>2, <1>3, <1>4, <1>5, <1>6, <1>7, <1>8, <1>9 DEF BootNext

\* Where the disk does not refuse a Sync, a Chmod or a Close, every worker that
\* gets past its start serves the key that is stored (host_key.go:14, :80).
THEOREM OneHostKeyForGood ==
  ASSUME SftpServerAssumption, ~SyncFails
  PROVE  SftpSpec => []OneHostKey
<1>1. HostKeyInv /\ [SftpNext]_sftp => HostKeyInv'
  <2> SUFFICES ASSUME HostKeyInv, [SftpNext]_sftp PROVE HostKeyInv'
    OBVIOUS
  <2>1. CASE UNCHANGED sftp
    BY <2>1 DEF sftp, HostKeyInv, SftpTypeOK, OwnsTorn, OneWriter, HoldsKey, HoldsStored,
                Unfinished, Finished
  <2>2. CASE SftpNext
    BY <2>2, BootStep, ConnStep DEF SftpNext
  <2> QED
    BY <2>1, <2>2
<1>2. HostKeyInv => OneHostKey
  BY DEF HostKeyInv, HoldsStored, Finished, OneHostKey
<1> QED
  BY HostKeyInit, <1>1, <1>2, PTL DEF SftpSpec

-----------------------------------------------------------------------------
(* CellFiles.                                                              *)

Requests == [pc : Steps, from : Paths \cup {Nothing}, to : Paths \cup {Nothing},
             left : SUBSET (User \cup Entries), alone : BOOLEAN]

FilesTypeOK ==
  /\ tree \in [Paths -> Files \cup {Nothing}]
  /\ fd \in [Conns \cup Reqs -> Paths \cup {Nothing}]
  /\ req \in [Reqs -> Requests]

\* What is open has a name (or has lost it and is Nothing).
OpenNamed == \A x \in Conns \cup Reqs : fd[x] # Nothing => tree[fd[x]] # Nothing

\* What a request works on, by how far it is.
ReqPaths == \A r \in Reqs :
  /\ At(r, "move") => /\ req[r].from \in Paths /\ req[r].to \in Paths
                      /\ req[r].from \in Live => req[r].to \in Bin
  /\ req[r].pc \in {"create", "archive", "copy", "place"} => req[r].to \in User
  /\ req[r].pc \in {"archive", "copy"} => req[r].left \subseteq User
  /\ At(r, "unpack") => req[r].from \in User
  /\ req[r].pc \in {"entry", "place"} => req[r].left \subseteq Entries

FilesInv == FilesTypeOK /\ OpenNamed /\ ReqPaths

LEMMA PathFacts ==
  /\ User \subseteq Live /\ Live \subseteq Paths /\ Bin \subseteq Paths
  /\ Live \cap Bin = {}
  BY DEF User, Live, Bin

\* An entry of an archive is unpacked to a name a user could have chosen
\* (files/archive.go:619).
LEMMA EntryPath ==
  ASSUME CellFilesAssumption, NEW e \in Entries
  PROVE  <<"live", e[1], 0>> \in User
  BY DEF CellFilesAssumption, Entries, User, Live, Paths

\* The name picked for a file is free and on the other side of the bin
\* (files/manager.go:499).
LEMMA PickedIsFree ==
  ASSUME CellFilesAssumption, NEW p \in Paths,
         NEW q \in UniqueRecyclePath(<<IF p \in Live THEN "bin" ELSE "live", p[2], p[3]>>)
  PROVE  q \in Paths /\ ~There(q) /\ (p \in Live => q \in Bin)
<1> DEFINE t == <<IF p \in Live THEN "bin" ELSE "live", p[2], p[3]>>
<1>1. t \in Paths /\ t[1] = IF p \in Live THEN "bin" ELSE "live"
  BY DEF Paths
<1>2. q \in Paths /\ q[1] = t[1]
  BY <1>1 DEF UniqueRecyclePath
<1>3. ~There(q)
  BY DEF UniqueRecyclePath
<1>4. p \in Live => q \in Bin
  BY <1>1, <1>2 DEF Live, Bin
<1> QED
  BY <1>2, <1>3, <1>4

\* No file is open and no request in flight (cmd/daemon/main.go:84).
LEMMA FilesInitInv == CellFilesAssumption /\ NothingAssumption /\ FilesInit => FilesInv
  BY DEF CellFilesAssumption, NothingAssumption, FilesInit, FilesInv, FilesTypeOK, OpenNamed,
         ReqPaths, NoRequest, Requests, Steps, At

-----------------------------------------------------------------------------
(* What the helpers do to the tree and the open files.                     *)

\* A rename keeps what is open with its file (files/manager.go:278).
LEMMA MoveTyped ==
  ASSUME FilesTypeOK, OpenNamed, NothingAssumption,
         NEW p \in Paths, NEW q \in Paths, There(p), Move(p, q)
  PROVE  /\ tree' \in [Paths -> Files \cup {Nothing}]
         /\ fd' \in [Conns \cup Reqs -> Paths \cup {Nothing}]
         /\ OpenNamed'
         /\ \A b \in Paths \ {p, q} : tree'[b] = tree[b]
         /\ p # q => tree'[q] = tree[p]
  BY DEF FilesTypeOK, OpenNamed, NothingAssumption, There, Move

\* What is open and removed has no name any more.
LEMMA DropTyped ==
  ASSUME FilesTypeOK, OpenNamed, NothingAssumption, NEW p \in Paths, Drop(p)
  PROVE  /\ tree' \in [Paths -> Files \cup {Nothing}]
         /\ fd' \in [Conns \cup Reqs -> Paths \cup {Nothing}]
         /\ OpenNamed'
         /\ \A b \in Paths \ {p} : tree'[b] = tree[b]
         /\ tree'[p] = Nothing
  BY DEF FilesTypeOK, OpenNamed, NothingAssumption, Drop

LEMMA PlainTyped == ASSUME NEW n \in 0 .. MaxSize PROVE Plain(n) \in Files
  BY DEF Plain, Files

\* What is written at a name has that name.
LEMMA PlaceTyped ==
  ASSUME FilesTypeOK, OpenNamed, NothingAssumption, NEW p \in Paths, NEW f \in Files, Place(p, f)
  PROVE  /\ tree' \in [Paths -> Files \cup {Nothing}]
         /\ tree'[p] # Nothing
         /\ \A b \in Paths \ {p} : tree'[b] = tree[b]
         /\ UNCHANGED fd => OpenNamed'
  BY DEF FilesTypeOK, OpenNamed, NothingAssumption, Place

LEMMA AloneTyped ==
  ASSUME NEW q \in Requests
  PROVE  /\ [q EXCEPT !.alone = FALSE] \in Requests
         /\ [q EXCEPT !.alone = FALSE].pc = q.pc /\ [q EXCEPT !.alone = FALSE].from = q.from
         /\ [q EXCEPT !.alone = FALSE].to = q.to /\ [q EXCEPT !.alone = FALSE].left = q.left
  BY DEF Requests

\* Whoever disturbs changes no request but what it knows of others.
LEMMA DisturbTyped ==
  ASSUME FilesTypeOK, ReqPaths, Disturb
  PROVE  /\ req' \in [Reqs -> Requests]
         /\ ReqPaths'
         /\ \A r \in Reqs : req'[r].pc = req[r].pc /\ req'[r].from = req[r].from /\ req'[r].to = req[r].to
<1>1. \A r \in Reqs : req'[r] = [req[r] EXCEPT !.alone = FALSE]
  BY DEF Disturb
<1>2. \A r \in Reqs : req[r] \in Requests
  BY DEF FilesTypeOK
<1>3. \A r \in Reqs : /\ req'[r].pc = req[r].pc /\ req'[r].from = req[r].from
                      /\ req'[r].to = req[r].to /\ req'[r].left = req[r].left
  BY <1>1, <1>2, AloneTyped
<1>4. \A r \in Reqs : [req[r] EXCEPT !.alone = FALSE] \in Requests
  BY <1>2, AloneTyped
<1>5. req' \in [Reqs -> Requests]
  BY <1>4 DEF Disturb
<1> QED
  BY <1>3, <1>5 DEF ReqPaths, At

\* What a request's own fields must be, by how far it is.
GoodRequest(q) ==
  /\ q \in Requests
  /\ q.pc = "move" => q.from \in Paths /\ q.to \in Paths /\ (q.from \in Live => q.to \in Bin)
  /\ q.pc \in {"create", "archive", "copy", "place"} => q.to \in User
  /\ q.pc \in {"archive", "copy"} => q.left \subseteq User
  /\ q.pc = "unpack" => q.from \in User
  /\ q.pc \in {"entry", "place"} => q.left \subseteq Entries

\* A request that goes on, or ends, disturbs the others and no more.
LEMMA BecomeTyped ==
  ASSUME FilesTypeOK, ReqPaths, NEW r \in Reqs, NEW q, GoodRequest(q), Become(r, q)
  PROVE  /\ req' \in [Reqs -> Requests]
         /\ ReqPaths'
         /\ req'[r] = q
         /\ \A s \in Reqs \ {r} : req'[s].pc = req[s].pc /\ req'[s].from = req[s].from /\ req'[s].to = req[s].to
<1>0. /\ q \in Requests
      /\ \A s \in Reqs : req[s] \in Requests /\ [req[s] EXCEPT !.alone = FALSE] \in Requests
  BY AloneTyped DEF FilesTypeOK, GoodRequest
<1>1. req' \in [Reqs -> Requests] /\ req'[r] = q
  BY <1>0 DEF Become, Others
<1>2. \A s \in Reqs \ {r} : req'[s] = [req[s] EXCEPT !.alone = FALSE]
  BY DEF Become, Others
<1>3. \A s \in Reqs \ {r} : /\ req'[s].pc = req[s].pc /\ req'[s].from = req[s].from
                            /\ req'[s].to = req[s].to /\ req'[s].left = req[s].left
  BY <1>0, <1>2, AloneTyped
<1> QED
  BY <1>1, <1>3 DEF ReqPaths, At, GoodRequest

LEMMA BeginTyped ==
  ASSUME FilesTypeOK, ReqPaths, NEW r \in Reqs, NEW q, GoodRequest(q), Begin(r, q)
  PROVE  /\ req' \in [Reqs -> Requests]
         /\ ReqPaths'
         /\ At(r, "idle")
         /\ req'[r] = q
         /\ \A s \in Reqs \ {r} : req'[s] = req[s]
<1>1. req' \in [Reqs -> Requests] /\ req'[r] = q /\ \A s \in Reqs \ {r} : req'[s] = req[s]
  BY DEF Begin, FilesTypeOK, GoodRequest
<1> QED
  BY <1>1 DEF ReqPaths, At, GoodRequest, Begin

LEMMA FinishTyped ==
  ASSUME FilesTypeOK, ReqPaths, NEW r \in Reqs, Finish(r)
  PROVE  /\ req' \in [Reqs -> Requests]
         /\ ReqPaths'
         /\ req'[r].pc = "idle"
         /\ \A s \in Reqs \ {r} : req'[s].pc = req[s].pc /\ req'[s].from = req[s].from /\ req'[s].to = req[s].to
<1> DEFINE q == [NoRequest EXCEPT !.alone = req[r].alone]
<1>1. GoodRequest(q) /\ q.pc = "idle"
  BY DEF FilesTypeOK, Requests, GoodRequest, NoRequest, Steps
<1> QED
  BY <1>1, BecomeTyped DEF Finish

-----------------------------------------------------------------------------
(* Recycling: the name a file goes to in the bin stays free until it comes. *)

Moving(r) == req[r].pc = "move"
MoveFree == \A r \in Reqs : Moving(r) /\ req[r].from \in Live => tree[req[r].to] = Nothing
OneMove == \A r, s \in Reqs : Moving(r) /\ Moving(s) => r = s
BinInv == MoveFree /\ OneMove

\* The step that ends a creation or a recycling costs no file.
Kept == \A r \in Reqs :
  req'[r].pc # req[r].pc /\ (At(r, "create") \/ At(r, "archive") \/ Recycling(r)) =>
    \A p \in Paths : There(p) =>
      tree'[p] = tree[p] \/ (Recycling(r) /\ p = req[r].from /\ tree'[req[r].to] = tree[p])

StepGood == FilesInv' /\ (SerialMoves /\ BinInv => BinInv' /\ Kept)

\* Nothing new in the bin, and no move begun.
LEMMA BinUntouched ==
  ASSUME FilesInv, BinInv,
         \A b \in Bin : tree[b] = Nothing => tree'[b] = Nothing,
         \A r \in Reqs : req'[r].pc = "move" =>
           Moving(r) /\ req'[r].from = req[r].from /\ req'[r].to = req[r].to
  PROVE  BinInv'
<1>1. MoveFree'
  BY DEF BinInv, MoveFree, Moving, FilesInv, ReqPaths, At
<1>2. OneMove'
  BY DEF BinInv, OneMove, Moving
<1> QED
  BY <1>1, <1>2 DEF BinInv

LEMMA OthersKept ==
  ASSUME \A r \in Reqs : At(r, "create") \/ At(r, "archive") \/ Recycling(r) => req'[r].pc = req[r].pc
  PROVE  Kept
  BY DEF Kept

-----------------------------------------------------------------------------
(* Handlers of one step, and the sessions' requests.                       *)

\* What disturbs and adds nothing to the bin is good.
LEMMA DisturbGood ==
  ASSUME FilesInv, Disturb,
         tree' \in [Paths -> Files \cup {Nothing}],
         fd' \in [Conns \cup Reqs -> Paths \cup {Nothing}],
         OpenNamed',
         \A b \in Bin : tree[b] = Nothing => tree'[b] = Nothing
  PROVE  StepGood
<1>1. /\ req' \in [Reqs -> Requests] /\ ReqPaths'
      /\ \A r \in Reqs : req'[r].pc = req[r].pc /\ req'[r].from = req[r].from /\ req'[r].to = req[r].to
  BY DisturbTyped DEF FilesInv
<1>2. FilesInv'
  BY <1>1 DEF FilesInv, FilesTypeOK
<1>3. ASSUME BinInv PROVE BinInv'
  BY <1>1, <1>3, BinUntouched DEF Moving
<1>4. Kept
  BY <1>1, OthersKept
<1> QED
  BY <1>2, <1>3, <1>4 DEF StepGood

\* A rename to a name users see (files/manager.go:278, sftp/filesystem.go:301).
LEMMA RenameGood ==
  ASSUME FilesInv, NothingAssumption, NEW p \in Live, NEW q \in User,
         There(p), Move(p, q), Disturb
  PROVE  StepGood
<1>1. p \in Paths /\ q \in Paths /\ p \notin Bin /\ q \notin Bin
  BY PathFacts
<1>2. /\ tree' \in [Paths -> Files \cup {Nothing}]
      /\ fd' \in [Conns \cup Reqs -> Paths \cup {Nothing}]
      /\ OpenNamed'
      /\ \A b \in Paths \ {p, q} : tree'[b] = tree[b]
  BY <1>1, MoveTyped DEF FilesInv
<1>3. \A b \in Bin : tree[b] = Nothing => tree'[b] = Nothing
  BY <1>1, <1>2, PathFacts
<1> QED
  BY <1>2, <1>3, DisturbGood

LEMMA RemoveGood ==
  ASSUME FilesInv, NothingAssumption, NEW p \in Paths, Drop(p), Disturb
  PROVE  StepGood
<1>1. /\ tree' \in [Paths -> Files \cup {Nothing}]
      /\ fd' \in [Conns \cup Reqs -> Paths \cup {Nothing}]
      /\ OpenNamed'
      /\ \A b \in Paths \ {p} : tree'[b] = tree[b]
      /\ tree'[p] = Nothing
  BY DropTyped DEF FilesInv
<1>2. \A b \in Bin : tree[b] = Nothing => tree'[b] = Nothing
  BY <1>1, PathFacts
<1> QED
  BY <1>1, <1>2, DisturbGood

LEMMA WriteFileGood ==
  ASSUME FilesInv, NothingAssumption, NEW p \in User, WriteFile(p)
  PROVE  StepGood
<1>1. PICK n \in 0 .. MaxSize : Place(p, Plain(n))
  BY DEF WriteFile
<1>2. p \in Paths /\ p \notin Bin /\ Disturb /\ UNCHANGED fd
  BY PathFacts DEF WriteFile
<1>3. Plain(n) \in Files
  BY PlainTyped
<1>4. /\ tree' \in [Paths -> Files \cup {Nothing}]
      /\ \A b \in Paths \ {p} : tree'[b] = tree[b]
      /\ OpenNamed'
  BY <1>1, <1>2, <1>3, PlaceTyped DEF FilesInv
<1>5. \A b \in Bin : tree[b] = Nothing => tree'[b] = Nothing
  BY <1>2, <1>4, PathFacts
<1>6. fd' \in [Conns \cup Reqs -> Paths \cup {Nothing}]
  BY <1>2 DEF FilesInv, FilesTypeOK
<1> QED
  BY <1>2, <1>4, <1>5, <1>6, DisturbGood

LEMMA SftpOpenGood ==
  ASSUME CellFilesAssumption, FilesInv, NothingAssumption, NEW c \in Conns, NEW p \in User, SftpOpen(c, p)
  PROVE  StepGood
<1>1. p \in Paths /\ p \notin Bin /\ Disturb /\ fd' = [fd EXCEPT ![c] = p]
  BY PathFacts DEF SftpOpen
<1>2. fd' \in [Conns \cup Reqs -> Paths \cup {Nothing}]
  BY <1>1 DEF FilesInv, FilesTypeOK
<1>3. /\ tree' \in [Paths -> Files \cup {Nothing}]
      /\ \A b \in Paths \ {p} : tree'[b] = tree[b]
      /\ tree'[p] # Nothing
  <2>1. CASE Place(p, Plain(0))
    <3>1. 0 \in 0 .. MaxSize
      BY DEF CellFilesAssumption
    <3>2. Plain(0) \in Files
      BY <3>1, PlainTyped
    <3> QED
      BY <1>1, <2>1, <3>2, PlaceTyped DEF FilesInv
  <2>2. CASE There(p) /\ UNCHANGED tree
    BY <1>1, <2>2 DEF FilesInv, FilesTypeOK, There
  <2> QED
    BY <2>1, <2>2 DEF SftpOpen
<1>4. OpenNamed'
  BY <1>1, <1>3 DEF FilesInv, FilesTypeOK, OpenNamed
<1>5. \A b \in Bin : tree[b] = Nothing => tree'[b] = Nothing
  BY <1>1, <1>3, PathFacts
<1> QED
  BY <1>1, <1>2, <1>3, <1>4, <1>5, DisturbGood

\* Writing by handle adds no name, whichever the file has by now.
LEMMA ContentGood ==
  ASSUME FilesInv, NothingAssumption, NEW p \in Paths, There(p), NEW f \in Files,
         tree' = [tree EXCEPT ![p] = f], Disturb, UNCHANGED fd
  PROVE  StepGood
<1>1. /\ tree' \in [Paths -> Files \cup {Nothing}]
      /\ fd' \in [Conns \cup Reqs -> Paths \cup {Nothing}]
      /\ \A b \in Bin : tree[b] = Nothing => tree'[b] = Nothing
  BY PathFacts DEF FilesInv, FilesTypeOK, There
<1>2. OpenNamed'
  BY DEF FilesInv, FilesTypeOK, OpenNamed, NothingAssumption
<1> QED
  BY <1>1, <1>2, DisturbGood

LEMMA SftpWriteGood ==
  ASSUME CellFilesAssumption, FilesInv, NothingAssumption, NEW c \in Conns, SftpWrite(c)
  PROVE  StepGood
<1>1. fd[c] \in Paths /\ There(fd[c]) /\ tree[fd[c]] \in Files
  BY DEF SftpWrite, FilesInv, FilesTypeOK, OpenNamed, There
<1> DEFINE n == IF tree[fd[c]].size = 0 THEN 1 ELSE tree[fd[c]].size
<1>3. n \in 0 .. MaxSize
  BY <1>1 DEF Files, CellFilesAssumption
<1>4. tree' = [tree EXCEPT ![fd[c]] = Plain(n)] /\ Disturb /\ UNCHANGED fd
  BY DEF SftpWrite
<1>5. Plain(n) \in Files
  BY <1>3, PlainTyped
<1> QED
  BY <1>1, <1>4, <1>5, ContentGood

LEMMA TruncateGood ==
  ASSUME CellFilesAssumption, FilesInv, NothingAssumption, NEW c \in Conns, NEW p \in User, Truncate(c, p)
  PROVE  StepGood
<1>1. 0 \in 0 .. MaxSize
  BY DEF CellFilesAssumption
<1>2. Plain(0) \in Files /\ p \in Paths
  BY <1>1, PlainTyped, PathFacts
<1> QED
  BY <1>2, ContentGood DEF Truncate

-----------------------------------------------------------------------------
(* Requests that look before they act.                                     *)

\* Looking changes no file, and what is begun is not yet ended.
LEMMA LookGood ==
  ASSUME FilesInv, UNCHANGED <<tree, fd>>, NEW r \in Reqs, NEW q, GoodRequest(q), Begin(r, q),
         q.pc = "move" => /\ q.from \in Live => ~There(q.to)
                          /\ SerialMoves => \A s \in Reqs : ~At(s, "move")
  PROVE  StepGood
<1>1. /\ req' \in [Reqs -> Requests] /\ ReqPaths' /\ At(r, "idle") /\ req'[r] = q
      /\ \A s \in Reqs \ {r} : req'[s] = req[s]
  BY BeginTyped DEF FilesInv
<1>2. FilesInv'
  BY <1>1 DEF FilesInv, FilesTypeOK, OpenNamed
<1>3. ASSUME SerialMoves, BinInv PROVE BinInv'
  BY <1>1, <1>3 DEF BinInv, MoveFree, OneMove, Moving, At, There
<1>4. Kept
  BY <1>1, OthersKept DEF At, Recycling
<1> QED
  BY <1>2, <1>3, <1>4 DEF StepGood

LEMMA PickNameGood ==
  ASSUME CellFilesAssumption, FilesInv, NEW r \in Reqs, NEW p \in Paths, PickName(r, p)
  PROVE  StepGood
<1> DEFINE t == <<IF p \in Live THEN "bin" ELSE "live", p[2], p[3]>>
           q(x) == [NoRequest EXCEPT !.pc = "move", !.from = p, !.to = x]
<1>1. PICK x \in UniqueRecyclePath(t) : Begin(r, q(x))
  BY DEF PickName
<1>2. x \in Paths /\ ~There(x) /\ (p \in Live => x \in Bin)
  BY <1>1, PickedIsFree
<1>3. GoodRequest(q(x)) /\ q(x).pc = "move" /\ q(x).from = p /\ q(x).to = x
  BY <1>2 DEF GoodRequest, NoRequest, Requests, Steps
<1>4. UNCHANGED <<tree, fd>> /\ (SerialMoves => \A s \in Reqs : ~At(s, "move"))
  BY DEF PickName
<1> HIDE DEF q
<1> QED
  BY <1>1, <1>2, <1>3, <1>4, LookGood

LEMMA CreateFileStatGood ==
  ASSUME FilesInv, NEW r \in Reqs, NEW p \in User, CreateFileStat(r, p)
  PROVE  StepGood
<1> DEFINE q == [NoRequest EXCEPT !.pc = "create", !.to = p]
<1>1. GoodRequest(q) /\ q.pc # "move"
  BY PathFacts DEF GoodRequest, NoRequest, Requests, Steps
<1>2. Begin(r, q) /\ UNCHANGED <<tree, fd>>
  BY DEF CreateFileStat
<1> HIDE DEF q
<1> QED
  BY <1>1, <1>2, LookGood

LEMMA CreateArchiveCheckGood ==
  ASSUME FilesInv, NEW r \in Reqs, NEW p \in User, NEW sources \in SUBSET User,
         CreateArchiveCheck(r, sources, p)
  PROVE  StepGood
<1> DEFINE q == [NoRequest EXCEPT !.pc = "archive", !.to = p, !.left = sources, !.alone = TRUE]
<1>1. GoodRequest(q) /\ q.pc # "move"
  BY PathFacts DEF GoodRequest, NoRequest, Requests, Steps
<1>2. Begin(r, q) /\ UNCHANGED <<tree, fd>>
  BY DEF CreateArchiveCheck
<1> HIDE DEF q
<1> QED
  BY <1>1, <1>2, LookGood

LEMMA ExtractArchiveCheckGood ==
  ASSUME FilesInv, NEW r \in Reqs, NEW p \in User, ExtractArchiveCheck(r, p)
  PROVE  StepGood
<1> DEFINE q == [NoRequest EXCEPT !.pc = "unpack", !.from = p, !.alone = TRUE]
<1>1. GoodRequest(q) /\ q.pc # "move"
  BY PathFacts DEF GoodRequest, NoRequest, Requests, Steps
<1>2. Begin(r, q) /\ UNCHANGED <<tree, fd>>
  BY DEF ExtractArchiveCheck
<1> HIDE DEF q
<1> QED
  BY <1>1, <1>2, LookGood

\* A request past its creating step that goes on, or ends, and adds nothing to
\* the bin is good.
LEMMA GoOnGood ==
  ASSUME FilesInv, NEW r \in Reqs, NEW q, GoodRequest(q), q.pc # "move", Become(r, q),
         req[r].pc \notin {"move", "create", "archive"},
         tree' \in [Paths -> Files \cup {Nothing}],
         fd' \in [Conns \cup Reqs -> Paths \cup {Nothing}],
         OpenNamed',
         \A b \in Bin : tree[b] = Nothing => tree'[b] = Nothing
  PROVE  StepGood
<1>1. /\ req' \in [Reqs -> Requests] /\ ReqPaths' /\ req'[r] = q
      /\ \A s \in Reqs \ {r} : req'[s].pc = req[s].pc /\ req'[s].from = req[s].from /\ req'[s].to = req[s].to
  BY BecomeTyped DEF FilesInv
<1>2. FilesInv'
  BY <1>1 DEF FilesInv, FilesTypeOK
<1>3. ASSUME BinInv PROVE BinInv'
  <2>1. \A s \in Reqs : req'[s].pc = "move" =>
          Moving(s) /\ req'[s].from = req[s].from /\ req'[s].to = req[s].to
    BY <1>1 DEF Moving
  <2> QED
    BY <1>3, <2>1, BinUntouched
<1>4. Kept
  BY <1>1, OthersKept DEF At, Recycling
<1> QED
  BY <1>2, <1>3, <1>4 DEF StepGood

\* What a request is after its end.
Ended(r) == [NoRequest EXCEPT !.alone = req[r].alone]
LEMMA EndedGood ==
  ASSUME FilesInv, NEW r \in Reqs
  PROVE  GoodRequest(Ended(r)) /\ Ended(r).pc = "idle" /\ (Finish(r) => Become(r, Ended(r)))
<1>1. GoodRequest(Ended(r)) /\ Ended(r).pc = "idle"
  BY DEF FilesInv, FilesTypeOK, Requests, GoodRequest, NoRequest, Steps, Ended
<1> QED
  BY <1>1 DEF Finish, Ended

\* The create that wins has found the name free in the same call
\* (files/manager.go:562, files/archive.go:282).
LEMMA CreateGood ==
  ASSUME CellFilesAssumption, FilesInv, NothingAssumption, NEW r \in Reqs, NEW q, GoodRequest(q),
         Become(r, q), q.pc # "move", req[r].pc \in {"create", "archive"},
         \/ UNCHANGED <<tree, fd>>
         \/ /\ Exclusive(req[r].to) /\ Place(req[r].to, Plain(0))
            /\ UNCHANGED fd \/ fd' = [fd EXCEPT ![r] = req[r].to]
  PROVE  StepGood
<1> DEFINE p == req[r].to
<1>1. /\ req' \in [Reqs -> Requests] /\ ReqPaths' /\ req'[r] = q
      /\ \A s \in Reqs \ {r} : req'[s].pc = req[s].pc /\ req'[s].from = req[s].from /\ req'[s].to = req[s].to
  BY BecomeTyped DEF FilesInv
<1>2. p \in Paths /\ p \notin Bin
  BY PathFacts DEF FilesInv, ReqPaths
<1>3. /\ tree' \in [Paths -> Files \cup {Nothing}]
      /\ fd' \in [Conns \cup Reqs -> Paths \cup {Nothing}]
      /\ OpenNamed'
      /\ \A b \in Paths : There(b) => tree'[b] = tree[b]
      /\ \A b \in Paths \ {p} : tree'[b] = tree[b]
  <2>1. CASE UNCHANGED <<tree, fd>>
    BY <2>1 DEF FilesInv, FilesTypeOK, OpenNamed
  <2>2. CASE /\ Exclusive(p) /\ Place(p, Plain(0))
             /\ UNCHANGED fd \/ fd' = [fd EXCEPT ![r] = p]
    <3>1. 0 \in 0 .. MaxSize
      BY DEF CellFilesAssumption
    <3>2. Plain(0) \in Files
      BY <3>1, PlainTyped
    <3>3. /\ tree' \in [Paths -> Files \cup {Nothing}] /\ tree'[p] # Nothing
          /\ \A b \in Paths \ {p} : tree'[b] = tree[b]
      BY <1>2, <2>2, <3>2, PlaceTyped DEF FilesInv
    <3>4. \A b \in Paths : There(b) => tree'[b] = tree[b]
      BY <2>2, <3>3 DEF Exclusive, There
    <3>5. fd' \in [Conns \cup Reqs -> Paths \cup {Nothing}]
      BY <1>2, <2>2 DEF FilesInv, FilesTypeOK
    <3>6. OpenNamed'
      BY <1>2, <2>2, <3>3 DEF FilesInv, FilesTypeOK, OpenNamed
    <3> QED
      BY <3>3, <3>4, <3>5, <3>6
  <2> QED
    BY <2>1, <2>2
<1>4. FilesInv'
  BY <1>1, <1>3 DEF FilesInv, FilesTypeOK
<1>5. ASSUME BinInv PROVE BinInv'
  <2>1. \A s \in Reqs : req'[s].pc = "move" =>
          Moving(s) /\ req'[s].from = req[s].from /\ req'[s].to = req[s].to
    BY <1>1 DEF Moving
  <2>2. \A b \in Bin : tree[b] = Nothing => tree'[b] = Nothing
    BY <1>2, <1>3, PathFacts
  <2> QED
    BY <1>5, <2>1, <2>2, BinUntouched
<1>6. Kept
  BY <1>3 DEF Kept
<1> QED
  BY <1>4, <1>5, <1>6 DEF StepGood

LEMMA CreateFileOpenGood ==
  ASSUME CellFilesAssumption, FilesInv, NothingAssumption, NEW r \in Reqs, CreateFileOpen(r)
  PROVE  StepGood
<1>1. Become(r, Ended(r)) /\ GoodRequest(Ended(r)) /\ Ended(r).pc # "move"
  BY EndedGood DEF CreateFileOpen
<1>2. /\ req[r].pc = "create" /\ UNCHANGED fd
      /\ UNCHANGED tree \/ (Exclusive(req[r].to) /\ Place(req[r].to, Plain(0)))
  BY DEF CreateFileOpen, At
<1> QED
  BY <1>1, <1>2, CreateGood

LEMMA CreateArchiveOpenGood ==
  ASSUME CellFilesAssumption, FilesInv, NothingAssumption, NEW r \in Reqs, CreateArchiveOpen(r)
  PROVE  StepGood
<1> DEFINE q == [req[r] EXCEPT !.pc = "copy"]
<1>1. GoodRequest(q) /\ q.pc # "move"
  BY DEF FilesInv, FilesTypeOK, ReqPaths, Requests, Steps, GoodRequest, CreateArchiveOpen, At
<1>2. Finish(r) => Become(r, Ended(r)) /\ GoodRequest(Ended(r)) /\ Ended(r).pc # "move"
  BY EndedGood
<1>3. req[r].pc = "archive"
  BY DEF CreateArchiveOpen, At
<1>4. CASE Exclusive(req[r].to)
  BY <1>1, <1>3, <1>4, CreateGood DEF CreateArchiveOpen
<1>5. CASE ~Exclusive(req[r].to)
  BY <1>2, <1>3, <1>5, CreateGood DEF CreateArchiveOpen
<1> QED
  BY <1>4, <1>5

LEMMA CreateArchiveCopyGood ==
  ASSUME CellFilesAssumption, FilesInv, NothingAssumption, NEW r \in Reqs, CreateArchiveCopy(r)
  PROVE  StepGood
<1> DEFINE a == fd[r]
<1>1. PICK p \in req[r].left :
        /\ There(p)
        /\ IF a = Nothing THEN UNCHANGED tree ELSE Append(a, p, IF a = p THEN 1 ELSE tree[p].size)
        /\ Become(r, [req[r] EXCEPT !.left = IF a = p THEN @ ELSE @ \ {p}])
  BY DEF CreateArchiveCopy
<1> DEFINE q == [req[r] EXCEPT !.left = IF a = p THEN @ ELSE @ \ {p}]
           n == IF a = p THEN 1 ELSE tree[p].size
<1>2. req[r].pc = "copy" /\ p \in User /\ p \in Paths /\ UNCHANGED fd
  BY <1>1, PathFacts DEF CreateArchiveCopy, At, FilesInv, ReqPaths
<1>3. GoodRequest(q) /\ q.pc # "move"
  BY <1>2 DEF FilesInv, FilesTypeOK, ReqPaths, Requests, GoodRequest
<1>4. n \in Nat
  BY <1>1, <1>2 DEF FilesInv, FilesTypeOK, There, Files
<1>5. /\ tree' \in [Paths -> Files \cup {Nothing}]
      /\ OpenNamed'
      /\ \A b \in Bin : tree[b] = Nothing => tree'[b] = Nothing
  <2>1. CASE a = Nothing
    BY <1>1, <1>2, <2>1 DEF FilesInv, FilesTypeOK, OpenNamed
  <2>2. CASE a # Nothing
    <3>1. a \in Paths /\ tree[a] \in Files /\ tree[a] # Nothing
      BY <2>2 DEF FilesInv, FilesTypeOK, OpenNamed
    <3>2. tree[a].size + n \in 0 .. MaxSize /\ n \in 0 .. MaxSize
      BY <1>1, <1>4, <2>2, <3>1 DEF Append, Files, CellFilesAssumption
    <3> DEFINE f == [tree[a] EXCEPT !.size = @ + n, !.holds = @ \cup {<<p[2], n>>}]
    <3>3. tree' = [tree EXCEPT ![a] = f]
      BY <1>1, <2>2, <3>1 DEF Append, FilesInv, FilesTypeOK
    <3>4. <<p[2], n>> \in Entries
      BY <1>2, <3>2 DEF Entries, Paths
    <3>5. f \in Files
      BY <3>1, <3>2, <3>4 DEF Files
    <3> HIDE DEF f
    <3>6. tree' \in [Paths -> Files \cup {Nothing}]
      BY <3>1, <3>3, <3>5 DEF FilesInv, FilesTypeOK
    <3>7. OpenNamed'
      BY <1>2, <3>1, <3>3, <3>5 DEF FilesInv, FilesTypeOK, OpenNamed, NothingAssumption
    <3>8. \A b \in Bin : tree[b] = Nothing => tree'[b] = Nothing
      BY <3>1, <3>3, PathFacts DEF FilesInv, FilesTypeOK
    <3> QED
      BY <3>6, <3>7, <3>8
  <2> QED
    BY <2>1, <2>2
<1>6. fd' \in [Conns \cup Reqs -> Paths \cup {Nothing}]
  BY <1>2 DEF FilesInv, FilesTypeOK
<1>7. Become(r, q)
  BY <1>1
<1> HIDE DEF q
<1> QED
  BY <1>2, <1>3, <1>5, <1>6, <1>7, GoOnGood

LEMMA CreateArchiveEndGood ==
  ASSUME FilesInv, NothingAssumption, NEW r \in Reqs, CreateArchiveEnd(r)
  PROVE  StepGood
<1> DEFINE a == fd[r]
<1>1. /\ req[r].pc = "copy" /\ Become(r, Ended(r)) /\ GoodRequest(Ended(r)) /\ Ended(r).pc # "move"
      /\ fd' = [fd EXCEPT ![r] = Nothing]
      /\ tree' = IF a = Nothing THEN tree ELSE [tree EXCEPT ![a].whole = TRUE]
  BY EndedGood DEF CreateArchiveEnd, At, Close
<1>2. fd' \in [Conns \cup Reqs -> Paths \cup {Nothing}]
  BY <1>1 DEF FilesInv, FilesTypeOK
<1>3. /\ tree' \in [Paths -> Files \cup {Nothing}]
      /\ OpenNamed'
      /\ \A b \in Bin : tree[b] = Nothing => tree'[b] = Nothing
  <2>1. CASE a = Nothing
    BY <1>1, <2>1 DEF FilesInv, FilesTypeOK, OpenNamed
  <2>2. CASE a # Nothing
    <3>1. a \in Paths /\ tree[a] \in Files /\ tree[a] # Nothing
      BY <2>2 DEF FilesInv, FilesTypeOK, OpenNamed
    <3> DEFINE f == [tree[a] EXCEPT !.whole = TRUE]
    <3>2. f \in Files /\ tree' = [tree EXCEPT ![a] = f]
      BY <1>1, <2>2, <3>1 DEF Files
    <3> HIDE DEF f
    <3>3. tree' \in [Paths -> Files \cup {Nothing}]
      BY <3>1, <3>2 DEF FilesInv, FilesTypeOK
    <3>4. OpenNamed'
      BY <1>1, <3>1, <3>2 DEF FilesInv, FilesTypeOK, OpenNamed, NothingAssumption
    <3>5. \A b \in Bin : tree[b] = Nothing => tree'[b] = Nothing
      BY <3>1, <3>2, PathFacts DEF FilesInv, FilesTypeOK
    <3> QED
      BY <3>3, <3>4, <3>5
  <2> QED
    BY <2>1, <2>2
<1> QED
  BY <1>1, <1>2, <1>3, GoOnGood

LEMMA CreateArchiveFailGood ==
  ASSUME FilesInv, NothingAssumption, NEW r \in Reqs, CreateArchiveFail(r)
  PROVE  StepGood
<1>1. /\ req[r].pc = "copy" /\ Become(r, Ended(r)) /\ GoodRequest(Ended(r)) /\ Ended(r).pc # "move"
      /\ req[r].to \in Paths
  BY EndedGood, PathFacts DEF CreateArchiveFail, At, FilesInv, ReqPaths
<1>2. /\ tree' \in [Paths -> Files \cup {Nothing}]
      /\ fd' \in [Conns \cup Reqs -> Paths \cup {Nothing}]
      /\ \A b \in Bin : tree[b] = Nothing => tree'[b] = Nothing
  BY <1>1, PathFacts DEF CreateArchiveFail, FilesInv, FilesTypeOK
<1>3. OpenNamed'
  BY <1>1 DEF CreateArchiveFail, FilesInv, FilesTypeOK, OpenNamed, NothingAssumption
<1> QED
  BY <1>1, <1>2, <1>3, GoOnGood

LEMMA ExtractArchiveOpenGood ==
  ASSUME FilesInv, NothingAssumption, NEW r \in Reqs, ExtractArchiveOpen(r)
  PROVE  StepGood
<1> DEFINE p == req[r].from
           q == [req[r] EXCEPT !.pc = "entry", !.left = tree[p].holds]
<1>1. req[r].pc = "unpack" /\ p \in Paths /\ UNCHANGED <<tree, fd>>
  BY PathFacts DEF ExtractArchiveOpen, At, FilesInv, ReqPaths
<1>2. /\ tree' \in [Paths -> Files \cup {Nothing}]
      /\ fd' \in [Conns \cup Reqs -> Paths \cup {Nothing}]
      /\ OpenNamed'
      /\ \A b \in Bin : tree[b] = Nothing => tree'[b] = Nothing
  BY <1>1 DEF FilesInv, FilesTypeOK, OpenNamed
<1>3. CASE There(p) /\ tree[p].holds # {}
  <2>1. tree[p].holds \subseteq Entries
    BY <1>1, <1>3 DEF FilesInv, FilesTypeOK, There, Files
  <2>2. GoodRequest(q) /\ q.pc # "move"
    BY <2>1 DEF FilesInv, FilesTypeOK, Requests, GoodRequest, Steps
  <2>3. Become(r, q)
    BY <1>3 DEF ExtractArchiveOpen
  <2> HIDE DEF q
  <2> QED
    BY <1>1, <1>2, <2>2, <2>3, GoOnGood
<1>4. CASE ~(There(p) /\ tree[p].holds # {})
  <2>1. Become(r, Ended(r)) /\ GoodRequest(Ended(r)) /\ Ended(r).pc # "move"
    BY <1>4, EndedGood DEF ExtractArchiveOpen
  <2> QED
    BY <1>1, <1>2, <2>1, GoOnGood
<1> QED
  BY <1>3, <1>4

LEMMA PrepareTargetGood ==
  ASSUME CellFilesAssumption, FilesInv, NothingAssumption, NEW r \in Reqs, PrepareTarget(r)
  PROVE  StepGood
<1>1. PICK e \in req[r].left :
        \/ Finish(r) /\ UNCHANGED <<tree, fd>>
        \/ /\ Drop(<<"live", e[1], 0>>)
           /\ Become(r, [req[r] EXCEPT !.pc = "place", !.to = <<"live", e[1], 0>>])
  BY DEF PrepareTarget
<1> DEFINE p == <<"live", e[1], 0>>
           q == [req[r] EXCEPT !.pc = "place", !.to = p]
<1>2. req[r].pc = "entry" /\ req[r].left \subseteq Entries
  BY DEF PrepareTarget, At, FilesInv, ReqPaths
<1>3. p \in User /\ p \in Paths
  BY <1>2, EntryPath, PathFacts
<1>4. CASE Finish(r) /\ UNCHANGED <<tree, fd>>
  <2>1. Become(r, Ended(r)) /\ GoodRequest(Ended(r)) /\ Ended(r).pc # "move"
    BY <1>4, EndedGood
  <2>2. /\ tree' \in [Paths -> Files \cup {Nothing}]
        /\ fd' \in [Conns \cup Reqs -> Paths \cup {Nothing}]
        /\ OpenNamed'
        /\ \A b \in Bin : tree[b] = Nothing => tree'[b] = Nothing
    BY <1>4 DEF FilesInv, FilesTypeOK, OpenNamed
  <2> QED
    BY <1>2, <2>1, <2>2, GoOnGood
<1>5. CASE Drop(p) /\ Become(r, q)
  <2>1. GoodRequest(q) /\ q.pc # "move"
    BY <1>2, <1>3 DEF FilesInv, FilesTypeOK, Requests, GoodRequest, Steps
  <2>2. /\ tree' \in [Paths -> Files \cup {Nothing}]
        /\ fd' \in [Conns \cup Reqs -> Paths \cup {Nothing}]
        /\ OpenNamed'
        /\ \A b \in Paths \ {p} : tree'[b] = tree[b]
        /\ tree'[p] = Nothing
    BY <1>3, <1>5, DropTyped DEF FilesInv
  <2>3. \A b \in Bin : tree[b] = Nothing => tree'[b] = Nothing
    BY <2>2, PathFacts
  <2> HIDE DEF q
  <2> QED
    BY <1>2, <1>5, <2>1, <2>2, <2>3, GoOnGood
<1> QED
  BY <1>1, <1>4, <1>5

LEMMA PlaceEntryGood ==
  ASSUME FilesInv, NothingAssumption, NEW r \in Reqs, PlaceEntry(r)
  PROVE  StepGood
<1> DEFINE p == req[r].to
<1>1. PICK e \in req[r].left, n \in 0 .. MaxSize :
        /\ Place(p, Plain(n))
        /\ \/ Finish(r)
           \/ Become(r, [req[r] EXCEPT !.pc = "entry", !.left = @ \ {e}])
  BY DEF PlaceEntry
<1> DEFINE q == [req[r] EXCEPT !.pc = "entry", !.left = @ \ {e}]
<1>2. req[r].pc = "place" /\ req[r].left \subseteq Entries /\ p \in Paths /\ p \notin Bin /\ UNCHANGED fd
  BY PathFacts DEF PlaceEntry, At, FilesInv, ReqPaths
<1>3. Plain(n) \in Files
  BY PlainTyped
<1>4. /\ tree' \in [Paths -> Files \cup {Nothing}]
      /\ OpenNamed'
      /\ \A b \in Paths \ {p} : tree'[b] = tree[b]
  BY <1>1, <1>2, <1>3, PlaceTyped DEF FilesInv
<1>5. fd' \in [Conns \cup Reqs -> Paths \cup {Nothing}]
  BY <1>2 DEF FilesInv, FilesTypeOK
<1>6. \A b \in Bin : tree[b] = Nothing => tree'[b] = Nothing
  BY <1>2, <1>4, PathFacts
<1>7. CASE Finish(r)
  <2>1. Become(r, Ended(r)) /\ GoodRequest(Ended(r)) /\ Ended(r).pc # "move"
    BY <1>7, EndedGood
  <2> QED
    BY <1>2, <1>4, <1>5, <1>6, <2>1, GoOnGood
<1>8. CASE Become(r, q)
  <2>1. GoodRequest(q) /\ q.pc # "move"
    BY <1>2 DEF FilesInv, FilesTypeOK, Requests, GoodRequest, Steps
  <2> HIDE DEF q
  <2> QED
    BY <1>2, <1>4, <1>5, <1>6, <1>8, <2>1, GoOnGood
<1> QED
  BY <1>1, <1>7, <1>8

-----------------------------------------------------------------------------
(* The move itself, the sessions' ends and the server below.               *)

\* With one move at a time the name picked is still free when the file goes there
\* (files/manager.go:385).
LEMMA MoveFileGood ==
  ASSUME FilesInv, NothingAssumption, NEW r \in Reqs, MoveFile(r)
  PROVE  StepGood
<1> DEFINE p == req[r].from
           q == req[r].to
<1>1. Moving(r) /\ p \in Paths /\ q \in Paths /\ (p \in Live => q \in Bin)
  BY DEF MoveFile, Moving, At, FilesInv, ReqPaths
<1>2. /\ req' \in [Reqs -> Requests] /\ ReqPaths' /\ req'[r].pc = "idle"
      /\ \A s \in Reqs \ {r} : req'[s].pc = req[s].pc /\ req'[s].from = req[s].from /\ req'[s].to = req[s].to
  BY FinishTyped DEF FilesInv, MoveFile
<1>3. /\ tree' \in [Paths -> Files \cup {Nothing}]
      /\ fd' \in [Conns \cup Reqs -> Paths \cup {Nothing}]
      /\ OpenNamed'
      /\ \A b \in Paths \ {p, q} : tree'[b] = tree[b]
      /\ There(p) /\ p # q => tree'[q] = tree[p]
      /\ ~There(p) \/ p = q => UNCHANGED tree
  <2>1. CASE There(p)
    BY <1>1, <2>1, MoveTyped DEF MoveFile, FilesInv, Move
  <2>2. CASE ~There(p)
    BY <2>2 DEF MoveFile, FilesInv, FilesTypeOK, OpenNamed
  <2> QED
    BY <2>1, <2>2
<1>4. FilesInv'
  BY <1>2, <1>3 DEF FilesInv, FilesTypeOK
<1>5. ASSUME BinInv PROVE BinInv'
  <2>1. \A s \in Reqs : req'[s].pc # "move"
    BY <1>1, <1>2, <1>5 DEF BinInv, OneMove, Moving
  <2> QED
    BY <2>1 DEF BinInv, MoveFree, OneMove, Moving
<1>6. ASSUME BinInv PROVE Kept
  <2>1. \A s \in Reqs \ {r} : req'[s].pc = req[s].pc
    BY <1>2
  <2>2. ASSUME Recycling(r), NEW b \in Paths, There(b)
        PROVE  tree'[b] = tree[b] \/ (b = p /\ tree'[q] = tree[b])
    <3>1. tree[q] = Nothing
      BY <1>1, <1>6, <2>2 DEF BinInv, MoveFree, Recycling
    <3> QED
      BY <1>3, <2>2, <3>1 DEF There
  <2> QED
    BY <1>1, <2>1, <2>2 DEF Kept, Moving, At
<1> QED
  BY <1>4, <1>5, <1>6 DEF StepGood

\* Handles close and requests end with their connection and their worker; no file
\* changes by that (sftp/server.go:539, cmd/daemon/main.go:106).
LEMMA QuietGood ==
  ASSUME FilesInv, UNCHANGED tree,
         fd' \in [Conns \cup Reqs -> Paths \cup {Nothing}],
         \A x \in Conns \cup Reqs : fd'[x] \in {fd[x], Nothing},
         UNCHANGED req \/ req' = [r \in Reqs |-> NoRequest]
  PROVE  StepGood
<1>1. NoRequest \in Requests /\ NoRequest.pc = "idle"
  BY DEF NoRequest, Requests, Steps
<1>2. FilesInv'
  BY <1>1 DEF FilesInv, FilesTypeOK, OpenNamed, ReqPaths, At
<1>3. ASSUME BinInv PROVE BinInv'
  BY <1>1, <1>3 DEF BinInv, MoveFree, OneMove, Moving
<1>4. Kept
  BY DEF Kept
<1> QED
  BY <1>2, <1>3, <1>4 DEF StepGood

LEMMA SftpCloseGood ==
  ASSUME FilesInv, NEW c \in Conns, SftpClose(c)
  PROVE  StepGood
<1>1. /\ fd' \in [Conns \cup Reqs -> Paths \cup {Nothing}]
      /\ \A x \in Conns \cup Reqs : fd'[x] \in {fd[x], Nothing}
      /\ UNCHANGED <<tree, req>>
  BY DEF SftpClose, Close, FilesInv, FilesTypeOK
<1> QED
  BY <1>1, QuietGood

LEMMA ServerStepGood ==
  ASSUME FilesInv, ServerStep
  PROVE  StepGood
<1>1. /\ fd' \in [Conns \cup Reqs -> Paths \cup {Nothing}]
      /\ \A x \in Conns \cup Reqs : fd'[x] \in {fd[x], Nothing}
      /\ UNCHANGED tree
      /\ UNCHANGED req \/ req' = [r \in Reqs |-> NoRequest]
  BY DEF ServerStep, FilesInv, FilesTypeOK
<1> QED
  BY <1>1, QuietGood

LEMMA FileOperationGood ==
  ASSUME CellFilesAssumption, FilesInv, NothingAssumption, FileOperation
  PROVE  StepGood
<1>1. CASE \E p \in User : WriteFile(p)
  BY <1>1, WriteFileGood
<1>2. CASE \E p \in Live, q \in User : RenameFile(p, q)
  BY <1>2, RenameGood DEF RenameFile
<1>3. CASE \E p \in Bin : PermanentDeleteFile(p)
  BY <1>3, RemoveGood, PathFacts DEF PermanentDeleteFile, Remove
<1>4. ASSUME NEW r \in Reqs,
             \/ \E p \in Paths : PickName(r, p)
             \/ \E p \in User : CreateFileStat(r, p) \/ ExtractArchiveCheck(r, p)
             \/ \E p \in User, sources \in SUBSET User : CreateArchiveCheck(r, sources, p)
      PROVE  StepGood
  BY <1>4, PickNameGood, CreateFileStatGood, ExtractArchiveCheckGood, CreateArchiveCheckGood
<1>5. ASSUME NEW r \in Reqs,
             \/ MoveFile(r) \/ CreateFileOpen(r) \/ CreateArchiveOpen(r) \/ CreateArchiveCopy(r)
             \/ CreateArchiveEnd(r) \/ CreateArchiveFail(r)
      PROVE  StepGood
  BY <1>5, MoveFileGood, CreateFileOpenGood, CreateArchiveOpenGood, CreateArchiveCopyGood,
     CreateArchiveEndGood, CreateArchiveFailGood
<1>6. ASSUME NEW r \in Reqs, ExtractArchiveOpen(r) \/ PrepareTarget(r) \/ PlaceEntry(r)
      PROVE  StepGood
  BY <1>6, ExtractArchiveOpenGood, PrepareTargetGood, PlaceEntryGood
<1> QED
  BY <1>1, <1>2, <1>3, <1>4, <1>5, <1>6 DEF FileOperation

LEMMA SessionOperationGood ==
  ASSUME CellFilesAssumption, FilesInv, NothingAssumption, NEW c \in Conns, SessionOperation(c)
  PROVE  StepGood
<1>1. CASE \E p \in User : SftpOpen(c, p) \/ Truncate(c, p)
  BY <1>1, SftpOpenGood, TruncateGood
<1>2. CASE \E p \in Live, q \in User : SftpRename(c, p, q)
  BY <1>2, RenameGood DEF SftpRename
<1>3. CASE \E p \in Paths : SftpRemove(c, p)
  BY <1>3, RemoveGood DEF SftpRemove
<1>4. CASE SftpWrite(c) \/ SftpClose(c)
  BY <1>4, SftpWriteGood, SftpCloseGood
<1> QED
  BY <1>1, <1>2, <1>3, <1>4 DEF SessionOperation

\* Every step of the files' specification is good.
LEMMA NextGood ==
  ASSUME CellFilesAssumption, FilesInv, NothingAssumption, [Next]_vars
  PROVE  StepGood
<1>1. CASE FileOperation
  BY <1>1, FileOperationGood
<1>2. CASE \E c \in Conns : SessionOperation(c)
  BY <1>2, SessionOperationGood
<1>3. CASE ServerStep
  BY <1>3, ServerStepGood
<1>4. CASE UNCHANGED vars
  <2>1. /\ UNCHANGED <<tree, fd, req>>
        /\ fd' \in [Conns \cup Reqs -> Paths \cup {Nothing}]
        /\ \A x \in Conns \cup Reqs : fd'[x] \in {fd[x], Nothing}
    BY <1>4 DEF vars, files, FilesInv, FilesTypeOK
  <2> QED
    BY <2>1, QuietGood
<1> QED
  BY <1>1, <1>2, <1>3, <1>4 DEF Next

-----------------------------------------------------------------------------
\* What the files' specification does to the SFTP server is what SftpServer says:
\* file requests and sessions leave its start and its connections alone
\* (sftp/server.go:527).
THEOREM FilesRunOnServer == Spec => SftpSpec
<1>1. Init => SftpInit
  BY DEF Init
<1>2. [Next]_vars => [SftpNext]_sftp
  BY DEF Next, vars, ServerStep, sftp
<1> QED
  BY <1>1, <1>2, PTL DEF Spec, SftpSpec

\* Files, handles and requests keep their types, and what is open has a name.
THEOREM TypeCorrect ==
  ASSUME CellFilesAssumption, NothingAssumption
  PROVE  Spec => []TypeOK
<1>1. Init => FilesInv /\ SftpTypeOK
  BY FilesInitInv DEF Init, SftpInit, SftpTypeOK, BootSteps, ConnSteps
<1>2. FilesInv /\ SftpTypeOK /\ [Next]_vars => FilesInv' /\ SftpTypeOK'
  <2>1. [Next]_vars => [SftpNext]_sftp
    BY DEF Next, vars, ServerStep, sftp
  <2> QED
    BY <2>1, NextGood, SftpTypeStep DEF StepGood
<1>3. FilesInv /\ SftpTypeOK => TypeOK
  BY DEF FilesInv, FilesTypeOK, OpenNamed, TypeOK, Requests
<1> QED
  BY <1>1, <1>2, <1>3, PTL DEF Spec

\* One host key for good, below the files too (host_key.go:14, :80).
THEOREM OneHostKeyBelow ==
  ASSUME SftpServerAssumption, ~SyncFails
  PROVE  Spec => []OneHostKey
  BY FilesRunOnServer, OneHostKeyForGood

\* Creating a file or an archive, or recycling a file, costs no other file, with
\* any number of names, requests and sessions, if one request at a time moves
\* something into the bin or out (files/manager.go:499, :559, archive.go:290).
THEOREM NothingIsLost ==
  ASSUME CellFilesAssumption, NothingAssumption, SerialMoves
  PROVE  Spec => NothingLost
<1>1. Init => FilesInv /\ BinInv
  BY FilesInitInv DEF Init, FilesInit, NoRequest, BinInv, MoveFree, OneMove, Moving
<1>2. FilesInv /\ BinInv /\ [Next]_vars => FilesInv' /\ BinInv' /\ Kept
  BY NextGood DEF StepGood
<1>3. Spec => [](FilesInv /\ BinInv)
  BY <1>1, <1>2, PTL DEF Spec
<1>4. FilesInv /\ BinInv /\ [Next]_vars => [Kept]_vars
  BY <1>2
<1>5. Spec => [][Kept]_vars
  BY <1>3, <1>4, PTL DEF Spec
<1> QED
  BY <1>5 DEF NothingLost, Kept

-----------------------------------------------------------------------------
(* Sums of sizes.                                                          *)

\* What a path takes of the disk, and what a set of paths, or of entries, does.
BytesIn(t) == [p \in Paths |-> IF t[p] = Nothing THEN 0 ELSE t[p].size]
Taken(t, ps) == Sum(BytesIn(t), ps)
EntryBytes == [e \in Entries |-> e[2]]
Packed(es) == Sum(EntryBytes, es)

LEMMA PathsFinite ==
  ASSUME CellFilesAssumption, IsFiniteSet(Names)
  PROVE  IsFiniteSet(Paths) /\ IsFiniteSet(Entries)
<1>1. /\ 0 \in Int /\ Alts \in Int /\ MaxSize \in Int
  BY DEF CellFilesAssumption
<1>2. IsFiniteSet(0 .. Alts) /\ IsFiniteSet(0 .. MaxSize)
  BY <1>1, FS_Interval
<1>3. IsFiniteSet({"live", "bin"})
  <2>1. IsFiniteSet({"live"}) /\ {"live", "bin"} = {"live"} \cup {"bin"}
    BY FS_Singleton
  <2> QED
    BY <2>1, FS_AddElement
<1> DEFINE Pairs == {"live", "bin"} \X Names
           f == [x \in Pairs \X (0 .. Alts) |-> <<x[1][1], x[1][2], x[2]>>]
<1>4. IsFiniteSet(Pairs \X (0 .. Alts)) /\ IsFiniteSet(Entries)
  BY <1>2, <1>3, FS_Product DEF Entries
<1>5. f \in Surjection(Pairs \X (0 .. Alts), Paths)
  <2>1. f \in [Pairs \X (0 .. Alts) -> Paths]
    BY DEF Paths
  <2>2. ASSUME NEW p \in Paths PROVE \E x \in Pairs \X (0 .. Alts) : f[x] = p
    <3>1. <<<<p[1], p[2]>>, p[3]>> \in Pairs \X (0 .. Alts)
      BY DEF Paths
    <3>2. f[<<<<p[1], p[2]>>, p[3]>>] = p
      BY <3>1 DEF Paths
    <3> QED
      BY <3>1, <3>2
  <2> HIDE DEF f
  <2> QED
    BY <2>1, <2>2 DEF Surjection
<1> HIDE DEF f
<1> QED
  BY <1>4, <1>5, FS_Surjection

LEMMA BytesWeigh ==
  ASSUME CellFilesAssumption, NEW t \in [Paths -> Files \cup {Nothing}]
  PROVE  /\ \A p \in Paths : BytesIn(t)[p] \in Nat
         /\ \A ps \in SUBSET Paths : Weighs(BytesIn(t), ps)
         /\ \A es \in SUBSET Entries : Weighs(EntryBytes, es)
<1>1. \A f \in Files : f.size \in Nat
  BY DEF Files, CellFilesAssumption
<1>2. \A p \in Paths : BytesIn(t)[p] \in Nat
  BY <1>1 DEF BytesIn
<1>3. \A e \in Entries : EntryBytes[e] \in Nat
  BY DEF EntryBytes, Entries, CellFilesAssumption
<1> QED
  BY <1>2, <1>3 DEF Weighs

LEMMA TakenNat ==
  ASSUME CellFilesAssumption, IsFiniteSet(Names), NEW t \in [Paths -> Files \cup {Nothing}],
         NEW ps \in SUBSET Paths
  PROVE  Taken(t, ps) \in Nat
<1>1. IsFiniteSet(ps)
  BY PathsFinite, FS_Subset
<1> QED
  BY <1>1, BytesWeigh, SumType DEF Taken

LEMMA PackedNat ==
  ASSUME CellFilesAssumption, IsFiniteSet(Names), NEW es \in SUBSET Entries
  PROVE  Packed(es) \in Nat
<1>1. IsFiniteSet(es)
  BY PathsFinite, FS_Subset
<1>2. Weighs(EntryBytes, es)
  BY DEF Weighs, EntryBytes, Entries, CellFilesAssumption
<1> QED
  BY <1>1, <1>2, SumType DEF Packed

\* Taking an entry, or a path, out.
LEMMA PackedTake ==
  ASSUME CellFilesAssumption, IsFiniteSet(Names), NEW es \in SUBSET Entries, NEW e \in es
  PROVE  Packed(es) = e[2] + Packed(es \ {e})
<1>1. IsFiniteSet(es)
  BY PathsFinite, FS_Subset
<1>2. Weighs(EntryBytes, es) /\ EntryBytes[e] = e[2]
  BY DEF Weighs, EntryBytes, Entries, CellFilesAssumption
<1> QED
  BY <1>1, <1>2, SumTake DEF Packed

LEMMA TakenTake ==
  ASSUME CellFilesAssumption, IsFiniteSet(Names), NEW t \in [Paths -> Files \cup {Nothing}],
         NEW ps \in SUBSET Paths, NEW p \in ps
  PROVE  Taken(t, ps) = BytesIn(t)[p] + Taken(t, ps \ {p})
<1>1. IsFiniteSet(ps)
  BY PathsFinite, FS_Subset
<1> QED
  BY <1>1, BytesWeigh, SumTake DEF Taken

\* Paths that did not change take what they took.
LEMMA TakenSame ==
  ASSUME CellFilesAssumption, IsFiniteSet(Names), NEW t \in [Paths -> Files \cup {Nothing}],
         NEW u \in [Paths -> Files \cup {Nothing}], NEW ps \in SUBSET Paths,
         \A p \in ps : u[p] = t[p]
  PROVE  Taken(u, ps) = Taken(t, ps)
<1>1. IsFiniteSet(ps) /\ Weighs(BytesIn(t), ps)
  BY PathsFinite, FS_Subset, BytesWeigh
<1>2. \A p \in ps : BytesIn(t)[p] = BytesIn(u)[p]
  BY DEF BytesIn
<1> QED
  BY <1>1, <1>2, SumSame DEF Taken

\* One path that changes changes the whole by its difference.
LEMMA TakenChange ==
  ASSUME CellFilesAssumption, IsFiniteSet(Names), NEW t \in [Paths -> Files \cup {Nothing}],
         NEW u \in [Paths -> Files \cup {Nothing}], NEW p \in Paths,
         \A q \in Paths \ {p} : u[q] = t[q]
  PROVE  Taken(u, Paths) + BytesIn(t)[p] = Taken(t, Paths) + BytesIn(u)[p]
<1>1. IsFiniteSet(Paths) /\ Weighs(BytesIn(t), Paths) /\ Weighs(BytesIn(u), Paths)
  BY PathsFinite, BytesWeigh
<1>2. \A q \in Paths \ {p} : BytesIn(t)[q] = BytesIn(u)[q]
  BY DEF BytesIn
<1> QED
  BY <1>1, <1>2, SumChange DEF Taken

-----------------------------------------------------------------------------
(* What pathSize and archiveExpandedBytes fold is such a sum.              *)

LEMMA SizeOfIsSum ==
  ASSUME CellFilesAssumption, IsFiniteSet(Names), FilesTypeOK,
         NEW ps \in SUBSET Paths, \A p \in ps : There(p)
  PROVE  SizeOf(ps) = Taken(tree, ps)
<1> DEFINE w == BytesIn(tree)
           Is(f) == f = [s \in SUBSET ps |-> IF s = {} THEN 0
                        ELSE tree[CHOOSE x \in s : TRUE].size + f[s \ {CHOOSE x \in s : TRUE}]]
           g == CHOOSE f : Is(f)
<1>1. SizeOf(ps) = g[ps]
  BY DEF SizeOf, FoldSet, MapThenFoldSet
<1>2. Weighs(w, ps) /\ IsFiniteSet(ps)
  BY BytesWeigh, PathsFinite, FS_Subset DEF FilesTypeOK
<1>3. PartialSums(w, ps) \in [SUBSET ps -> Nat] /\ IsSum(PartialSums(w, ps), w, ps)
  BY <1>2, PartialSumsExist
<1>4. \A s \in SUBSET ps : s # {} => w[CHOOSE x \in s : TRUE] = tree[CHOOSE x \in s : TRUE].size
  <2>1. \A p \in ps : w[p] = tree[p].size
    BY DEF BytesIn, There
  <2> HIDE DEF w
  <2> QED
    BY <2>1, PickIn DEF Pick
<1>5. Is(PartialSums(w, ps))
  <2> DEFINE f == PartialSums(w, ps)
  <2>1. f = [s \in SUBSET ps |-> f[s]]
    BY <1>3
  <2>2. \A s \in SUBSET ps : f[s] = IF s = {} THEN 0
                        ELSE tree[CHOOSE x \in s : TRUE].size + f[s \ {CHOOSE x \in s : TRUE}]
    BY <1>3, <1>4 DEF IsSum, Pick
  <2> HIDE DEF f, w
  <2>3. [s \in SUBSET ps |-> f[s]] = [s \in SUBSET ps |-> IF s = {} THEN 0
                        ELSE tree[CHOOSE x \in s : TRUE].size + f[s \ {CHOOSE x \in s : TRUE}]]
    BY <2>2
  <2> QED
    BY <2>1, <2>3 DEF f
<1>6. Is(g)
  <2> HIDE DEF Is
  <2> QED
    BY <1>5
<1>7. IsSum(g, w, ps)
  <2> HIDE DEF g, w
  <2>1. \A s \in SUBSET ps : g[s] = IF s = {} THEN 0
                        ELSE tree[CHOOSE x \in s : TRUE].size + g[s \ {CHOOSE x \in s : TRUE}]
    BY <1>6
  <2> QED
    BY <2>1, <1>4 DEF IsSum, Pick
<1>8. g[ps] = Sum(w, ps)
  <2> HIDE DEF g, w
  <2> QED
    BY <1>2, <1>7, SumIs
<1> QED
  BY <1>1, <1>8 DEF Taken

LEMMA ExpandedIsSum ==
  ASSUME CellFilesAssumption, IsFiniteSet(Names), NEW p, tree[p].holds \in SUBSET Entries
  PROVE  ExpandedBytes(p) = Packed(tree[p].holds)
<1> DEFINE w == EntryBytes
           es == tree[p].holds
           Is(f) == f = [s \in SUBSET es |-> IF s = {} THEN 0
                        ELSE (CHOOSE x \in s : TRUE)[2] + f[s \ {CHOOSE x \in s : TRUE}]]
           g == CHOOSE f : Is(f)
<1>1. ExpandedBytes(p) = g[es]
  BY DEF ExpandedBytes, FoldSet, MapThenFoldSet
<1>2. Weighs(w, es) /\ IsFiniteSet(es)
  BY PathsFinite, FS_Subset DEF Weighs, EntryBytes, Entries, CellFilesAssumption
<1>3. PartialSums(w, es) \in [SUBSET es -> Nat] /\ IsSum(PartialSums(w, es), w, es)
  BY <1>2, PartialSumsExist
<1>4. \A s \in SUBSET es : s # {} => w[CHOOSE x \in s : TRUE] = (CHOOSE x \in s : TRUE)[2]
  <2>1. \A e \in es : w[e] = e[2]
    BY DEF EntryBytes
  <2> HIDE DEF w
  <2> QED
    BY <2>1, PickIn DEF Pick
<1>5. Is(PartialSums(w, es))
  <2> DEFINE f == PartialSums(w, es)
  <2>1. f = [s \in SUBSET es |-> f[s]]
    BY <1>3
  <2>2. \A s \in SUBSET es : f[s] = IF s = {} THEN 0
                        ELSE (CHOOSE x \in s : TRUE)[2] + f[s \ {CHOOSE x \in s : TRUE}]
    BY <1>3, <1>4 DEF IsSum, Pick
  <2> HIDE DEF f, w, es
  <2>3. [s \in SUBSET es |-> f[s]] = [s \in SUBSET es |-> IF s = {} THEN 0
                        ELSE (CHOOSE x \in s : TRUE)[2] + f[s \ {CHOOSE x \in s : TRUE}]]
    BY <2>2
  <2> QED
    BY <2>1, <2>3 DEF f
<1>6. Is(g)
  <2> HIDE DEF Is
  <2> QED
    BY <1>5
<1>7. IsSum(g, w, es)
  <2> HIDE DEF g, w, es
  <2>1. \A s \in SUBSET es : g[s] = IF s = {} THEN 0
                        ELSE (CHOOSE x \in s : TRUE)[2] + g[s \ {CHOOSE x \in s : TRUE}]
    BY <1>6
  <2> QED
    BY <2>1, <1>4 DEF IsSum, Pick
<1>8. g[es] = Sum(w, es)
  <2> HIDE DEF g, w, es
  <2> QED
    BY <1>2, <1>7, SumIs
<1> QED
  BY <1>1, <1>8 DEF Packed

\* pathSize of the Cell's directory, the bin included (files/archive.go:155).
LEMMA UsedIsSum ==
  ASSUME CellFilesAssumption, IsFiniteSet(Names), FilesTypeOK
  PROVE  Used = Taken(tree, Paths)
<1> DEFINE T == {p \in Paths : There(p)}
<1>1. Used = Taken(tree, T)
  BY SizeOfIsSum DEF Used
<1>2. \A p \in Paths \ T : BytesIn(tree)[p] = 0
  BY DEF BytesIn, There
<1>3. IsFiniteSet(Paths) /\ Weighs(BytesIn(tree), Paths)
  BY PathsFinite, BytesWeigh DEF FilesTypeOK
<1>4. T \in SUBSET Paths
  OBVIOUS
<1> HIDE DEF T
<1>5. Sum(BytesIn(tree), Paths) = Sum(BytesIn(tree), T)
  BY <1>2, <1>3, <1>4, SumZeros
<1> QED
  BY <1>1, <1>5 DEF Taken
-----------------------------------------------------------------------------
(* The disk limit.                                                         *)

\* What a request that passed the check has still to write.
Pending(q, t) ==
  IF q.pc \in {"archive", "copy"} THEN Taken(t, q.left)
  ELSE IF q.pc = "unpack" THEN Packed(t[q.from].holds)
  ELSE IF q.pc \in {"entry", "place"} THEN Packed(q.left) ELSE 0

\* What is there and what is still to come fit together, an archive is none of its
\* own sources, and the target of an entry has gone.
Fits(q, t) ==
  /\ q.pc \notin {"move", "create"}
  /\ q.pc \in {"archive", "copy"} => q.left \subseteq Paths /\ q.to \notin q.left
  /\ q.pc = "unpack" => t[q.from] # Nothing
  /\ q.pc = "place" => t[q.to] = Nothing
  /\ Taken(t, Paths) + Pending(q, t) <= DiskLimit

QuotaInv == \A r \in Reqs : req[r].alone /\ DiskLimit # 0 =>
  Fits(req[r], tree) /\ (At(r, "copy") => fd[r] = req[r].to)

LEMMA PendingNat ==
  ASSUME CellFilesAssumption, IsFiniteSet(Names), NEW t \in [Paths -> Files \cup {Nothing}],
         NEW q, GoodRequest(q), q.pc = "unpack" => t[q.from] # Nothing
  PROVE  Pending(q, t) \in Nat
<1>1. CASE q.pc \in {"archive", "copy"}
  <2>1. q.left \in SUBSET Paths
    BY <1>1, PathFacts DEF GoodRequest
  <2> QED
    BY <1>1, <2>1, TakenNat DEF Pending
<1>2. CASE q.pc = "unpack"
  <2>1. t[q.from] \in Files
    BY <1>2, PathFacts DEF GoodRequest
  <2>2. t[q.from].holds \in SUBSET Entries
    BY <2>1 DEF Files
  <2> QED
    BY <1>2, <2>2, PackedNat DEF Pending
<1>3. CASE q.pc \in {"entry", "place"}
  <2>1. q.left \in SUBSET Entries
    BY <1>3 DEF GoodRequest
  <2> QED
    BY <1>3, <2>1, PackedNat DEF Pending
<1> QED
  BY <1>1, <1>2, <1>3 DEF Pending

LEMMA ReqsAreGood ==
  ASSUME FilesInv, NEW r \in Reqs
  PROVE  req[r] \in Requests /\ GoodRequest(req[r])
  BY DEF FilesInv, FilesTypeOK, ReqPaths, GoodRequest, At

\* A step that leaves the files and, but for those no longer alone, the requests.
LEMMA QuotaQuiet ==
  ASSUME QuotaInv, UNCHANGED tree,
         \A r \in Reqs : ~req'[r].alone \/ (req'[r] = req[r] /\ fd'[r] = fd[r])
  PROVE  QuotaInv'
  BY DEF QuotaInv, At

\* Whoever changes the directory is the only one that may still be alone there.
LEMMA QuotaBecome ==
  ASSUME FilesInv, NEW r \in Reqs, NEW q, Become(r, q),
         q.alone /\ DiskLimit # 0 => Fits(q, tree') /\ (q.pc = "copy" => fd'[r] = q.to)
  PROVE  QuotaInv'
<1>1. req'[r] = q
  BY DEF Become, Others, FilesInv, FilesTypeOK
<1>2. \A s \in Reqs \ {r} : req'[s] = [req[s] EXCEPT !.alone = FALSE] /\ req[s] \in Requests
  BY DEF Become, Others, FilesInv, FilesTypeOK
<1>3. \A s \in Reqs \ {r} : ~req'[s].alone
  BY <1>2 DEF Requests
<1> QED
  BY <1>1, <1>3 DEF QuotaInv, At

LEMMA QuotaDisturb ==
  ASSUME FilesInv, Disturb
  PROVE  QuotaInv'
<1>1. \A s \in Reqs : req'[s] = [req[s] EXCEPT !.alone = FALSE] /\ req[s] \in Requests
  BY DEF Disturb, FilesInv, FilesTypeOK
<1>2. \A s \in Reqs : ~req'[s].alone
  BY <1>1 DEF Requests
<1> QED
  BY <1>2 DEF QuotaInv

LEMMA QuotaBegin ==
  ASSUME FilesInv, QuotaInv, NEW r \in Reqs, NEW q, Begin(r, q), UNCHANGED <<tree, fd>>,
         q.alone /\ DiskLimit # 0 => Fits(q, tree) /\ q.pc # "copy"
  PROVE  QuotaInv'
<1>1. req'[r] = q /\ \A s \in Reqs \ {r} : req'[s] = req[s]
  BY DEF Begin, FilesInv, FilesTypeOK
<1> QED
  BY <1>1 DEF QuotaInv, At

\* A request that ends has no more to write: what is there must fit.
LEMMA QuotaFinish ==
  ASSUME CellFilesAssumption, IsFiniteSet(Names), FilesInv, FilesInv', QuotaInv,
         NEW r \in Reqs, Finish(r),
         req[r].alone /\ DiskLimit # 0 => Taken(tree', Paths) <= DiskLimit
  PROVE  QuotaInv'
<1>1. Become(r, Ended(r)) /\ Ended(r).pc = "idle" /\ Ended(r).alone = req[r].alone
  BY EndedGood DEF Ended, NoRequest
<1>2. Taken(tree', Paths) \in Nat
  BY TakenNat DEF FilesInv, FilesTypeOK
<1>3. Pending(Ended(r), tree') = 0
  BY <1>1 DEF Pending
<1> DEFINE q == Ended(r)
<1> HIDE DEF q
<1>4. q.alone /\ DiskLimit # 0 => Fits(q, tree')
  BY <1>1, <1>2, <1>3 DEF q, Fits
<1> QED
  BY <1>1, <1>4, QuotaBecome DEF q

\* What is there fits, whatever a request that is alone has still to write.
LEMMA UsedFits ==
  ASSUME CellFilesAssumption, IsFiniteSet(Names), FilesInv, QuotaInv, NEW r \in Reqs,
         req[r].alone, DiskLimit # 0
  PROVE  /\ Taken(tree, Paths) \in Nat /\ Pending(req[r], tree) \in Nat /\ DiskLimit \in Nat
         /\ Taken(tree, Paths) + Pending(req[r], tree) <= DiskLimit
         /\ Taken(tree, Paths) <= DiskLimit
<1>1. Fits(req[r], tree) /\ GoodRequest(req[r])
  BY ReqsAreGood DEF QuotaInv
<1>2. Taken(tree, Paths) \in Nat
  BY TakenNat DEF FilesInv, FilesTypeOK
<1>3. Pending(req[r], tree) \in Nat
  BY <1>1, PendingNat DEF Fits, FilesInv, FilesTypeOK
<1>4. DiskLimit \in Nat
  BY DEF CellFilesAssumption
<1>5. Taken(tree, Paths) + Pending(req[r], tree) <= DiskLimit
  BY <1>1 DEF Fits
<1> QED
  BY <1>2, <1>3, <1>4, <1>5

\* Dropping a file only makes room.
LEMMA DropMakesRoom ==
  ASSUME CellFilesAssumption, IsFiniteSet(Names),
         NEW t \in [Paths -> Files \cup {Nothing}], NEW u \in [Paths -> Files \cup {Nothing}],
         NEW p \in Paths, \A b \in Paths \ {p} : u[b] = t[b], u[p] = Nothing
  PROVE  Taken(u, Paths) <= Taken(t, Paths)
<1>1. Taken(u, Paths) + BytesIn(t)[p] = Taken(t, Paths) + BytesIn(u)[p]
  BY TakenChange
<1>2. BytesIn(u)[p] = 0 /\ BytesIn(t)[p] \in Nat
  BY BytesWeigh DEF BytesIn
<1>3. Taken(u, Paths) \in Nat /\ Taken(t, Paths) \in Nat
  BY TakenNat
<1> QED
  BY <1>1, <1>2, <1>3

-----------------------------------------------------------------------------
(* What passes the check fits, and stays so until it ends.                 *)

\* The check counts what the sources take, or the entries say they will
\* (files/archive.go:144, :177).
LEMMA CreateArchiveCheckQuota ==
  ASSUME CellFilesAssumption, IsFiniteSet(Names), ~SelfArchive, FilesInv, QuotaInv,
         NEW r \in Reqs, NEW p \in User, NEW sources \in SUBSET User,
         CreateArchiveCheck(r, sources, p)
  PROVE  QuotaInv'
<1> DEFINE q == [NoRequest EXCEPT !.pc = "archive", !.to = p, !.left = sources, !.alone = TRUE]
<1>1. /\ Begin(r, q) /\ UNCHANGED <<tree, fd>> /\ ~There(p) /\ \A b \in sources : There(b)
      /\ EnsureDiskCapacity(SizeOf(sources \ {p}))
  BY DEF CreateArchiveCheck
<1>2. q.pc = "archive" /\ q.to = p /\ q.left = sources
  BY DEF NoRequest
<1>3. sources \ {p} = sources /\ p \notin sources
  BY <1>1
<1>4. sources \in SUBSET Paths
  BY PathFacts
<1>5. SizeOf(sources) = Taken(tree, sources) /\ Used = Taken(tree, Paths)
  BY <1>1, <1>4, SizeOfIsSum, UsedIsSum DEF FilesInv
<1>6. Taken(tree, sources) \in Nat /\ Taken(tree, Paths) \in Nat /\ DiskLimit \in Nat
  BY <1>4, TakenNat DEF FilesInv, FilesTypeOK, CellFilesAssumption
<1>7. ASSUME DiskLimit # 0 PROVE Taken(tree, Paths) + Taken(tree, sources) <= DiskLimit
  BY <1>1, <1>3, <1>5, <1>6, <1>7 DEF EnsureDiskCapacity
<1> HIDE DEF q
<1>8. DiskLimit # 0 => Fits(q, tree)
  BY <1>2, <1>3, <1>4, <1>7 DEF Fits, Pending
<1> QED
  BY <1>1, <1>2, <1>8, QuotaBegin

LEMMA ExtractArchiveCheckQuota ==
  ASSUME CellFilesAssumption, NothingAssumption, IsFiniteSet(Names), FilesInv, QuotaInv,
         NEW r \in Reqs, NEW p \in User, ExtractArchiveCheck(r, p)
  PROVE  QuotaInv'
<1> DEFINE q == [NoRequest EXCEPT !.pc = "unpack", !.from = p, !.alone = TRUE]
<1>1. /\ Begin(r, q) /\ UNCHANGED <<tree, fd>> /\ There(p)
      /\ EnsureDiskCapacity(ExpandedBytes(p))
  BY DEF ExtractArchiveCheck
<1>2. q.pc = "unpack" /\ q.from = p
  BY DEF NoRequest
<1>3. tree[p] \in Files
  BY <1>1, PathFacts DEF There, FilesInv, FilesTypeOK
<1>4. tree[p].holds \in SUBSET Entries
  BY <1>3 DEF Files
<1>5. ExpandedBytes(p) = Packed(tree[p].holds) /\ Used = Taken(tree, Paths)
  BY <1>4, ExpandedIsSum, UsedIsSum DEF FilesInv
<1>6. Packed(tree[p].holds) \in Nat /\ Taken(tree, Paths) \in Nat /\ DiskLimit \in Nat
  BY <1>4, PackedNat, TakenNat DEF FilesInv, FilesTypeOK, CellFilesAssumption
<1>7. ASSUME DiskLimit # 0 PROVE Taken(tree, Paths) + Packed(tree[p].holds) <= DiskLimit
  BY <1>1, <1>5, <1>6, <1>7 DEF EnsureDiskCapacity
<1> HIDE DEF q
<1>8. DiskLimit # 0 => Fits(q, tree)
  BY <1>1, <1>2, <1>7 DEF Fits, Pending, There
<1> QED
  BY <1>1, <1>2, <1>8, QuotaBegin

LEMMA PickNameQuota ==
  ASSUME FilesInv, QuotaInv, NEW r \in Reqs, NEW p \in Paths, PickName(r, p)
  PROVE  QuotaInv'
<1> DEFINE q(x) == [NoRequest EXCEPT !.pc = "move", !.from = p, !.to = x]
<1>1. PICK x : Begin(r, q(x)) /\ UNCHANGED <<tree, fd>>
  BY DEF PickName
<1>2. ~q(x).alone
  BY DEF NoRequest
<1> HIDE DEF q
<1> QED
  BY <1>1, <1>2, QuotaBegin

LEMMA CreateFileStatQuota ==
  ASSUME FilesInv, QuotaInv, NEW r \in Reqs, NEW p \in Paths, CreateFileStat(r, p)
  PROVE  QuotaInv'
<1> DEFINE q == [NoRequest EXCEPT !.pc = "create", !.to = p]
<1>1. Begin(r, q) /\ UNCHANGED <<tree, fd>> /\ ~q.alone
  BY DEF CreateFileStat, NoRequest
<1> HIDE DEF q
<1> QED
  BY <1>1, QuotaBegin

\* A move, or a file created, gives nobody the directory to itself.
LEMMA FinishQuota ==
  ASSUME CellFilesAssumption, IsFiniteSet(Names), FilesInv, FilesInv', QuotaInv,
         NEW r \in Reqs, Finish(r), req[r].pc \in {"move", "create"}
  PROVE  QuotaInv'
<1>1. ~(req[r].alone /\ DiskLimit # 0)
  BY DEF QuotaInv, Fits
<1> QED
  BY <1>1, QuotaFinish

\* An empty archive takes nothing yet (files/archive.go:282).
LEMMA CreateArchiveOpenQuota ==
  ASSUME CellFilesAssumption, NothingAssumption, IsFiniteSet(Names), FilesInv, FilesInv', QuotaInv,
         NEW r \in Reqs, CreateArchiveOpen(r)
  PROVE  QuotaInv'
<1> DEFINE p == req[r].to
           q == [req[r] EXCEPT !.pc = "copy"]
<1>1. req[r].pc = "archive" /\ p \in Paths /\ req[r] \in Requests
  BY PathFacts, ReqsAreGood DEF CreateArchiveOpen, At, FilesInv, ReqPaths
<1>2. CASE ~Exclusive(p)
  <2>1. Finish(r) /\ UNCHANGED tree
    BY <1>2 DEF CreateArchiveOpen
  <2> QED
    BY <2>1, UsedFits, QuotaFinish
<1>3. CASE Exclusive(p)
  <2>1. /\ tree' = [tree EXCEPT ![p] = Plain(0)] /\ fd' = [fd EXCEPT ![r] = p] /\ Become(r, q)
        /\ tree[p] = Nothing
    BY <1>3 DEF CreateArchiveOpen, Place, Exclusive, There
  <2>2. q.pc = "copy" /\ q.to = p /\ q.left = req[r].left /\ q.alone = req[r].alone
    BY <1>1 DEF Requests
  <2>3. /\ tree \in [Paths -> Files \cup {Nothing}] /\ tree' \in [Paths -> Files \cup {Nothing}]
        /\ \A b \in Paths \ {p} : tree'[b] = tree[b]
        /\ tree'[p] = Plain(0) /\ fd'[r] = p
    BY <1>1, <2>1 DEF FilesInv, FilesTypeOK
  <2>4. BytesIn(tree)[p] = 0 /\ BytesIn(tree')[p] = 0
    <3>1. BytesIn(tree')[p] \in {0, Plain(0).size}
      BY <1>1, <2>3 DEF BytesIn
    <3> QED
      BY <1>1, <2>1, <3>1 DEF BytesIn, Plain
  <2>5. Taken(tree', Paths) = Taken(tree, Paths)
    <3>1. Taken(tree', Paths) + BytesIn(tree)[p] = Taken(tree, Paths) + BytesIn(tree')[p]
      BY <1>1, <2>3, TakenChange
    <3>2. Taken(tree', Paths) \in Nat /\ Taken(tree, Paths) \in Nat
      BY <2>3, TakenNat
    <3> QED
      BY <2>4, <3>1, <3>2
  <2> HIDE DEF q
  <2>6. ASSUME q.alone, DiskLimit # 0 PROVE Fits(q, tree')
    <3>1. q.left \in SUBSET Paths /\ p \notin q.left
      BY <1>1, <2>2, <2>6 DEF QuotaInv, Fits
    <3>2. Taken(tree', q.left) = Taken(tree, q.left)
      BY <2>3, <3>1, TakenSame
    <3>3. Taken(tree, Paths) + Taken(tree, q.left) <= DiskLimit
      BY <1>1, <2>2, <2>6 DEF QuotaInv, Fits, Pending
    <3> QED
      BY <2>2, <2>5, <3>1, <3>2, <3>3 DEF Fits, Pending
  <2> QED
    BY <2>1, <2>2, <2>3, <2>6, QuotaBecome
<1> QED
  BY <1>2, <1>3

\* A source is copied at its size: what is there grows by what is left less
\* (files/archive.go:396).
LEMMA CreateArchiveCopyQuota ==
  ASSUME CellFilesAssumption, NothingAssumption, IsFiniteSet(Names), FilesInv, FilesInv', QuotaInv,
         NEW r \in Reqs, CreateArchiveCopy(r)
  PROVE  QuotaInv'
<1> DEFINE a == fd[r]
<1>1. PICK b \in req[r].left :
        /\ There(b)
        /\ IF a = Nothing THEN UNCHANGED tree ELSE Append(a, b, IF a = b THEN 1 ELSE tree[b].size)
        /\ Become(r, [req[r] EXCEPT !.left = IF a = b THEN @ ELSE @ \ {b}])
  BY DEF CreateArchiveCopy
<1> DEFINE q == [req[r] EXCEPT !.left = IF a = b THEN @ ELSE @ \ {b}]
<1>2. req[r].pc = "copy" /\ req[r].to \in Paths /\ req[r] \in Requests /\ UNCHANGED fd
  BY PathFacts, ReqsAreGood DEF CreateArchiveCopy, At, FilesInv, ReqPaths
<1>3. /\ q.pc = "copy" /\ q.to = req[r].to /\ q.alone = req[r].alone
      /\ q.left = IF a = b THEN req[r].left ELSE req[r].left \ {b}
  BY <1>2 DEF Requests
<1>4. Become(r, q)
  BY <1>1
<1> HIDE DEF q
<1>5. ASSUME q.alone, DiskLimit # 0 PROVE Fits(q, tree') /\ fd'[r] = q.to
  <2>1. Fits(req[r], tree) /\ a = req[r].to
    BY <1>2, <1>3, <1>5 DEF QuotaInv, At
  <2>2. req[r].left \in SUBSET Paths /\ a \notin req[r].left /\ a \in Paths /\ b \in Paths
    BY <1>2, <2>1 DEF Fits
  <2>3. a # b /\ a # Nothing
    BY <2>2 DEF NothingAssumption
  <2>4. q.left = req[r].left \ {b}
    BY <1>3, <2>3
  <2>5. Append(a, b, tree[b].size)
    BY <1>1, <2>3
  <2>6. /\ tree \in [Paths -> Files \cup {Nothing}] /\ tree' \in [Paths -> Files \cup {Nothing}]
        /\ \A c \in Paths \ {a} : tree'[c] = tree[c]
        /\ tree'[a] = [tree[a] EXCEPT !.size = @ + tree[b].size, !.holds = @ \cup {<<b[2], tree[b].size>>}]
        /\ tree[a] \in Files
    <3>1. tree \in [Paths -> Files \cup {Nothing}] /\ tree' \in [Paths -> Files \cup {Nothing}]
      BY DEF FilesInv, FilesTypeOK
    <3>2. tree[a] # Nothing
      BY <2>3 DEF FilesInv, OpenNamed
    <3>3. tree' = [tree EXCEPT ![a].size = @ + tree[b].size, ![a].holds = @ \cup {<<b[2], tree[b].size>>}]
      BY <2>5 DEF Append
    <3>4. tree' = [tree EXCEPT ![a] = [tree[a] EXCEPT !.size = @ + tree[b].size,
                                                      !.holds = @ \cup {<<b[2], tree[b].size>>}]]
      BY <2>2, <3>1, <3>3
    <3> QED
      BY <2>2, <3>1, <3>2, <3>4
  <2>7. tree'[a].size = tree[a].size + tree[b].size
    BY <2>6 DEF Files
  <2>8. tree[a].size \in Nat /\ tree[b].size \in Nat
    BY <1>1, <2>2, <2>6 DEF Files, There, CellFilesAssumption
  <2>9. /\ BytesIn(tree)[a] = tree[a].size /\ BytesIn(tree')[a] = tree[a].size + tree[b].size
        /\ BytesIn(tree)[b] = tree[b].size
    <3>1. tree'[a] \in Files /\ tree'[a] # Nothing /\ tree[a] # Nothing
      <4>1. tree'[a].size \in Nat /\ tree[a] # Nothing
        BY <2>6, <2>7, <2>8 DEF NothingAssumption
      <4>2. tree'[a] # Nothing
        BY <2>2, <2>3, <1>2 DEF FilesInv, OpenNamed
      <4> QED
        BY <2>2, <2>6, <4>1, <4>2
    <3> QED
      BY <1>1, <2>2, <2>7, <3>1 DEF BytesIn, There
  <2>10. /\ Taken(tree', Paths) \in Nat /\ Taken(tree, Paths) \in Nat
         /\ Taken(tree', Paths) = Taken(tree, Paths) + tree[b].size
    <3>1. Taken(tree', Paths) + BytesIn(tree)[a] = Taken(tree, Paths) + BytesIn(tree')[a]
      BY <2>2, <2>6, TakenChange
    <3>2. Taken(tree', Paths) \in Nat /\ Taken(tree, Paths) \in Nat
      BY <2>6, TakenNat
    <3> QED
      BY <2>8, <2>9, <3>1, <3>2
  <2>11. Taken(tree, req[r].left) = tree[b].size + Taken(tree, q.left)
    BY <2>2, <2>4, <2>6, <2>9, TakenTake
  <2>12. Taken(tree', q.left) = Taken(tree, q.left) /\ Taken(tree, q.left) \in Nat
    BY <2>2, <2>4, <2>6, TakenSame, TakenNat
  <2>13. Taken(tree, Paths) + Taken(tree, req[r].left) <= DiskLimit
    BY <1>2, <2>1 DEF Fits, Pending
  <2>14. Taken(tree', Paths) + Taken(tree', q.left) <= DiskLimit
    <3>1. DiskLimit \in Nat
      BY DEF CellFilesAssumption
    <3> QED
      BY <2>8, <2>10, <2>11, <2>12, <2>13, <3>1
  <2>15. Fits(q, tree')
    BY <1>3, <2>1, <2>2, <2>4, <2>14 DEF Fits, Pending
  <2> QED
    BY <1>2, <1>3, <2>1, <2>15
<1> QED
  BY <1>4, <1>5, QuotaBecome

\* The archive is done, or gone: nothing is still to come (files/archive.go:290, :294).
LEMMA CreateArchiveEndQuota ==
  ASSUME CellFilesAssumption, NothingAssumption, IsFiniteSet(Names), FilesInv, FilesInv', QuotaInv,
         NEW r \in Reqs, CreateArchiveEnd(r)
  PROVE  QuotaInv'
<1> DEFINE a == fd[r]
<1>1. Finish(r) /\ tree' = IF a = Nothing THEN tree ELSE [tree EXCEPT ![a].whole = TRUE]
  BY DEF CreateArchiveEnd
<1>2. Taken(tree', Paths) = Taken(tree, Paths)
  <2>1. CASE a = Nothing
    BY <1>1, <2>1
  <2>2. CASE a # Nothing
    <3>1. a \in Paths /\ tree[a] \in Files /\ tree[a] # Nothing
      BY <2>2 DEF FilesInv, FilesTypeOK, OpenNamed
    <3> DEFINE f == [tree[a] EXCEPT !.whole = TRUE]
    <3>2. tree' = [tree EXCEPT ![a] = f] /\ f.size = tree[a].size /\ f \in Files
      BY <1>1, <2>2, <3>1 DEF Files
    <3> HIDE DEF f
    <3>3. /\ tree \in [Paths -> Files \cup {Nothing}] /\ tree' \in [Paths -> Files \cup {Nothing}]
          /\ \A c \in Paths \ {a} : tree'[c] = tree[c]
          /\ tree'[a] = f /\ f # Nothing
      BY <3>1, <3>2 DEF FilesInv, FilesTypeOK, NothingAssumption
    <3>4. BytesIn(tree')[a] = BytesIn(tree)[a] /\ BytesIn(tree)[a] \in Nat
      BY <3>1, <3>2, <3>3, BytesWeigh DEF BytesIn
    <3>5. Taken(tree', Paths) + BytesIn(tree)[a] = Taken(tree, Paths) + BytesIn(tree')[a]
      BY <3>1, <3>3, TakenChange
    <3>6. Taken(tree', Paths) \in Nat /\ Taken(tree, Paths) \in Nat
      BY <3>3, TakenNat
    <3> QED
      BY <3>4, <3>5, <3>6
  <2> QED
    BY <2>1, <2>2
<1> QED
  BY <1>1, <1>2, UsedFits, QuotaFinish

LEMMA CreateArchiveFailQuota ==
  ASSUME CellFilesAssumption, IsFiniteSet(Names), FilesInv, FilesInv', QuotaInv,
         NEW r \in Reqs, CreateArchiveFail(r)
  PROVE  QuotaInv'
<1> DEFINE p == req[r].to
<1>1. Finish(r) /\ tree' = [tree EXCEPT ![p] = Nothing] /\ p \in Paths
  BY PathFacts DEF CreateArchiveFail, At, FilesInv, ReqPaths
<1>2. /\ tree \in [Paths -> Files \cup {Nothing}] /\ tree' \in [Paths -> Files \cup {Nothing}]
      /\ \A b \in Paths \ {p} : tree'[b] = tree[b]
      /\ tree'[p] = Nothing
  BY <1>1 DEF FilesInv, FilesTypeOK
<1>3. Taken(tree', Paths) <= Taken(tree, Paths) /\ Taken(tree', Paths) \in Nat
  BY <1>1, <1>2, DropMakesRoom, TakenNat
<1>4. ASSUME req[r].alone, DiskLimit # 0 PROVE Taken(tree', Paths) <= DiskLimit
  <2>1. Taken(tree, Paths) \in Nat /\ DiskLimit \in Nat /\ Taken(tree, Paths) <= DiskLimit
    BY <1>4, UsedFits
  <2> QED
    BY <1>3, <2>1
<1> QED
  BY <1>1, <1>4, QuotaFinish

\* The second read finds what the first measured (files/archive.go:444).
LEMMA ExtractArchiveOpenQuota ==
  ASSUME CellFilesAssumption, NothingAssumption, IsFiniteSet(Names), FilesInv, FilesInv', QuotaInv,
         NEW r \in Reqs, ExtractArchiveOpen(r)
  PROVE  QuotaInv'
<1> DEFINE p == req[r].from
           q == [req[r] EXCEPT !.pc = "entry", !.left = tree[p].holds]
<1>1. req[r].pc = "unpack" /\ req[r] \in Requests /\ UNCHANGED <<tree, fd>>
  BY ReqsAreGood DEF ExtractArchiveOpen, At
<1>2. CASE Finish(r)
  BY <1>1, <1>2, UsedFits, QuotaFinish
<1>3. CASE Become(r, q)
  <2>1. q.pc = "entry" /\ q.left = tree[p].holds /\ q.alone = req[r].alone
    BY <1>1 DEF Requests
  <2> HIDE DEF q
  <2>2. ASSUME q.alone, DiskLimit # 0 PROVE Fits(q, tree')
    <3>1. Taken(tree, Paths) + Packed(tree[p].holds) <= DiskLimit
      BY <1>1, <2>1, <2>2 DEF QuotaInv, Fits, Pending
    <3> QED
      BY <1>1, <2>1, <3>1 DEF Fits, Pending
  <2> QED
    BY <1>3, <2>1, <2>2, QuotaBecome
<1> QED
  BY <1>2, <1>3 DEF ExtractArchiveOpen

\* What was there goes first; it made up part of what was counted
\* (files/archive.go:643).
LEMMA PrepareTargetQuota ==
  ASSUME CellFilesAssumption, NothingAssumption, IsFiniteSet(Names), FilesInv, FilesInv', QuotaInv,
         NEW r \in Reqs, PrepareTarget(r)
  PROVE  QuotaInv'
<1>1. PICK e \in req[r].left :
        \/ Finish(r) /\ UNCHANGED <<tree, fd>>
        \/ /\ Drop(<<"live", e[1], 0>>)
           /\ Become(r, [req[r] EXCEPT !.pc = "place", !.to = <<"live", e[1], 0>>])
  BY DEF PrepareTarget
<1> DEFINE p == <<"live", e[1], 0>>
           q == [req[r] EXCEPT !.pc = "place", !.to = p]
<1>2. req[r].pc = "entry" /\ req[r].left \subseteq Entries /\ req[r] \in Requests
  BY ReqsAreGood DEF PrepareTarget, At, FilesInv, ReqPaths
<1>3. CASE Finish(r) /\ UNCHANGED <<tree, fd>>
  BY <1>3, UsedFits, QuotaFinish
<1>4. CASE Drop(p) /\ Become(r, q)
  <2>1. p \in Paths
    BY <1>2, EntryPath, PathFacts
  <2>2. q.pc = "place" /\ q.to = p /\ q.left = req[r].left /\ q.alone = req[r].alone
    BY <1>2 DEF Requests
  <2> HIDE DEF p, q
  <2>3. /\ tree \in [Paths -> Files \cup {Nothing}] /\ tree' \in [Paths -> Files \cup {Nothing}]
        /\ \A b \in Paths \ {p} : tree'[b] = tree[b]
        /\ tree'[p] = Nothing
    BY <1>4, <2>1, DropTyped DEF FilesInv, FilesTypeOK
  <2>4. Taken(tree', Paths) <= Taken(tree, Paths) /\ Taken(tree', Paths) \in Nat
    BY <2>1, <2>3, DropMakesRoom, TakenNat
  <2>5. ASSUME q.alone, DiskLimit # 0 PROVE Fits(q, tree')
    <3>1. Taken(tree, Paths) + Packed(q.left) <= DiskLimit
      BY <1>2, <2>2, <2>5 DEF QuotaInv, Fits, Pending
    <3>2. Packed(q.left) \in Nat /\ Taken(tree, Paths) \in Nat /\ DiskLimit \in Nat
      BY <1>2, <2>2, <2>3, PackedNat, TakenNat DEF CellFilesAssumption
    <3>3. Taken(tree', Paths) + Packed(q.left) <= DiskLimit
      BY <2>4, <3>1, <3>2
    <3> QED
      BY <2>2, <2>3, <3>3 DEF Fits, Pending
  <2> QED
    BY <1>4, <2>2, <2>5, QuotaBecome
<1> QED
  BY <1>1, <1>3, <1>4

\* An entry is no larger than it says it is (files/archive.go:555).
LEMMA PlaceEntryQuota ==
  ASSUME CellFilesAssumption, NothingAssumption, IsFiniteSet(Names), FilesInv, FilesInv', QuotaInv,
         NEW r \in Reqs, PlaceEntry(r)
  PROVE  QuotaInv'
<1> DEFINE p == req[r].to
<1>1. PICK e \in req[r].left, n \in 0 .. MaxSize :
        /\ n <= e[2]
        /\ Place(p, Plain(n))
        /\ \/ Finish(r)
           \/ Become(r, [req[r] EXCEPT !.pc = "entry", !.left = @ \ {e}])
  BY DEF PlaceEntry
<1> DEFINE q == [req[r] EXCEPT !.pc = "entry", !.left = @ \ {e}]
<1>2. /\ req[r].pc = "place" /\ req[r].left \in SUBSET Entries /\ p \in Paths
      /\ req[r] \in Requests /\ UNCHANGED fd
  BY PathFacts, ReqsAreGood DEF PlaceEntry, At, FilesInv, ReqPaths
<1>3. /\ tree \in [Paths -> Files \cup {Nothing}] /\ tree' \in [Paths -> Files \cup {Nothing}]
      /\ \A b \in Paths \ {p} : tree'[b] = tree[b]
      /\ tree'[p] = Plain(n)
  BY <1>1, <1>2 DEF Place, FilesInv, FilesTypeOK
<1>4. n \in Nat /\ e[2] \in Nat /\ DiskLimit \in Nat
  BY <1>2 DEF CellFilesAssumption, Entries
<1>5. ASSUME req[r].alone, DiskLimit # 0
      PROVE  /\ Taken(tree', Paths) \in Nat
             /\ Packed(req[r].left \ {e}) \in Nat
             /\ Taken(tree', Paths) + Packed(req[r].left \ {e}) <= DiskLimit
  <2>1. tree[p] = Nothing /\ Taken(tree, Paths) + Packed(req[r].left) <= DiskLimit
    BY <1>2, <1>5 DEF QuotaInv, Fits, Pending
  <2>2. BytesIn(tree)[p] = 0 /\ BytesIn(tree')[p] \in {0, n}
    BY <1>2, <1>3, <2>1 DEF BytesIn, Plain
  <2>3. Taken(tree', Paths) + BytesIn(tree)[p] = Taken(tree, Paths) + BytesIn(tree')[p]
    BY <1>2, <1>3, TakenChange
  <2>4. Taken(tree', Paths) \in Nat /\ Taken(tree, Paths) \in Nat
    BY <1>3, TakenNat
  <2>5. req[r].left \ {e} \in SUBSET Entries
    BY <1>2
  <2>6. Packed(req[r].left \ {e}) \in Nat
    BY <2>5, PackedNat
  <2>7. Packed(req[r].left) = e[2] + Packed(req[r].left \ {e})
    BY <1>2, PackedTake
  <2>8. Taken(tree', Paths) <= Taken(tree, Paths) + n
    BY <1>4, <2>2, <2>3, <2>4
  <2> QED
    BY <1>1, <1>4, <2>1, <2>4, <2>6, <2>7, <2>8
<1>6. CASE Finish(r)
  <2>1. ASSUME req[r].alone, DiskLimit # 0 PROVE Taken(tree', Paths) <= DiskLimit
    BY <1>4, <1>5, <2>1
  <2> QED
    BY <1>6, <2>1, QuotaFinish
<1>7. CASE Become(r, q)
  <2>1. q.pc = "entry" /\ q.left = req[r].left \ {e} /\ q.alone = req[r].alone
    BY <1>2 DEF Requests
  <2> HIDE DEF q
  <2>2. ASSUME q.alone, DiskLimit # 0 PROVE Fits(q, tree')
    BY <1>5, <2>1, <2>2 DEF Fits, Pending
  <2> QED
    BY <1>7, <2>1, <2>2, QuotaBecome
<1> QED
  BY <1>1, <1>6, <1>7

-----------------------------------------------------------------------------
LEMMA FileOperationQuota ==
  ASSUME CellFilesAssumption, NothingAssumption, IsFiniteSet(Names), ~SelfArchive,
         FilesInv, FilesInv', QuotaInv, FileOperation
  PROVE  QuotaInv'
<1>1. CASE \/ \E p \in User : WriteFile(p)
           \/ \E p \in Live, q \in User : RenameFile(p, q)
           \/ \E p \in Bin : PermanentDeleteFile(p)
  <2>1. Disturb
    BY <1>1 DEF WriteFile, RenameFile, PermanentDeleteFile
  <2> QED
    BY <2>1, QuotaDisturb
<1>2. ASSUME NEW r \in Reqs, \E p \in Paths : PickName(r, p) PROVE QuotaInv'
  BY <1>2, PickNameQuota
<1>3. ASSUME NEW r \in Reqs, \E p \in User : CreateFileStat(r, p) \/ ExtractArchiveCheck(r, p)
      PROVE  QuotaInv'
  BY <1>3, PathFacts, CreateFileStatQuota, ExtractArchiveCheckQuota
<1>4. ASSUME NEW r \in Reqs, \E p \in User, sources \in SUBSET User : CreateArchiveCheck(r, sources, p)
      PROVE  QuotaInv'
  BY <1>4, CreateArchiveCheckQuota
<1>5. ASSUME NEW r \in Reqs, MoveFile(r) \/ CreateFileOpen(r) PROVE QuotaInv'
  BY <1>5, FinishQuota DEF MoveFile, CreateFileOpen, At
<1>6. ASSUME NEW r \in Reqs, \/ CreateArchiveOpen(r) \/ CreateArchiveCopy(r)
                             \/ CreateArchiveEnd(r) \/ CreateArchiveFail(r)
      PROVE  QuotaInv'
  BY <1>6, CreateArchiveOpenQuota, CreateArchiveCopyQuota, CreateArchiveEndQuota, CreateArchiveFailQuota
<1>7. ASSUME NEW r \in Reqs, ExtractArchiveOpen(r) \/ PrepareTarget(r) \/ PlaceEntry(r)
      PROVE  QuotaInv'
  BY <1>7, ExtractArchiveOpenQuota, PrepareTargetQuota, PlaceEntryQuota
<1> QED
  BY <1>1, <1>2, <1>3, <1>4, <1>5, <1>6, <1>7 DEF FileOperation

LEMMA NextQuota ==
  ASSUME CellFilesAssumption, NothingAssumption, IsFiniteSet(Names), ~SelfArchive,
         FilesInv, FilesInv', QuotaInv, [Next]_vars
  PROVE  QuotaInv'
<1>1. CASE FileOperation
  BY <1>1, FileOperationQuota
<1>2. ASSUME NEW c \in Conns, SessionOperation(c) PROVE QuotaInv'
  <2>1. CASE SftpClose(c)
    <3>1. UNCHANGED <<tree, req>> /\ \A r \in Reqs : fd'[r] = fd[r]
      BY <2>1 DEF SftpClose, Close, FilesInv, FilesTypeOK, CellFilesAssumption
    <3> QED
      BY <3>1, QuotaQuiet
  <2>2. CASE ~SftpClose(c)
    <3>1. Disturb
      BY <1>2, <2>2 DEF SessionOperation, SftpOpen, Truncate, SftpRename, SftpRemove, SftpWrite
    <3> QED
      BY <3>1, QuotaDisturb
  <2> QED
    BY <2>1, <2>2
<1>3. CASE ServerStep
  <2>1. UNCHANGED tree
    BY <1>3 DEF ServerStep
  <2>2. CASE Serving'
    <3>1. UNCHANGED req /\ \A r \in Reqs : fd'[r] = fd[r]
      BY <1>3, <2>2 DEF ServerStep, FilesInv, FilesTypeOK, CellFilesAssumption
    <3> QED
      BY <2>1, <3>1, QuotaQuiet
  <2>3. CASE ~Serving'
    <3>1. \A r \in Reqs : ~req'[r].alone
      BY <1>3, <2>3 DEF ServerStep, NoRequest
    <3> QED
      BY <2>1, <3>1, QuotaQuiet
  <2> QED
    BY <2>2, <2>3
<1>4. CASE UNCHANGED vars
  BY <1>4, QuotaQuiet DEF vars, files
<1> QED
  BY <1>1, <1>2, <1>3, <1>4 DEF Next

\* An archive operation that has the directory to itself keeps the Cell within its
\* disk limit, the bin included, whatever files, sizes and limit there are, if no
\* archive is among the files it is made of (files/archive.go:69, :115).
THEOREM LimitIsKept ==
  ASSUME CellFilesAssumption, NothingAssumption, IsFiniteSet(Names), ~SelfArchive
  PROVE  Spec => []QuotaKept
<1>1. Init => FilesInv /\ QuotaInv
  BY FilesInitInv DEF Init, FilesInit, NoRequest, QuotaInv
<1>2. FilesInv /\ QuotaInv /\ [Next]_vars => FilesInv' /\ QuotaInv'
  BY NextGood, NextQuota DEF StepGood
<1>3. ASSUME FilesInv, QuotaInv PROVE QuotaKept
  <2>1. Used = Taken(tree, Paths)
    BY <1>3, UsedIsSum DEF FilesInv
  <2> QED
    BY <1>3, <2>1, UsedFits DEF QuotaKept
<1> QED
  BY <1>1, <1>2, <1>3, PTL DEF Spec
=============================================================================
