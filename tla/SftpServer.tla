------------------------------ MODULE SftpServer ------------------------------
(***************************************************************************)
(* internal/sftp/host_key.go and server.go: how a worker comes by its SSH   *)
(* host key, which is a file it may share with another worker (a restart    *)
(* that overlaps, a second daemon), and the connections it then serves.     *)
(*                                                                         *)
(* A connection carries one SFTP session at a time.  A refused connection   *)
(* leaves no trace, so that refusing is no action; the address can only be  *)
(* listened on once, so that one worker serves.                             *)
(***************************************************************************)
EXTENDS Naturals, FiniteSets

CONSTANTS
  Workers,    \* worker processes with one SFTP.HostKeyPath
  Conns,      \* connections of clients
  Keys,       \* host keys that can be generated
  MaxConns,   \* maxSSHConnections
  SyncFails,  \* TRUE: the disk may refuse a Sync, a Chmod or a Close
  Nothing, Torn

ASSUME SftpServerAssumption ==
  /\ MaxConns \in Nat /\ SyncFails \in BOOLEAN
  /\ Nothing \notin Keys /\ Torn \notin Keys /\ Nothing # Torn

VARIABLES
  keyFile,  \* the file at HostKeyPath: Nothing, a key, or Torn (not yet whole)
  boot,     \* how far each worker is
  hostKey,  \* the key each worker has in hand
  conn      \* the connections of the worker that serves

sftp == <<keyFile, boot, hostKey, conn>>

BootSteps == {"down", "read", "open", "again", "write", "sync", "undo", "ready", "serving"}
ConnSteps == {"none", "handshake", "asking", "open", "session", "gone"}

SftpTypeOK ==
  /\ keyFile \in Keys \cup {Nothing, Torn}
  /\ boot \in [Workers -> BootSteps]
  /\ hostKey \in [Workers -> Keys \cup {Nothing}]
  /\ conn \in [Conns -> ConnSteps]

SftpInit ==
  /\ keyFile = Nothing
  /\ boot = [w \in Workers |-> "down"]
  /\ hostKey = [w \in Workers |-> Nothing]
  /\ conn = [c \in Conns |-> "none"]

-----------------------------------------------------------------------------
Boot(w, from, to) == boot[w] = from /\ boot' = [boot EXCEPT ![w] = to]
Hold(w, k) == hostKey' = [hostKey EXCEPT ![w] = k]
Fatal(w) == boot' = [boot EXCEPT ![w] = "down"] /\ Hold(w, Nothing)
Serving == \E w \in Workers : boot[w] = "serving"

\* A slip: the file is opened without O_EXCL.
Reopened == TRUE

\* os.O_CREATE|os.O_EXCL
KeyFileFree == keyFile = Nothing

\* parseHostKey: an unfinished file is no key, and log.Fatal ends the worker.
Parse(w) ==
  IF keyFile \in Keys
  THEN boot' = [boot EXCEPT ![w] = "ready"] /\ Hold(w, keyFile)
  ELSE Fatal(w)

Start(w) ==
  /\ Boot(w, "down", "read")
  /\ UNCHANGED <<keyFile, hostKey, conn>>

\* The stored key, or a new one to be stored.
LoadOrCreateHostKey(w) ==
  /\ boot[w] = "read"
  /\ \/ keyFile # Nothing /\ Parse(w)
     \/ /\ keyFile = Nothing
        /\ boot' = [boot EXCEPT ![w] = "open"]
        /\ \E k \in Keys : (\A v \in Workers : hostKey[v] # k) /\ Hold(w, k)
  /\ UNCHANGED <<keyFile, conn>>

CreateKeyFile(w) ==
  /\ boot[w] = "open"
  /\ IF KeyFileFree
     THEN keyFile' = Torn /\ Boot(w, "open", "write")
     ELSE Boot(w, "open", "again") /\ UNCHANGED keyFile
  /\ UNCHANGED <<hostKey, conn>>

\* "Always load the actual stored key."
ReadStored(w) ==
  /\ boot[w] = "again"
  /\ Parse(w)
  /\ UNCHANGED <<keyFile, conn>>

WriteKey(w) ==
  /\ \/ keyFile' = hostKey[w] /\ Boot(w, "write", "sync")
     \/ Boot(w, "write", "undo") /\ UNCHANGED keyFile
  /\ UNCHANGED <<hostKey, conn>>

SyncKey(w) ==
  /\ \/ Boot(w, "sync", "ready")
     \/ SyncFails /\ Boot(w, "sync", "undo")
  /\ UNCHANGED <<keyFile, hostKey, conn>>

\* The deferred os.Remove of a file that could not be finished
RemoveKeyFile(w) ==
  /\ boot[w] = "undo"
  /\ keyFile' = Nothing
  /\ Fatal(w)
  /\ UNCHANGED conn

\* Only one worker gets the address; the other's ListenAndServe is fatal.
Listen(w) ==
  /\ boot[w] = "ready"
  /\ IF Serving THEN Fatal(w) ELSE Boot(w, "ready", "serving") /\ UNCHANGED hostKey
  /\ UNCHANGED <<keyFile, conn>>

\* The worker dies, or its Accept fails, which is fatal as well.
Die(w) ==
  /\ boot[w] # "down"
  /\ Fatal(w)
  /\ conn' = IF boot[w] = "serving" THEN [c \in Conns |-> "none"] ELSE conn
  /\ UNCHANGED keyFile

-----------------------------------------------------------------------------
SlotsInUse == Cardinality({c \in Conns : conn[c] # "none"})
Conn(c, from, to) == conn[c] = from /\ conn' = [conn EXCEPT ![c] = to]

\* The accept loop takes a slot without waiting, or closes the connection.
Accept(c) ==
  /\ Serving
  /\ SlotsInUse < MaxConns
  /\ Conn(c, "none", "handshake")
  /\ UNCHANGED <<keyFile, boot, hostKey>>

\* authenticatePassword asks the panel, up to MaxAuthTries times.
AskPanel(c) ==
  /\ Conn(c, "handshake", "asking")
  /\ UNCHANGED <<keyFile, boot, hostKey>>

\* A denial, a panel that does not answer in time, or an answer without a Cell
PanelDenies(c) ==
  /\ Conn(c, "asking", "handshake")
  /\ UNCHANGED <<keyFile, boot, hostKey>>

\* The Cell's directory is there, and the deadline goes.
Authenticated(c) ==
  /\ Conn(c, "asking", "open")
  /\ UNCHANGED <<keyFile, boot, hostKey>>

\* A client that leaves or has had its tries, or the deadline
HandshakeFails(c) ==
  /\ conn[c] \in {"handshake", "asking"}
  /\ conn' = [conn EXCEPT ![c] = "none"]
  /\ UNCHANGED <<keyFile, boot, hostKey>>

\* A session channel and its subsystem request: Create finds the root still there.
OpenSession(c) ==
  /\ Conn(c, "open", "session")
  /\ UNCHANGED <<keyFile, boot, hostKey>>

EndSession(c) ==
  /\ Conn(c, "session", "open")
  /\ UNCHANGED <<keyFile, boot, hostKey>>

\* The client leaves; the handler waits for its sessions, which end by that.
Disconnect(c) ==
  /\ conn[c] \in {"open", "session"}
  /\ conn' = [conn EXCEPT ![c] = "gone"]
  /\ UNCHANGED <<keyFile, boot, hostKey>>

ReleaseSlot(c) ==
  /\ Conn(c, "gone", "none")
  /\ UNCHANGED <<keyFile, boot, hostKey>>

BootNext(w) ==
  \/ Start(w) \/ LoadOrCreateHostKey(w) \/ CreateKeyFile(w) \/ ReadStored(w)
  \/ WriteKey(w) \/ SyncKey(w) \/ RemoveKeyFile(w) \/ Listen(w)

ConnNext(c) ==
  \/ Accept(c) \/ AskPanel(c) \/ PanelDenies(c) \/ Authenticated(c) \/ HandshakeFails(c)
  \/ OpenSession(c) \/ EndSession(c) \/ Disconnect(c) \/ ReleaseSlot(c)

SftpNext ==
  \/ \E w \in Workers : BootNext(w) \/ Die(w)
  \/ \E c \in Conns : ConnNext(c)

SftpSpec == SftpInit /\ [][SftpNext]_sftp

-----------------------------------------------------------------------------
\* Whatever worker gets past its start has the key that is stored, so that the
\* next one has it too: clients see one host key for good (host_key.go:14, :80).
OneHostKey == \A w \in Workers : boot[w] \in {"ready", "serving"} => hostKey[w] = keyFile
=============================================================================
