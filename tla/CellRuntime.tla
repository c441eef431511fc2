---------------------------- MODULE CellRuntime ----------------------------
(***************************************************************************)
(* What the Runtime interface (internal/runtime/runtime.go) promises the   *)
(* cell manager about each Cell, whatever starts the game server: at most  *)
(* one instance is alive, IsRunning says so for at least as long as it     *)
(* lives, Start is refused meanwhile, and the end of an instance is first  *)
(* forgotten by IsRunning and then reported through onExit.                *)
(***************************************************************************)
CONSTANT Ids  \* the Cells

VARIABLES
  alive,  \* the Cells with a living instance started by this worker
  known,  \* the Cells IsRunning answers true for
  owing   \* the Cells some ended instance of which has not called onExit yet

vars == <<alive, known, owing>>

Init == alive = {} /\ known = {} /\ owing = {}

Start(id) ==
  /\ id \notin known
  /\ alive' = alive \cup {id}
  /\ known' = known \cup {id}
  /\ UNCHANGED owing

\* The instance ends: by itself or because Stop killed it.
End(id) ==
  /\ id \in alive
  /\ alive' = alive \ {id}
  /\ UNCHANGED <<known, owing>>

Forget(id) ==
  /\ id \in known \ alive
  /\ known' = known \ {id}
  /\ owing' = owing \cup {id}
  /\ UNCHANGED alive

\* Several ended instances of one Cell may owe a report at the same time.
Report(id) ==
  /\ id \in owing
  /\ owing' \in {owing, owing \ {id}}
  /\ UNCHANGED <<alive, known>>

\* The worker process dies; its table and its callbacks die with it.  The next
\* worker knows the living instances it finds again (RecoverableRuntime), if any.
Crash == \E found \in SUBSET Ids : alive' = found /\ known' = found /\ owing' = {}

Next ==
  \/ \E id \in Ids : Start(id) \/ End(id) \/ Forget(id) \/ Report(id)
  \/ Crash

Spec == Init /\ [][Next]_vars /\ \A id \in Ids : WF_vars(Forget(id))
=============================================================================
