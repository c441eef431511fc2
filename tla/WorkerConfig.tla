---------------------------- MODULE WorkerConfig ----------------------------
(***************************************************************************)
(* The worker's configuration: the file and its loading, registration with *)
(* the panel (internal/config/config.go), the order of start-up            *)
(* (cmd/daemon/main.go), and the handler that changes the allocation list  *)
(* live, in memory and in the file (internal/api/configuration.go,         *)
(* Reconfigure in internal/allocation/manager.go).                         *)
(*                                                                         *)
(* A configuration is who the worker is (its node ID and token), the rest  *)
(* of its settings, and its allocation list.  Nothing keeps two handlers   *)
(* from the fields of h.Config, or from the file, at the same time.        *)
(***************************************************************************)
CONSTANTS
  Slots,          \* allocations (IP and port)
  DefaultSlots,   \* the list of a file that has none
  Updates,        \* requests to UpdateAllocationConfiguration
  Unset,          \* no list in the environment
  Garbled,        \* a file that is not YAML
  SerialUpdates   \* TRUE: the panel has one of these requests in flight

ASSUME WorkerConfigAssumption ==
  /\ DefaultSlots \subseteq Slots /\ DefaultSlots # {}
  /\ SerialUpdates \in BOOLEAN

Lists == (SUBSET Slots) \ {{}}
Identities == {"new", "registered", "nobody"}
Configs == [identity : Identities, rest : {"own", "default"}, list : Lists]

VARIABLES
  file,      \* worker.yml
  cut,       \* its last writing stopped half way
  env,       \* the list HIVEPANEL_ALLOCATION_* ask for, or Unset
  redeemed,  \* the panel has taken the registration token
  worker,    \* "down", "register" (its first save is due), "up"
  loaded,    \* cfg, then h.Config
  live,      \* allocation.Manager.allowed
  reserved,  \* what the Cells have reserved
  update,    \* the requests in flight
  strayed    \* the last failed save could not put the live list back

configVars == <<file, cut, env, redeemed, worker, loaded, live, reserved, update, strayed>>

UpdateSteps == {"idle", "reconfigure", "assign", "save", "restore", "reinstate"}
NoUpdate == [pc |-> "idle", new |-> DefaultSlots, old |-> DefaultSlots,
             config |-> [identity |-> "nobody", rest |-> "default", list |-> DefaultSlots]]

ConfigTypeOK ==
  /\ file = Garbled \/ file \in Configs
  /\ cut \in BOOLEAN /\ redeemed \in BOOLEAN /\ strayed \in BOOLEAN
  /\ env = Unset \/ env \in Lists
  /\ worker \in {"down", "register", "up"}
  /\ loaded \in Configs
  /\ live \in Lists
  /\ reserved \subseteq Slots
  /\ update \in [Updates -> [pc : UpdateSteps, new : Lists, old : Lists, config : Configs]]

\* A file as the panel hands it out for a new worker.
ConfigInit ==
  /\ file = [identity |-> "new", rest |-> "own", list |-> DefaultSlots]
  /\ cut = FALSE /\ redeemed = FALSE /\ strayed = FALSE
  /\ env = Unset
  /\ worker = "down"
  /\ loaded = NoUpdate.config
  /\ live = DefaultSlots
  /\ reserved = {}
  /\ update = [u \in Updates |-> NoUpdate]

-----------------------------------------------------------------------------
\* A slip: the failed save leaves the new list in h.Config.
ConfigKept(u) == UNCHANGED loaded

\* os.WriteFile truncates first.  A file cut before the allocations has the default
\* list, one cut earlier also default paths and runtime, and one cut before
\* the node ID nothing of its own; one cut in the list has some of it.
Cuts(c) ==
  {Garbled, [identity |-> "nobody", rest |-> "default", list |-> DefaultSlots]}
    \cup [identity : {c.identity}, rest : {"default", "own"}, list : {DefaultSlots}]
    \cup [identity : {c.identity}, rest : {c.rest}, list : (SUBSET c.list) \ {{}, c.list}]

Write(c) == file' = c /\ cut' = FALSE
WriteFails(c) == \/ UNCHANGED <<file, cut>>
                 \/ file' \in Cuts(c) /\ cut' = TRUE

\* applyEnvironmentOverrides
Override(c) == IF env = Unset THEN c ELSE [c EXCEPT !.list = env]

\* validate: with SFTP enabled, as it is by default, a worker needs its node ID.
Valid(c) == c.identity = "registered" /\ c.list \in Lists

Run(c) == worker' = "up" /\ loaded' = c /\ live' = c.list

-----------------------------------------------------------------------------
\* Load, then the allocation manager.  A file that is no YAML, a node without ID
\* and a registration the panel refuses are panics: the worker stays down.
Start ==
  /\ worker = "down"
  /\ file # Garbled
  /\ LET c == Override(file) IN
     \/ Valid(c) /\ Run(c) /\ UNCHANGED redeemed
     \/ /\ c.identity = "new" /\ ~redeemed
        /\ redeemed' = TRUE
        /\ worker' = "register"
        /\ loaded' = [c EXCEPT !.identity = "registered"]
        /\ UNCHANGED live
  /\ UNCHANGED <<file, cut, env, reserved, update, strayed>>

\* RegisterWorker saves what it was given; failing that, it panics.
RegisterSave ==
  /\ worker = "register"
  /\ \/ Write(loaded) /\ Run(loaded)
     \/ WriteFails(loaded) /\ worker' = "down" /\ UNCHANGED <<loaded, live>>
  /\ UNCHANGED <<env, redeemed, reserved, update, strayed>>

Stopped(u) == update[u].pc = "idle"
Advance(u, pc) == update' = [update EXCEPT ![u].pc = pc]

UpdateAllocationConfiguration(u, new) ==
  /\ worker = "up"
  /\ Stopped(u)
  /\ SerialUpdates => \A v \in Updates : Stopped(v)
  /\ update' = [update EXCEPT ![u] = [NoUpdate EXCEPT !.pc = "reconfigure", !.new = new, !.old = live]]
  /\ UNCHANGED <<file, cut, env, redeemed, worker, loaded, live, reserved, strayed>>

\* validateConfiguration, and Reconfigure's look at the reservations
Allowed(new) == new \in Lists /\ reserved \subseteq new

LiveReconfigure(u) ==
  /\ update[u].pc = "reconfigure"
  /\ IF Allowed(update[u].new)
     THEN live' = update[u].new /\ Advance(u, "assign")
     ELSE update' = [update EXCEPT ![u] = NoUpdate] /\ UNCHANGED live
  /\ UNCHANGED <<file, cut, env, redeemed, worker, loaded, reserved, strayed>>

ConfigAssign(u) ==
  /\ update[u].pc = "assign"
  /\ loaded' = [loaded EXCEPT !.list = update[u].new]
  /\ update' = [update EXCEPT ![u].pc = "save", ![u].config = loaded]
  /\ UNCHANGED <<file, cut, env, redeemed, worker, live, reserved, strayed>>

ConfigSave(u) ==
  /\ update[u].pc = "save"
  /\ \/ /\ Write(loaded)
        /\ update' = [update EXCEPT ![u] = NoUpdate]
        /\ strayed' = FALSE
     \/ WriteFails(loaded) /\ Advance(u, "restore") /\ UNCHANGED strayed
  /\ UNCHANGED <<env, redeemed, worker, loaded, live, reserved>>

\* h.Config = oldConfig
PutBack(u) == loaded' = update[u].config

ConfigRestore(u) ==
  /\ update[u].pc = "restore"
  /\ PutBack(u)
  /\ Advance(u, "reinstate")
  /\ UNCHANGED <<file, cut, env, redeemed, worker, live, reserved, strayed>>

\* The old list may have lost its right to come back: a Cell has reserved from the
\* new one meanwhile.  The answer says so.
LiveReinstate(u) ==
  /\ update[u].pc = "reinstate"
  /\ IF Allowed(update[u].old) THEN live' = update[u].old /\ UNCHANGED strayed
     ELSE strayed' = TRUE /\ UNCHANGED live
  /\ update' = [update EXCEPT ![u] = NoUpdate]
  /\ UNCHANGED <<file, cut, env, redeemed, worker, loaded, reserved>>

-----------------------------------------------------------------------------
\* UpdateDefinition and Delete change the reservations, whatever is allowed; a
\* restart finds them with the Cells.
Reserve(s) ==
  /\ worker = "up"
  /\ reserved' \in {reserved \cup {s}, reserved \ {s}}
  /\ UNCHANGED <<file, cut, env, redeemed, worker, loaded, live, update, strayed>>

\* The worker ends, possibly while it writes.
ConfigCrash ==
  /\ worker # "down"
  /\ worker' = "down"
  /\ IF worker = "register" \/ \E u \in Updates : update[u].pc = "save"
     THEN WriteFails(loaded) ELSE UNCHANGED <<file, cut>>
  /\ update' = [u \in Updates |-> NoUpdate]
  /\ strayed' = FALSE
  /\ UNCHANGED <<env, redeemed, loaded, live, reserved>>

\* Whoever runs the worker changes its environment between two starts.
SetEnvironment(list) ==
  /\ worker = "down"
  /\ env' = list
  /\ UNCHANGED <<file, cut, redeemed, worker, loaded, live, reserved, update, strayed>>

ConfigNext ==
  \/ Start \/ RegisterSave \/ ConfigCrash
  \/ \E u \in Updates : \/ \E new \in (SUBSET Slots) \ {{}} : UpdateAllocationConfiguration(u, new)
                        \/ LiveReconfigure(u) \/ ConfigAssign(u) \/ ConfigSave(u)
                        \/ ConfigRestore(u) \/ LiveReinstate(u)
  \/ \E s \in Slots : Reserve(s)
  \/ \E list \in Lists \cup {Unset} : SetEnvironment(list)

ConfigSpec == ConfigInit /\ [][ConfigNext]_configVars

-----------------------------------------------------------------------------
AtRest == worker = "up" /\ \A u \in Updates : Stopped(u)

\* While no update is under way, what the worker runs with, live and in memory,
\* is what a restart would bring back, its identity included, however saves,
\* rollbacks and reservations fell before (configuration.go:36-60,
\* config.go:181).  Out of reach of the code: a write that stopped half way, a
\* rollback the reservations refused, which the panel is told, and a list in
\* the environment.
RestartKeeps ==
  AtRest /\ ~cut /\ env = Unset =>
    /\ file = loaded
    /\ strayed \/ live = loaded.list
=============================================================================
