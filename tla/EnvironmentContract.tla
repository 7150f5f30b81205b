------------------------ MODULE EnvironmentContract ------------------------
(***************************************************************************)
(* What the runtime promises its consumers about one environment per       *)
(* project: the state machine none -> provisioning -> ready -> asleep,     *)
(* destroyed from anywhere, and the fail-closed guarantee that an          *)
(* environment is ready only behind an active wall.  It knows nothing of   *)
(* requests, locks, tools or machines; LifecycleService implements it.     *)
(***************************************************************************)
CONSTANTS Projects,  \* the opaque project_id keys
          Handles,   \* connection handles a provider can hand out
          NoHandle   \* connection: null, none of Handles

VARIABLES status,  \* status[p]: the state of p's environment
          handle,  \* handle[p]: the connection of p's environment
          walls    \* the handles whose enforcement a provider has confirmed

vars == <<status, handle, walls>>

Status == {"none", "provisioning", "ready", "asleep", "destroyed"}

TypeOK ==
  /\ status \in [Projects -> Status]
  /\ handle \in [Projects -> Handles \union {NoHandle}]
  /\ walls \subseteq Handles

Init ==
  /\ status = [p \in Projects |-> "none"]
  /\ handle = [p \in Projects |-> NoHandle]
  /\ walls = {}

(* A first ensure, an ensure of a destroyed environment, or a wake. *)
Provision(p) ==
  /\ status[p] \in {"none", "destroyed", "asleep"}
  /\ status' = [status EXCEPT ![p] = "provisioning"]
  /\ handle' = [handle EXCEPT ![p] = NoHandle]
  /\ UNCHANGED walls

(* The wall behind h is up although nobody is told (a lost answer). *)
RaiseWall(h) ==
  /\ walls' = walls \union {h}
  /\ UNCHANGED <<status, handle>>

(* The only way to ready: from provisioning, behind h's wall, and with a   *)
(* handle no other project holds.                                          *)
Activate(p, h) ==
  /\ status[p] = "provisioning"
  /\ \A q \in Projects : handle[q] # h
  /\ status' = [status EXCEPT ![p] = "ready"]
  /\ handle' = [handle EXCEPT ![p] = h]
  /\ walls' = walls \union {h}

FallAsleep(p) ==
  /\ status[p] = "ready"
  /\ status' = [status EXCEPT ![p] = "asleep"]
  /\ handle' = [handle EXCEPT ![p] = NoHandle]
  /\ UNCHANGED walls

Destroy(p) ==
  /\ status[p] \in {"provisioning", "ready", "asleep"}
  /\ status' = [status EXCEPT ![p] = "destroyed"]
  /\ handle' = [handle EXCEPT ![p] = NoHandle]
  /\ UNCHANGED walls

(* Environments live in the memory of one server process. *)
Forget ==
  /\ status' = [p \in Projects |-> "none"]
  /\ handle' = [p \in Projects |-> NoHandle]
  /\ UNCHANGED walls

Next ==
  \/ \E p \in Projects :
       \/ Provision(p)
       \/ FallAsleep(p)
       \/ Destroy(p)
       \/ \E h \in Handles : Activate(p, h)
  \/ \E h \in Handles : RaiseWall(h)
  \/ Forget

Spec == Init /\ [][Next]_vars

----------------------------------------------------------------------------
(* ready implies an active wall, and a connection is exposed in no other   *)
(* state: the fail-closed gate of LifecycleService.ensure.                 *)
FailClosed ==
  \A p \in Projects :
    /\ status[p] = "ready" => handle[p] \in walls
    /\ status[p] # "ready" => handle[p] = NoHandle

(* No two projects are ever connected to the same workspace. *)
HandlesDisjoint ==
  \A p, q \in Projects : p # q /\ handle[p] = handle[q] => handle[p] = NoHandle
============================================================================
