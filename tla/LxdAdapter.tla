------------------------------ MODULE LxdAdapter -------------------------------
(* The LXD adapter (provider/lxdapi/lxd.go) as the instance workflow uses it:  *)
(* start, stop, restart and reinstall of one machine.  Every worker process    *)
(* has an adapter of its own, with a cache in memory of the operations that    *)
(* it has seen succeed.  A request to LXD starts an operation in the           *)
(* background, and the adapter waits for its end; when a request or the wait   *)
(* fails the operation may go on behind its back.  LXD itself is external: one *)
(* operation at a time per machine, accepted only in a state that it fits.     *)
EXTENDS Naturals, Sequences

CONSTANTS
  Workers,   \* worker processes
  Slots,     \* operations that exist at the same time
  None       \* no value

VARIABLES
  lxd,       \* the machine: its status, and the operation that LXD is running
  cache      \* per worker: the actions that its adapter knows as done, by operation

lxdVars == <<lxd, cache>>

(* The action field of PUT .../state, the rebuild request, and the cache key of *)
(* a reinstall.                                                                  *)
StateActions == {"start", "stop", "restart"}
Requests == StateActions \cup {"rebuild"}
CacheKeys == (StateActions \cup {"reinstall"}) \X Slots

LxdTypeOK ==
  /\ lxd \in [status : {"Running", "Stopped"}, act : Requests \cup {None}, owner : Workers \cup {None}]
  /\ cache \in [Workers -> SUBSET CacheKeys]

LxdInit ==
  /\ lxd = [status |-> "Running", act |-> None, owner |-> None]
  /\ cache = [w \in Workers |-> {}]

(* mapState *)
MapState(status) ==
  CASE status = "Running"  -> "running"
    [] status = "Stopped"  -> "stopped"
    [] status = "Frozen"   -> "suspended"
    [] status = "Starting" -> "provisioning"
    [] status = "Stopping" -> "stopping"
    [] OTHER               -> "unknown"

(* GetInstance *)
State == MapState(lxd.status)

(* cachedOperation *)
CachedOperation(w, a, s) == <<a, s>> \in cache[w]

(* storeOperation *)
StoreOperation(w, S) == cache' = [cache EXCEPT ![w] = @ \cup S]

(* The requests that an action sends: stateAction one, ReinstallInstance up to  *)
(* three, the stop only for a machine that it finds running.                    *)
Plan(type) ==
  CASE type = "reinstall" -> (IF State = "running" THEN <<"stop">> ELSE <<>>) \o <<"rebuild", "start">>
    [] type = "suspend"   -> <<"stop">>
    [] OTHER              -> <<type>>

(* The status in which LXD accepts a request, and the one that it leads to. *)
Before(a) == IF a \in {"stop", "restart"} THEN "Running" ELSE "Stopped"
After(a) == IF a \in {"stop", "rebuild"} THEN "Stopped" ELSE "Running"

Accepts(a) == lxd.act = None /\ lxd.status = Before(a)

(* The request reaches LXD, which begins the operation. *)
Begin(w, a) == lxd' = [lxd EXCEPT !.act = a, !.owner = w]

(* LXD ends the operation it is running. *)
LxdCompletes ==
  /\ lxd.act # None
  /\ lxd' = [status |-> After(lxd.act), act |-> None, owner |-> None]

(* wait: the operation of this worker is over. *)
WaitEnds(w) == lxd.owner # w
================================================================================
