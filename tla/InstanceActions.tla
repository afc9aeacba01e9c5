---------------------------- MODULE InstanceActions ----------------------------
(* One instance and everything that changes it: the actions that its owner     *)
(* asks for in the portal (http/portal/handler.go), the suspension of its      *)
(* subscription, the reconciler (reconcile/reconciler.go) that turns drift     *)
(* into operations, the workflow that executes an operation                    *)
(* (instanceaction/workflow.go), and the LXD adapter (LxdAdapter).             *)
(*                                                                              *)
(* A worker process loops: a round of the reconciler, then one operation of    *)
(* the queue.  How an operation gets to a worker is the subject of             *)
(* OperationDelivery; here a queued operation (a retry that is due included)   *)
(* can be claimed.  Operations live in slots; a slot is used again when its    *)
(* operation has ended and no worker works on it any more.                     *)
(*                                                                              *)
(* The version of the row only ever goes into the reconciler's idempotency     *)
(* keys, so the model keeps the keys of the current version and, for a round    *)
(* between its UPDATE and its key, whether the version it was given still is    *)
(* the current one.                                                             *)
EXTENDS LxdAdapter, FiniteSets, Integers

CONSTANTS
  MaxRetries,   \* retries of an operation
  MaxEvents,    \* bound: requests of the owner, changes of the subscription, faults
  MaxFaults     \* bound: of these, crashes, failed statements and requests, lost
                \* answers, slow calls, guest shutdowns

ASSUME ActionAssumption ==
  /\ MaxRetries \in Nat /\ MaxEvents \in Nat /\ MaxFaults \in Nat
  /\ IsFiniteSet(Workers) /\ Workers # {}
  /\ None \notin Workers /\ None \notin Slots

VARIABLES
  inst,      \* the row of instances: desired_state, observed_state
  keys,      \* desired states of the reconciler's keys with the current version
  fresh,     \* workers whose round holds the current version
  sub,       \* status of the subscription
  ops,       \* per slot: type, status, retry_count, and whether its heartbeat is stale
  job,       \* per worker: where it is and what it has read
  events, faults,
  aborted    \* history: an operation was ended by an error before it wrote to the row

instRow == <<inst, keys, fresh>>
tables == <<instRow, sub, ops>>
counters == <<events, faults>>
vars == <<lxdVars, tables, job, counters, aborted>>

DesiredStates == {"running", "stopped", "suspended"}
UserActions == {"start", "stop", "restart", "reinstall"}
Types == UserActions \cup {"suspend"}
SubscriptionStatuses == {"active", "past_due", "suspended", "cancelled"}

(* What Execute derives from the type of the operation. *)
Desired(type) ==
  CASE type = "stop" -> "stopped" [] type = "suspend" -> "suspended" [] OTHER -> "running"

Transitional(type) ==
  CASE type = "stop" -> "stopping" [] type = "suspend" -> "suspending"
    [] type = "reinstall" -> "reinstalling" [] OTHER -> "restarting"

Expected(type) == IF type \in {"stop", "suspend"} THEN "stopped" ELSE "running"

Changing == {"restarting", "stopping", "suspending", "reinstalling"}
Counts == 0 .. MaxRetries + Cardinality(Workers) - 1

Ended == [type |-> None, status |-> "ended", retries |-> 0, stale |-> FALSE]
Loop == [pc |-> "loop", slot |-> None, type |-> None, attempt |-> 0, plan |-> <<>>,
         desired |-> None, state |-> None]

Places == {"loop", "select", "get", "store", "create", "consume", "set", "call", "wait", "finish"}

OpRows == [type : Types \cup {None}, status : {"queued", "running", "ended"},
           retries : Counts, stale : BOOLEAN]

JobRows == [pc : Places, slot : Slots \cup {None}, type : Types \cup {None},
            attempt : Counts, plan : Seq(Requests), desired : DesiredStates \cup {None},
            state : {"running", "stopped", None}]

TypeOK ==
  /\ LxdTypeOK
  /\ inst \in [desired : DesiredStates, observed : DesiredStates \cup Changing \cup {"unknown"}]
  /\ keys \subseteq DesiredStates
  /\ fresh \subseteq Workers
  /\ sub \in SubscriptionStatuses
  /\ ops \in [Slots -> OpRows]
  /\ job \in [Workers -> JobRows]
  /\ events \in 0 .. MaxEvents /\ faults \in 0 .. MaxFaults
  /\ aborted \in BOOLEAN

Init ==
  /\ LxdInit
  /\ inst = [desired |-> "running", observed |-> "running"]
  /\ keys = {} /\ fresh = {}
  /\ sub \in {"active", "past_due"}
  /\ ops = [s \in Slots |-> Ended]
  /\ job = [w \in Workers |-> Loop]
  /\ events = 0 /\ faults = 0
  /\ aborted = FALSE

Event == events < MaxEvents /\ events' = events + 1
Fault == Event /\ faults < MaxFaults /\ faults' = faults + 1

Executing(w, s) == job[w].slot = s
Open(s) == ops[s].status # "ended"

(* Mutant: the version stays as it is. *)
SetInstanceOnly(desired, observed) ==
  inst' = [desired |-> desired, observed |-> observed] /\ UNCHANGED <<keys, fresh>>

(* UPDATE instances ... version = version + 1 *)
SetInstance(desired, observed) ==
  /\ inst' = [desired |-> desired, observed |-> observed]
  /\ keys' = {} /\ fresh' = {}

SetInstanceObservedState(observed) == SetInstance(inst.desired, observed)

(* -------------------------------------------------------------------------- *)
(* Operations                                                                  *)
(* -------------------------------------------------------------------------- *)

(* ux_operations_active_instance_action *)
IndexAllows(type) ==
  type \in UserActions => \A s \in Slots : ~(Open(s) /\ ops[s].type \in UserActions)

FreeSlots == {s \in Slots : ~Open(s) /\ \A w \in Workers : ~Executing(w, s)}

(* What an adapter has cached of an operation that nobody executes any more     *)
(* makes no difference.                                                          *)
ForgetEnded == cache' = [w \in Workers |-> {c \in cache[w] : c[2] \notin FreeSlots}]

CreateOperation(type) ==
  LET s == CHOOSE r \in FreeSlots : TRUE IN
  /\ ops' = [ops EXCEPT ![s] = [type |-> type, status |-> "queued", retries |-> 0, stale |-> FALSE]]
  /\ ForgetEnded

(* instanceAction of the portal: the owner's requests are not restricted by the *)
(* status of the subscription.  A conflict changes nothing.                     *)
InstanceAction(type) ==
  /\ Event
  /\ IndexAllows(type)
  /\ FreeSlots # {} /\ CreateOperation(type)
  /\ UNCHANGED <<lxd, instRow, sub, job, faults, aborted>>

(* decideLifecycleTransition: a period ends, with or without a cancellation, or *)
(* the grace period does.                                                        *)
LifecycleTransition ==
  /\ Event
  /\ \/ sub = "active" /\ sub' \in {"past_due", "cancelled"}
     \/ sub = "past_due" /\ sub' = "suspended"
  /\ UNCHANGED <<lxdVars, instRow, ops, job, faults, aborted>>

(* The payment of a renewal (of a subscription that is active it changes only   *)
(* the period).                                                                  *)
RenewSubscription ==
  /\ Event
  /\ sub \in {"past_due", "suspended"} /\ sub' = "active"
  /\ UNCHANGED <<lxdVars, instRow, ops, job, faults, aborted>>

(* -------------------------------------------------------------------------- *)
(* Reconciler: one round of a worker                                           *)
(* -------------------------------------------------------------------------- *)

(* RecoverStuck *)
Recovered(o) ==
  IF ~(o.status = "running" /\ o.stale) THEN o
  ELSE IF o.retries < MaxRetries THEN [o EXCEPT !.status = "queued", !.retries = @ + 1, !.stale = FALSE]
  ELSE Ended

(* Mutant: a renewal leaves the desired state as it is. *)
FollowSuspension ==
  IF sub = "suspended" /\ inst.desired # "suspended" THEN SetInstance("suspended", inst.observed)
  ELSE UNCHANGED instRow

(* The two UPDATEs that make the desired state follow the subscription. *)
FollowSubscription ==
  CASE sub = "suspended" /\ inst.desired # "suspended" -> SetInstance("suspended", inst.observed)
    [] sub = "active" /\ inst.desired = "suspended"    -> SetInstance("running", inst.observed)
    [] OTHER -> UNCHANGED instRow

StartRound(w) ==
  /\ job[w].pc = "loop"
  /\ ops' = [s \in Slots |-> Recovered(ops[s])]
  /\ FollowSubscription
  /\ job' = [job EXCEPT ![w].pc = "select"]
  /\ ForgetEnded
  /\ UNCHANGED <<lxd, sub, counters, aborted>>

SelectCandidate(w) ==
  /\ job[w].pc = "select"
  /\ job' = [job EXCEPT ![w].pc = "get", ![w].desired = inst.desired]
  /\ UNCHANGED <<lxdVars, tables, counters, aborted>>

GetInstance(w) ==
  /\ job[w].pc = "get"
  /\ job' = [job EXCEPT ![w].pc = "store", ![w].state = State]
  /\ UNCHANGED <<lxdVars, tables, counters, aborted>>

Consume == [Loop EXCEPT !.pc = "consume"]

(* The provider does not answer. *)
GetFails(w) ==
  /\ job[w].pc = "get" /\ Fault
  /\ IF inst.observed = "unknown" THEN UNCHANGED instRow
     ELSE SetInstanceObservedState("unknown")
  /\ job' = [job EXCEPT ![w] = Consume]
  /\ UNCHANGED <<lxdVars, sub, ops, aborted>>

(* Resolve fails, or the provider answers with another error, or a statement    *)
(* fails: the round leaves the instance.                                         *)
RoundFails(w) ==
  /\ job[w].pc \in {"select", "get", "store", "create"} /\ Fault
  /\ job' = [job EXCEPT ![w] = Consume] /\ fresh' = fresh \ {w}
  /\ UNCHANGED <<lxdVars, inst, keys, sub, ops, aborted>>

(* The action that answers a difference, if any. *)
Drift(desired, state) ==
  CASE desired = "running" /\ state \in {"stopped", "suspended"}  -> "start"
    [] desired = "stopped" /\ state = "running"                   -> "stop"
    [] desired = "suspended" /\ state \in {"running", "stopped"}  -> "suspend"
    [] OTHER -> None

(* The observed state is stored, and the version changes with it; a difference  *)
(* is with the desired state that the round began with.                          *)
StoreObserved(w) ==
  LET type == Drift(job[w].desired, job[w].state)
      same == inst.observed = job[w].state
  IN /\ job[w].pc = "store"
     /\ inst' = [inst EXCEPT !.observed = job[w].state]
     /\ keys' = IF same THEN keys ELSE {}
     /\ fresh' = (IF same THEN fresh ELSE {}) \cup (IF type = None THEN {} ELSE {w})
     /\ job' = [job EXCEPT ![w] = IF type = None THEN Consume
                                  ELSE [Loop EXCEPT !.pc = "create", !.type = type]]
     /\ UNCHANGED <<lxdVars, sub, ops, counters, aborted>>

(* Operations.Create with the key reconcile:id:desired:version, the version that *)
(* the UPDATE returned.  The existing operation of that key is returned whatever *)
(* has become of it (whether there is one with an older version is left open); a *)
(* conflict with the index is ignored.                                            *)
CreateDrift(w) ==
  LET type == job[w].type
      d == Desired(type)
  IN /\ job[w].pc = "create"
     /\ \/ /\ w \in fresh => d \notin keys
           /\ IndexAllows(type) /\ FreeSlots # {} /\ CreateOperation(type)
           /\ keys' = keys \cup (IF w \in fresh THEN {d} ELSE {})
        \/ /\ (w \in fresh => d \in keys) \/ ~IndexAllows(type) \/ FreeSlots = {}
           /\ UNCHANGED <<keys, ops, cache>>
     /\ job' = [job EXCEPT ![w] = Consume] /\ fresh' = fresh \ {w}
     /\ UNCHANGED <<lxd, inst, sub, counters, aborted>>

(* -------------------------------------------------------------------------- *)
(* Workflow                                                                    *)
(* -------------------------------------------------------------------------- *)

(* The worker takes a queued operation, or finds none.  Claim, context and the  *)
(* first Progress.                                                               *)
Claim(w) ==
  /\ job[w].pc = "consume"
  /\ IF \E s \in Slots : ops[s].status = "queued"
     THEN \E s \in Slots :
            /\ ops[s].status = "queued"
            /\ ops' = [ops EXCEPT ![s].status = "running", ![s].stale = FALSE]
            /\ job' = [job EXCEPT ![w] = [Loop EXCEPT !.pc = "set", !.slot = s, !.type = ops[s].type,
                                                      !.attempt = ops[s].retries]]
     ELSE job' = [job EXCEPT ![w] = Loop] /\ UNCHANGED ops
  /\ UNCHANGED <<lxdVars, instRow, sub, counters, aborted>>

(* Progress writes to any operation that has not ended, whoever works on it. *)
Beat(s) == [ops EXCEPT ![s].status = "running", ![s].stale = FALSE]

(* setActionState, unconditional; then Progress, and the adapter looks into its *)
(* cache for a reinstall and reads the state of the machine.                     *)
SetActionState(w) ==
  LET s == job[w].slot
      type == job[w].type
      known == type = "reinstall" /\ CachedOperation(w, "reinstall", s)
  IN /\ job[w].pc = "set"
     /\ SetInstance(Desired(type), Transitional(type))
     /\ IF Open(s)
        THEN /\ ops' = Beat(s)
             /\ job' = [job EXCEPT ![w].pc = "call", ![w].plan = IF known THEN <<>> ELSE Plan(type)]
        ELSE job' = [job EXCEPT ![w] = Loop] /\ UNCHANGED ops
     /\ UNCHANGED <<lxdVars, sub, counters, aborted>>

(* processMessage on an error: another attempt if the error and the budget      *)
(* allow it; the budget is checked against the row as it was claimed.            *)
EndWithError(w, retryable) ==
  LET s == job[w].slot IN
  /\ ops' = IF ~Open(s) THEN ops
            ELSE IF retryable /\ job[w].attempt < MaxRetries
                 THEN [ops EXCEPT ![s].status = "queued", ![s].retries = @ + 1, ![s].stale = FALSE]
            ELSE [ops EXCEPT ![s] = Ended]
  /\ job' = [job EXCEPT ![w] = Loop]

(* The statement that records the error can fail too: the operation stays as it *)
(* is, and its heartbeat gets old.                                               *)
FailWith(w, retryable) ==
  \/ EndWithError(w, retryable)
  \/ job' = [job EXCEPT ![w] = Loop] /\ UNCHANGED ops

(* The context, the first Progress or the first Step fails, or setActionState   *)
(* does (this error alone is retryable): nothing is written to the row.          *)
ContextFails(w) ==
  LET s == job[w].slot IN
  /\ job[w].pc = "set" /\ Fault
  /\ \E retryable \in BOOLEAN : FailWith(w, retryable)
  /\ aborted' = (aborted \/ (Open(s) /\ ops'[s].status = "ended"))
  /\ UNCHANGED <<lxdVars, instRow, sub>>

(* setActionState has written to the row; its answer is lost, or Resolve fails  *)
(* (retryable), or Progress or Step does (not retryable).                        *)
SetActionFails(w) ==
  /\ job[w].pc = "set" /\ Fault
  /\ SetInstance(Desired(job[w].type), Transitional(job[w].type))
  /\ \E retryable \in BOOLEAN : FailWith(w, retryable)
  /\ UNCHANGED <<lxdVars, sub, aborted>>

Skipped(w) == Head(job[w].plan) # "rebuild" /\ CachedOperation(w, Head(job[w].plan), job[w].slot)

(* The next request of the plan, if the cache does not know it as done. *)
Request(w) ==
  /\ job[w].pc = "call" /\ job[w].plan # <<>>
  /\ IF Skipped(w) THEN job' = [job EXCEPT ![w].plan = Tail(@)] /\ UNCHANGED <<lxd, ops>>
     ELSE IF Accepts(Head(job[w].plan))
          THEN Begin(w, Head(job[w].plan)) /\ job' = [job EXCEPT ![w].pc = "wait"] /\ UNCHANGED ops
     ELSE (\E retryable \in BOOLEAN : EndWithError(w, retryable)) /\ UNCHANGED lxd
  /\ UNCHANGED <<cache, instRow, sub, counters, aborted>>

(* The connection breaks, before or after the request has reached LXD. *)
RequestFails(w) ==
  /\ job[w].pc = "call" /\ job[w].plan # <<>> /\ ~Skipped(w) /\ Fault
  /\ \/ UNCHANGED lxd
     \/ Accepts(Head(job[w].plan)) /\ Begin(w, Head(job[w].plan))
  /\ FailWith(w, TRUE)
  /\ UNCHANGED <<cache, instRow, sub, aborted>>

Wait(w) ==
  /\ job[w].pc = "wait" /\ WaitEnds(w)
  /\ StoreOperation(w, {<<Head(job[w].plan), job[w].slot>>} \ {<<"rebuild", job[w].slot>>})
  /\ job' = [job EXCEPT ![w].pc = "call", ![w].plan = Tail(@)]
  /\ UNCHANGED <<lxd, tables, counters, aborted>>

(* The wait ends without an answer, and the operation goes on; or the operation *)
(* has failed.                                                                   *)
WaitFails(w) ==
  /\ job[w].pc = "wait" /\ Fault
  /\ \/ UNCHANGED lxd /\ FailWith(w, TRUE)
     \/ /\ ~WaitEnds(w)
        /\ lxd' = [lxd EXCEPT !.act = None, !.owner = None]
        /\ \E retryable \in BOOLEAN : FailWith(w, retryable)
  /\ UNCHANGED <<cache, instRow, sub, aborted>>

(* storeOperation of a reinstall, at the end of its requests. *)
StoreReinstall(w) ==
  IF job[w].type = "reinstall" THEN StoreOperation(w, {<<"reinstall", job[w].slot>>})
  ELSE UNCHANGED cache

(* Progress, GetInstance, and the comparison with the expected state. *)
Verify(w) ==
  LET s == job[w].slot IN
  /\ job[w].pc = "call" /\ job[w].plan = <<>>
  /\ StoreReinstall(w)
  /\ IF ~Open(s) THEN job' = [job EXCEPT ![w] = Loop] /\ UNCHANGED ops
     ELSE IF State # Expected(job[w].type) THEN EndWithError(w, TRUE)
     ELSE job' = [job EXCEPT ![w].pc = "finish", ![w].state = State] /\ ops' = Beat(s)
  /\ UNCHANGED <<lxd, instRow, sub, counters, aborted>>

(* Step, Progress (not retryable) or GetInstance fails. *)
VerifyFails(w) ==
  /\ job[w].pc = "call" /\ job[w].plan = <<>> /\ Fault
  /\ StoreReinstall(w)
  /\ \E retryable \in BOOLEAN : FailWith(w, retryable)
  /\ UNCHANGED <<lxd, instRow, sub, aborted>>

SetObserved(w) ==
  SetInstanceObservedState(IF job[w].type = "suspend" THEN "suspended" ELSE job[w].state)

(* setObserved, unconditional; then Step, Progress and Succeed. *)
Finish(w) ==
  /\ job[w].pc = "finish"
  /\ SetObserved(w)
  /\ ops' = [ops EXCEPT ![job[w].slot] = Ended]
  /\ job' = [job EXCEPT ![w] = Loop]
  /\ UNCHANGED <<lxdVars, sub, counters, aborted>>

(* setObserved fails (retryable), with or without having written; or Step or    *)
(* Progress does (not retryable), or Succeed (nothing is recorded).              *)
FinishFails(w) ==
  /\ job[w].pc = "finish" /\ Fault
  /\ \/ UNCHANGED instRow /\ FailWith(w, TRUE)
     \/ SetObserved(w) /\ \E retryable \in BOOLEAN : FailWith(w, retryable)
  /\ UNCHANGED <<lxdVars, sub, aborted>>

(* -------------------------------------------------------------------------- *)
(* Time and faults                                                             *)
(* -------------------------------------------------------------------------- *)

(* Two minutes pass without Progress: the worker of the operation is dead, or   *)
(* it is alive and waits for the provider (a reinstall waits up to eight times). *)
HeartbeatExpires(s) ==
  /\ ops[s].status = "running" /\ ~ops[s].stale
  /\ IF \E w \in Workers : Executing(w, s) THEN Fault ELSE UNCHANGED counters
  /\ ops' = [ops EXCEPT ![s].stale = TRUE]
  /\ UNCHANGED <<lxdVars, instRow, sub, job, aborted>>

Crash(w) ==
  /\ job[w].pc # "loop" /\ Fault
  /\ job' = [job EXCEPT ![w] = Loop] /\ fresh' = fresh \ {w}
  /\ cache' = [cache EXCEPT ![w] = {}]
  /\ UNCHANGED <<lxd, inst, keys, sub, ops, aborted>>

GuestStops ==
  /\ lxd.status = "Running" /\ lxd.act = None /\ Fault
  /\ lxd' = [lxd EXCEPT !.status = "Stopped"]
  /\ UNCHANGED <<cache, tables, job, aborted>>

LxdStep == LxdCompletes /\ UNCHANGED <<cache, tables, job, counters, aborted>>

RoundStep(w) ==
  StartRound(w) \/ SelectCandidate(w) \/ GetInstance(w) \/ StoreObserved(w) \/ CreateDrift(w)

WorkflowStep(w) ==
  Claim(w) \/ SetActionState(w) \/ Request(w) \/ Wait(w) \/ Verify(w) \/ Finish(w)

WorkerFault(w) ==
  \/ GetFails(w) \/ RoundFails(w) \/ ContextFails(w) \/ SetActionFails(w) \/ RequestFails(w)
  \/ WaitFails(w) \/ VerifyFails(w) \/ FinishFails(w) \/ Crash(w)

Next ==
  \/ \E type \in UserActions : InstanceAction(type)
  \/ LifecycleTransition \/ RenewSubscription
  \/ \E w \in Workers : RoundStep(w) \/ WorkflowStep(w) \/ WorkerFault(w)
  \/ \E s \in Slots : HeartbeatExpires(s)
  \/ GuestStops
  \/ LxdStep

Spec == Init /\ [][Next]_vars

(* A worker's loop goes on, LXD ends what it has begun, and the heartbeat of an *)
(* operation that nobody works on gets old.                                      *)
Fairness ==
  /\ \A w \in Workers : WF_vars(RoundStep(w) \/ WorkflowStep(w))
  /\ \A s \in Slots : WF_vars(HeartbeatExpires(s) /\ UNCHANGED counters)
  /\ WF_vars(LxdStep)

FairSpec == Spec /\ Fairness

(* -------------------------------------------------------------------------- *)
(* Properties                                                                  *)
(* -------------------------------------------------------------------------- *)

Overlap ==
  \E v, w \in Workers :
    /\ job[v].pc \in {"select", "get", "store", "create"}
    /\ job[w].pc \in {"set", "call", "wait", "finish"}

FollowsSubscription ==
  /\ sub = "suspended" => inst.desired = "suspended"
  /\ sub = "active" => inst.desired # "suspended"

MachineFollows == State = IF inst.desired = "running" THEN "running" ELSE "stopped"

(* An operation that will move the machine to d. *)
Underway(d) == \E s \in Slots : Open(s) /\ Desired(ops[s].type) = d

(* The key with which the reconciler would answer a difference is taken by an   *)
(* operation that has ended.                                                     *)
DeadKey == inst.desired \in keys /\ ~Underway(inst.desired)

(* Once requests, payments and faults have ended, the instance comes to rest:   *)
(* the desired state follows the subscription for good, and the machine follows *)
(* the desired state for good, whatever failed halfway and whatever LXD did      *)
(* behind the adapter's back, except for one thing: the key of a difference may  *)
(* be dead (KeyIsLive says when).  The condition on overlaps is needed: a round  *)
(* that has read the row before an operation of another worker and compares      *)
(* after it can undo that operation, again and again.                            *)
Converges == []<>Overlap \/ <>[](FollowsSubscription /\ (MachineFollows \/ DeadKey))

(* The key of the reconciler's operation holds the version of the row, so an    *)
(* ended operation could stand in the way of the next one for ever.  It does    *)
(* not, because executing it changes the version: a key with the current version *)
(* belongs to an operation that has not ended.  There are two exceptions: the    *)
(* workflow's own statements before that change failed (aborted), or there were  *)
(* more faults than an operation has retries, for RecoverStuck ends an operation *)
(* whose workers die, retry after retry, before they write to the row.           *)
KeyIsLive ==
  ~aborted /\ faults <= MaxRetries =>
    \A d \in keys : Underway(d)
================================================================================
