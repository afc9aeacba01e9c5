----------------------------- MODULE Provision -----------------------------
(***************************************************************************)
(* How a paid purchase becomes running instances: the trigger consumer      *)
(* that reacts to payment.succeeded (provision/trigger.go), the             *)
(* transaction that creates subscriptions, instances and operations         *)
(* (EnsureForPaidOrder), the provision workflow that workers execute        *)
(* (provision/workflow.go) and the transaction that ends it (Finalize).     *)
(*                                                                          *)
(* One order of several items, and workers that each run one processor at a *)
(* time.  How operations are queued, retried and recovered is the subject   *)
(* of OperationDelivery: here an operation that waits for a retry is queued *)
(* already.  A transaction's writes are visible when it commits; it waits   *)
(* for rows that another one has locked, and PostgreSQL ends one of two     *)
(* that wait for each other.                                                *)
(***************************************************************************)
EXTENDS Integers, FiniteSets

CONSTANTS
  Items,      \* the purchased items, 1 .. quantity
  Workers,    \* worker processes
  Nodes,      \* nodes with capacity for the items
  Entries,    \* entries of the domain-events stream that carry the payment
  MaxRetries, \* retry budget of an operation
  MaxFaults,  \* bound on crashes, failed statements and heartbeats that go stale
  None

VARIABLES
  order,      \* status of the order
  sub,        \* sub[i]: status of the subscription of item i
  inst,       \* inst[i]: observed state of its instance
  op,         \* op[i]: status of its provision operation
  retries,    \* retries[i]: retry_count of the operation
  resv,       \* resv[i]: status of the operation's reservation
  node,       \* node[i]: the node it was made on
  notices,    \* notices[i]: notifications that the instance is ready
  vm,         \* vm[i]: what the provider has for item i
  entry,      \* entry[e]: the consumer group's view of stream entry e
  orderLock,  \* the worker whose open transaction has the order's row
  subLock,    \* subLock[i], resvLock[i], nodeLock[n]: the same for those rows
  resvLock,
  nodeLock,
  pc,         \* where each worker is
  batch,      \* batch[w]: entries its trigger consumer has still to process
  item,       \* item[w]: the item whose operation it executes
  attempt,    \* attempt[w]: retry_count when it claimed the operation
  seen,       \* seen[w]: status of the subscription when the execution began
  completes,  \* completes[w]: whether its transaction completes the order
  faults

triggerVars == <<entry, batch>>
lockVars == <<orderLock, subLock, resvLock, nodeLock>>
execVars == <<item, attempt, seen, completes>>
rowVars == <<sub, inst, op, retries, resv, node, notices>>
vars == <<order, rowVars, vm, triggerVars, lockVars, pc, execVars, faults>>

ASSUME ProvisionAssumption ==
  /\ MaxRetries \in Nat /\ MaxFaults \in Nat
  /\ None \notin Items \union Workers \union Nodes

Terminal == {"succeeded", "failed"}

Held == {"reserved", "committed"}

(* The payment has been captured: the order is paid. *)
Init ==
  /\ order = "paid"
  /\ sub = [i \in Items |-> "none"]
  /\ inst = [i \in Items |-> "none"]
  /\ op = [i \in Items |-> "none"]
  /\ retries = [i \in Items |-> 0]
  /\ resv = [i \in Items |-> "none"]
  /\ node = [i \in Items |-> None]
  /\ notices = [i \in Items |-> 0]
  /\ vm = [i \in Items |-> "absent"]
  /\ entry = [e \in Entries |-> "unpublished"]
  /\ orderLock = None
  /\ subLock = [i \in Items |-> None]
  /\ resvLock = [i \in Items |-> None]
  /\ nodeLock = [n \in Nodes |-> None]
  /\ pc = [w \in Workers |-> "idle"]
  /\ batch = [w \in Workers |-> {}]
  /\ item = [w \in Workers |-> None]
  /\ attempt = [w \in Workers |-> 0]
  /\ seen = [w \in Workers |-> "none"]
  /\ completes = [w \in Workers |-> FALSE]
  /\ faults = 0

-----------------------------------------------------------------------------
Goto(w, where) == pc' = [pc EXCEPT ![w] = where]

Unlocked(lock, w) == [x \in DOMAIN lock |-> IF lock[x] = w THEN None ELSE lock[x]]

Unlock(w) ==
  /\ orderLock' = IF orderLock = w THEN None ELSE orderLock
  /\ subLock' = Unlocked(subLock, w)
  /\ resvLock' = Unlocked(resvLock, w)
  /\ nodeLock' = Unlocked(nodeLock, w)

(* Whatever w was doing is over. *)
Stop(w) ==
  /\ Goto(w, "idle")
  /\ Unlock(w)
  /\ batch' = [batch EXCEPT ![w] = {}]
  /\ item' = [item EXCEPT ![w] = None]
  /\ attempt' = [attempt EXCEPT ![w] = 0]
  /\ seen' = [seen EXCEPT ![w] = "none"]
  /\ completes' = [completes EXCEPT ![w] = FALSE]

-----------------------------------------------------------------------------
(* The trigger                                                              *)

(* The outbox publishes the payment event, at least once. *)
Publish(e) ==
  /\ entry[e] = "unpublished"
  /\ entry' = [entry EXCEPT ![e] = "new"]
  /\ UNCHANGED <<order, rowVars, vm, batch, lockVars, pc, execVars, faults>>

(* XREADGROUP with ">": entries never delivered before, and no others. *)
ReadTrigger(w) ==
  LET new == {e \in Entries : entry[e] = "new"} IN
  /\ pc[w] = "idle"
  /\ new # {}
  /\ entry' = [e \in Entries |-> IF e \in new THEN "pending" ELSE entry[e]]
  /\ batch' = [batch EXCEPT ![w] = new]
  /\ Goto(w, "trigger")
  /\ UNCHANGED <<order, rowVars, vm, lockVars, execVars, faults>>

(* Mutant: an order that is not being fulfilled yet counts as not ready, and  *)
(* its event is acknowledged.                                                *)
EnsureKnown(w) ==
  /\ pc[w] = "trigger"
  /\ orderLock = None
  /\ IF order = "paid" THEN Goto(w, "ack") /\ UNCHANGED orderLock
     ELSE Goto(w, "ensure") /\ orderLock' = w
  /\ UNCHANGED <<order, rowVars, vm, triggerVars, subLock, resvLock, nodeLock, execVars, faults>>

(* FOR UPDATE of the order, which is paid. *)
GetPaidPurchaseForProvision(w) ==
  /\ orderLock = None
  /\ orderLock' = w

EnsureBegin(w) ==
  /\ pc[w] = "trigger"
  /\ GetPaidPurchaseForProvision(w)
  /\ Goto(w, "ensure")
  /\ UNCHANGED <<order, rowVars, vm, triggerVars, subLock, resvLock, nodeLock, execVars, faults>>

Missing(rows) == {i \in Items : rows[i] = "none"}

(* ON CONFLICT updates the subscription in place: one that another            *)
(* transaction is activating is waited for.                                   *)
CreatePurchaseSubscription ==
  /\ \A i \in Items : subLock[i] = None
  /\ sub' = [i \in Items |-> IF i \in Missing(sub) THEN "pending" ELSE sub[i]]

CreatePendingInstance ==
  inst' = [i \in Items |-> IF i \in Missing(inst) THEN "pending" ELSE inst[i]]

(* For the items with no operation under their idempotency key. *)
CreateOperation ==
  op' = [i \in Items |-> IF i \in Missing(op) THEN "queued" ELSE op[i]]

(* Mutant: whatever its status. *)
FulfillingAlways(status) == "fulfilling"

(* MarkOrderFulfilling *)
Fulfilling(status) == IF status = "paid" THEN "fulfilling" ELSE status

(* What is missing is created. *)
EnsureCommit(w) ==
  /\ pc[w] = "ensure"
  /\ CreatePurchaseSubscription
  /\ CreatePendingInstance
  /\ CreateOperation
  /\ order' = Fulfilling(order)
  /\ Unlock(w)
  /\ Goto(w, "ack")
  /\ UNCHANGED <<retries, resv, node, notices, vm, triggerVars, execVars, faults>>

(* XACK of the entry processed. *)
Ack(w) ==
  /\ pc[w] = "ack"
  /\ \E e \in batch[w] :
       /\ entry' = [entry EXCEPT ![e] = "acked"]
       /\ batch' = [batch EXCEPT ![w] = @ \ {e}]
       /\ Goto(w, IF batch[w] = {e} THEN "idle" ELSE "trigger")
  /\ UNCHANGED <<order, rowVars, vm, lockVars, execVars, faults>>

-----------------------------------------------------------------------------
(* The workflow                                                             *)

Open(i) == op[i] \notin Terminal

(* Progress: whoever reports it, an operation that is not finished runs. *)
Progressed(i) == [op EXCEPT ![i] = IF Open(i) THEN "running" ELSE @]

(* What Execute reads before it starts, and uses until it ends. *)
GetProvisionContext(w, i) ==
  /\ item' = [item EXCEPT ![w] = i]
  /\ seen' = [seen EXCEPT ![w] = sub[i]]

(* Claim, Context and the first Progress of Execute. *)
Begin(w, i) ==
  /\ pc[w] = "idle"
  /\ op[i] = "queued"
  /\ op' = [op EXCEPT ![i] = "running"]
  /\ GetProvisionContext(w, i)
  /\ attempt' = [attempt EXCEPT ![w] = retries[i]]
  /\ Goto(w, "reserve")
  /\ UNCHANGED <<order, sub, inst, retries, resv, node, notices, vm, triggerVars, lockVars,
                 completes, faults>>

(* GetResourceReservationByOperation finds one, whatever its status. *)
HasReservation(i) == resv[i] # "none"

CreateResourceReservation(i, n) ==
  /\ resv' = [resv EXCEPT ![i] = "reserved"]
  /\ node' = [node EXCEPT ![i] = n]

(* Scheduler.Reserve returns the reservation the operation has, whatever its *)
(* status, or locks the candidate nodes and makes one; or capacity is        *)
(* exhausted.                                                                *)
Reserve(w) ==
  LET i == item[w] IN
  /\ pc[w] = "reserve"
  /\ \/ /\ HasReservation(i)
        /\ Goto(w, "place")
        /\ UNCHANGED <<op, resv, node>>
     \/ /\ ~HasReservation(i)
        /\ \A n \in Nodes : nodeLock[n] = None
        /\ \E n \in Nodes : CreateResourceReservation(i, n)
        /\ Goto(w, "place")
        /\ UNCHANGED op
     \/ /\ ~HasReservation(i)
        /\ op' = Progressed(i)
        /\ Goto(w, "retry")
        /\ UNCHANGED <<resv, node>>
  /\ UNCHANGED <<order, sub, inst, retries, notices, vm, triggerVars, lockVars, execVars, faults>>

(* SetInstancePlacement *)
Placed(state) ==
  IF state \in {"pending", "provisioning", "unknown", "error"} THEN "provisioning" ELSE state

(* SetPlacement, and the Progress that a finished operation refuses.         *)
Place(w) ==
  LET i == item[w] IN
  /\ pc[w] = "place"
  /\ inst' = [inst EXCEPT ![i] = Placed(@)]
  /\ \/ /\ Open(i)
        /\ op' = Progressed(i)
        /\ Goto(w, "create")
        /\ UNCHANGED <<batch, lockVars, execVars>>
     \/ /\ ~Open(i)
        /\ Stop(w)
        /\ UNCHANGED op
  /\ UNCHANGED <<order, sub, retries, resv, node, notices, vm, entry, faults>>

(* CreateInstance is idempotent.  It succeeds; or fails and may be retried,  *)
(* with the instance created or not; or fails for good.                      *)
CreateInstance(w) ==
  LET i == item[w]
      created == [vm EXCEPT ![i] = IF @ = "absent" THEN "starting" ELSE @] IN
  /\ pc[w] = "create"
  /\ \/ vm' = created /\ Goto(w, "get")
     \/ vm' \in {vm, created} /\ Goto(w, "retry")
     \/ vm' = vm /\ Goto(w, "seterror")
  /\ UNCHANGED <<order, rowVars, triggerVars, lockVars, execVars, faults>>

(* GetInstance, which may fail either way, and the check that it runs.       *)
GetInstance(w) ==
  LET i == item[w] IN
  /\ pc[w] = "get"
  /\ \/ vm[i] = "running" /\ Goto(w, "persist") /\ UNCHANGED op
     \/ vm[i] # "running" /\ Goto(w, "retry") /\ op' = Progressed(i)
     \/ Goto(w, "retry") /\ UNCHANGED op
     \/ Goto(w, "seterror") /\ UNCHANGED op
  /\ UNCHANGED <<order, sub, inst, retries, resv, node, notices, vm, triggerVars, lockVars,
                 execVars, faults>>

SetInstanceProviderResult(i, state) == inst' = [inst EXCEPT ![i] = state]

PersistResult(w) ==
  /\ pc[w] = "persist"
  /\ SetInstanceProviderResult(item[w], "running")
  /\ Goto(w, "finalize")
  /\ UNCHANGED <<order, sub, op, retries, resv, node, notices, vm, triggerVars, lockVars,
                 execVars, faults>>

-----------------------------------------------------------------------------
(* Finalize, one transaction                                                *)

Finalizing == {"finalize", "activate", "complete", "commit"}

LockResourceReservation(w, i) ==
  /\ resvLock[i] = None
  /\ resvLock' = [resvLock EXCEPT ![i] = w]

(* LockResourceReservation, then CommitNodeReservation, which locks the node. *)
(* What was given back cannot be committed.                                   *)
FinalizeReservation(w) ==
  LET i == item[w] IN
  /\ pc[w] = "finalize"
  /\ \/ /\ resv[i] \in Held
        /\ LockResourceReservation(w, i)
        /\ resv[i] = "reserved" => nodeLock[node[i]] = None
        /\ nodeLock' = IF resv[i] = "reserved" THEN [nodeLock EXCEPT ![node[i]] = w] ELSE nodeLock
        /\ Goto(w, IF seen[w] = "active" THEN "complete" ELSE "activate")
     \/ /\ resv[i] \notin Held
        /\ resvLock[i] = None
        /\ Goto(w, "retry")
        /\ UNCHANGED <<resvLock, nodeLock>>
  /\ UNCHANGED <<order, rowVars, vm, triggerVars, orderLock, subLock, execVars, faults>>

(* ActivateProvisionedSubscription, not yet committed. *)
FinalizeActivate(w) ==
  LET i == item[w] IN
  /\ pc[w] = "activate"
  /\ subLock[i] = None
  /\ subLock' = [subLock EXCEPT ![i] = w]
  /\ Goto(w, "complete")
  /\ UNCHANGED <<order, rowVars, vm, triggerVars, orderLock, resvLock, nodeLock, execVars, faults>>

(* Mutant: those that are being activated by others too. *)
ActiveToAnyone(w) == {i \in Items : sub[i] = "active" \/ subLock[i] # None}

(* The subscriptions that are active to the transaction of w: those that      *)
(* committed, and its own.                                                    *)
ActiveTo(w) == {i \in Items : sub[i] = "active" \/ subLock[i] = w}

(* MarkPurchaseOrderFulfilledIfReady updates the order, and locks it, only    *)
(* when every subscription is active.                                         *)
FinalizeOrder(w) ==
  /\ pc[w] = "complete"
  /\ \/ /\ ActiveTo(w) = Items
        /\ orderLock = None
        /\ orderLock' = w
        /\ completes' = [completes EXCEPT ![w] = TRUE]
     \/ /\ ActiveTo(w) # Items
        /\ UNCHANGED <<orderLock, completes>>
  /\ Goto(w, "commit")
  /\ UNCHANGED <<order, rowVars, vm, triggerVars, subLock, resvLock, nodeLock, item, attempt, seen, faults>>

(* Mutant: a new notification each time. *)
NotifyAgain(w, i) ==
  notices' = [notices EXCEPT ![i] = IF seen[w] = "active" THEN @ ELSE @ + 1]

(* The notification's id is derived from the instance, ON CONFLICT DO NOTHING; *)
(* an execution that began with an active subscription makes none.             *)
CreateProvisionNotification(w, i) ==
  notices' = [notices EXCEPT ![i] = IF seen[w] = "active" \/ @ # 0 THEN @ ELSE 1]

FinalizeCommit(w) ==
  LET i == item[w] IN
  /\ pc[w] = "commit"
  /\ resv' = [resv EXCEPT ![i] = "committed"]
  /\ sub' = [sub EXCEPT ![i] = "active"]
  /\ order' = IF completes[w] THEN "fulfilled" ELSE order
  /\ CreateProvisionNotification(w, i)
  /\ Unlock(w)
  /\ Goto(w, "succeed")
  /\ UNCHANGED <<inst, op, retries, node, vm, triggerVars, execVars, faults>>

-----------------------------------------------------------------------------
(* The end of an execution                                                  *)

(* handleProviderError for an error that may not be retried: SetError, then   *)
(* Release, then Fail, each a transaction.                                    *)
SetError(w) ==
  /\ pc[w] = "seterror"
  /\ inst' = [inst EXCEPT ![item[w]] = IF @ # "running" THEN "error" ELSE @]
  /\ Goto(w, "release")
  /\ UNCHANGED <<order, sub, op, retries, resv, node, notices, vm, triggerVars, lockVars,
                 execVars, faults>>

(* Mutant: committed capacity too. *)
ReleasedAlways(status) == "released"

Released(status) == IF status = "reserved" THEN "released" ELSE status

Release(w) ==
  LET i == item[w] IN
  /\ pc[w] = "release"
  /\ resvLock[i] = None
  /\ resv[i] = "reserved" => nodeLock[node[i]] = None
  /\ resv' = [resv EXCEPT ![i] = Released(@)]
  /\ Goto(w, "fail")
  /\ UNCHANGED <<order, sub, inst, op, retries, node, notices, vm, triggerVars, lockVars,
                 execVars, faults>>

(* Succeed or Fail, which a finished operation refuses. *)
End(w, status) ==
  /\ op' = [op EXCEPT ![item[w]] = IF Open(item[w]) THEN status ELSE @]
  /\ Stop(w)
  /\ UNCHANGED <<order, sub, inst, retries, resv, node, notices, vm, entry, faults>>

Succeed(w) == pc[w] = "succeed" /\ End(w, "succeeded")

Fail(w) ==
  /\ \/ pc[w] = "fail"
     \/ pc[w] = "retry" /\ attempt[w] >= MaxRetries
  /\ End(w, "failed")

(* ScheduleOperationRetry, which a finished operation refuses; the operation  *)
(* is queued again when the retry is due.                                     *)
ScheduleOperationRetry(i) ==
  /\ op' = [op EXCEPT ![i] = IF Open(i) THEN "queued" ELSE @]
  /\ retries' = [retries EXCEPT ![i] = IF Open(i) THEN @ + 1 ELSE @]

ScheduleRetry(w) ==
  /\ pc[w] = "retry" /\ attempt[w] < MaxRetries
  /\ ScheduleOperationRetry(item[w])
  /\ Stop(w)
  /\ UNCHANGED <<order, sub, inst, resv, node, notices, vm, entry, faults>>

-----------------------------------------------------------------------------
(* What happens around the workers                                          *)

Executed(i) == \E w \in Workers : item[w] = i

(* Mutant: only what has retries left is recovered. *)
RecoverRetriable(i) ==
  /\ op[i] = "running" /\ retries[i] < MaxRetries
  /\ Executed(i) => faults < MaxFaults
  /\ faults' = IF Executed(i) THEN faults + 1 ELSE faults
  /\ op' = [op EXCEPT ![i] = "queued"]
  /\ retries' = [retries EXCEPT ![i] = @ + 1]
  /\ UNCHANGED <<order, sub, inst, resv, node, notices, vm, triggerVars, lockVars, pc, execVars>>

(* RecoverStuck, for an operation without a recent heartbeat: nobody executes *)
(* it, or whoever does has been silent for too long.                          *)
RecoverStuck(i) ==
  /\ op[i] = "running"
  /\ Executed(i) => faults < MaxFaults
  /\ faults' = IF Executed(i) THEN faults + 1 ELSE faults
  /\ op' = [op EXCEPT ![i] = IF retries[i] < MaxRetries THEN "queued" ELSE "failed"]
  /\ retries' = [retries EXCEPT ![i] = IF @ < MaxRetries THEN @ + 1 ELSE @]
  /\ UNCHANGED <<order, sub, inst, resv, node, notices, vm, triggerVars, lockVars, pc, execVars>>

(* expireReservations *)
Expire(i) ==
  /\ ~Open(i) /\ resv[i] = "reserved" /\ resvLock[i] = None /\ nodeLock[node[i]] = None
  /\ resv' = [resv EXCEPT ![i] = "expired"]
  /\ UNCHANGED <<order, sub, inst, op, retries, node, notices, vm, triggerVars, lockVars, pc,
                 execVars, faults>>

(* The provider starts what it created. *)
Boot(i) ==
  /\ vm[i] = "starting"
  /\ vm' = [vm EXCEPT ![i] = "running"]
  /\ UNCHANGED <<order, rowVars, triggerVars, lockVars, pc, execVars, faults>>

(* w crashes, or its trigger consumer returns an error. *)
Crash(w) ==
  /\ pc[w] # "idle"
  /\ faults < MaxFaults
  /\ faults' = faults + 1
  /\ Stop(w)
  /\ UNCHANGED <<order, rowVars, vm, entry>>

(* A statement that an execution makes fails in the database.  The error of   *)
(* Context, Step or Progress, which is not retryable, fails the operation; an *)
(* error of Reserve, of the placement, of SetProviderResult or of Finalize,   *)
(* which rolls back, is retried; those of SetError and Release are ignored.   *)
StatementFails(w) ==
  LET i == item[w] IN
  /\ \/ /\ pc[w] \in {"reserve", "place", "create", "get", "persist", "finalize", "succeed"}
        /\ Goto(w, "fail")
     \/ /\ pc[w] \in {"reserve", "place", "persist"} \union Finalizing
        /\ Goto(w, "retry")
     \/ pc[w] = "seterror" /\ Goto(w, "release")
     \/ pc[w] = "release" /\ Goto(w, "fail")
  /\ inst' = inst \/ (pc[w] = "place" /\ inst' = [inst EXCEPT ![i] = Placed(@)])
  /\ Unlock(w)
  /\ completes' = [completes EXCEPT ![w] = FALSE]
  /\ faults < MaxFaults /\ faults' = faults + 1
  /\ UNCHANGED <<order, sub, op, retries, resv, node, notices, vm, triggerVars, item, attempt,
                 seen>>

(* Finalize of w has a subscription and waits for the order, which            *)
(* EnsureForPaidOrder of v has while it waits for that subscription.          *)
Deadlocked(w, v) ==
  /\ pc[w] = "complete" /\ ActiveTo(w) = Items /\ orderLock = v
  /\ pc[v] = "ensure" /\ \E i \in Items : subLock[i] = w

(* PostgreSQL ends one of the two: Finalize is retried, the trigger stops.    *)
DeadlockVictim(w, v) ==
  /\ Deadlocked(w, v)
  /\ \/ /\ Unlock(w)
        /\ Goto(w, "retry")
        /\ UNCHANGED <<batch, execVars>>
     \/ Stop(v)
  /\ UNCHANGED <<order, rowVars, vm, entry, faults>>

-----------------------------------------------------------------------------
TriggerStep(w) == ReadTrigger(w) \/ EnsureBegin(w) \/ EnsureCommit(w) \/ Ack(w)

WorkflowStep(w) ==
  \/ Reserve(w) \/ Place(w) \/ CreateInstance(w) \/ GetInstance(w) \/ PersistResult(w)
  \/ FinalizeReservation(w) \/ FinalizeActivate(w) \/ FinalizeOrder(w) \/ FinalizeCommit(w)
  \/ SetError(w) \/ Release(w) \/ Succeed(w) \/ Fail(w) \/ ScheduleRetry(w)

Next ==
  \/ \E e \in Entries : Publish(e)
  \/ \E w \in Workers : TriggerStep(w) \/ WorkflowStep(w) \/ StatementFails(w) \/ Crash(w)
  \/ \E w \in Workers, i \in Items : Begin(w, i)
  \/ \E w, v \in Workers : DeadlockVictim(w, v)
  \/ \E i \in Items : RecoverStuck(i) \/ Expire(i) \/ Boot(i)

Spec == Init /\ [][Next]_vars

(* The outbox delivers the event; workers keep working; the queue hands out   *)
(* operations and the reconciler recovers those nobody executes.              *)
Fairness ==
  /\ WF_vars(\E e \in Entries : Publish(e))
  /\ \A w \in Workers : WF_vars(TriggerStep(w)) /\ WF_vars(WorkflowStep(w))
  /\ \A w, v \in Workers : WF_vars(DeadlockVictim(w, v))
  /\ \A i \in Items :
       /\ WF_vars(\E w \in Workers : Begin(w, i))
       /\ WF_vars(~Executed(i) /\ RecoverStuck(i))

FairSpec == Spec /\ Fairness

-----------------------------------------------------------------------------
(* Properties                                                               *)

(* Every variable stays in its type. *)
TypeOK ==
  /\ order \in {"paid", "fulfilling", "fulfilled"}
  /\ sub \in [Items -> {"none", "pending", "active"}]
  /\ inst \in [Items -> {"none", "pending", "provisioning", "running", "error"}]
  /\ op \in [Items -> {"none", "queued", "running"} \union Terminal]
  /\ retries \in [Items -> Nat]
  /\ resv \in [Items -> {"none", "released", "expired"} \union Held]
  /\ node \in [Items -> Nodes \union {None}]
  /\ notices \in [Items -> Nat]
  /\ vm \in [Items -> {"absent", "starting", "running"}]
  /\ entry \in [Entries -> {"unpublished", "new", "pending", "acked"}]
  /\ orderLock \in Workers \union {None}
  /\ subLock \in [Items -> Workers \union {None}]
  /\ resvLock \in [Items -> Workers \union {None}]
  /\ nodeLock \in [Nodes -> Workers \union {None}]
  /\ pc \in [Workers -> {"idle", "trigger", "ensure", "ack", "reserve", "place", "create", "get",
                         "persist", "finalize", "activate", "complete", "commit", "succeed",
                         "seterror", "release", "fail", "retry"}]
  /\ batch \in [Workers -> SUBSET Entries]
  /\ item \in [Workers -> Items \union {None}]
  /\ attempt \in [Workers -> Nat]
  /\ seen \in [Workers -> {"none", "pending", "active"}]
  /\ completes \in [Workers -> BOOLEAN]
  /\ faults \in 0 .. MaxFaults

(* A subscription is active exactly when its capacity is committed, and only   *)
(* with an instance that runs at the provider and is known to run: no stale    *)
(* worker's error, release or placement takes any of it back, and no crash     *)
(* leaves committed capacity without a subscription.  (While the order is      *)
(* provisioned; what its owner does with an instance later is not here.)       *)
ActiveIsBacked ==
  \A i \in Items :
    /\ sub[i] = "active" <=> resv[i] = "committed"
    /\ sub[i] = "active" => vm[i] = "running" /\ inst[i] = "running"

(* The user is told once that an instance is ready, in the transaction that    *)
(* activates its subscription, though two executions may both activate it.     *)
NotifiedOnce == \A i \in Items : notices[i] = IF sub[i] = "active" THEN 1 ELSE 0

(* The order is completed only when all of its subscriptions are active, and   *)
(* an operation succeeds only when its own is.                                 *)
CompletedIsActive ==
  /\ order = "fulfilled" => \A i \in Items : sub[i] = "active"
  /\ \A i \in Items : op[i] = "succeeded" => sub[i] = "active"

(* A payment event that is delivered again, at any time, undoes nothing: the   *)
(* order, its subscriptions and finished operations never go back.             *)
OnlyForward ==
  [][/\ order = "fulfilled" => order' = "fulfilled"
     /\ order' = "paid" => order = "paid"
     /\ \A i \in Items :
          /\ sub[i] = "active" => sub'[i] = "active"
          /\ op[i] \in Terminal => op'[i] = op[i]]_vars

(* Whatever crashes, goes stale, fails or deadlocks, an operation that was     *)
(* created ends.                                                               *)
OperationsEnd == \A i \in Items : op[i] # "none" ~> op[i] \in Terminal

(* An item of a paid order gets its operation, however often and to whomever   *)
(* the payment event is delivered, as long as no worker crashes or goes stale. *)
(* (A crash between reading the event and acknowledging it leaves the entry    *)
(* pending for ever: ProcessBatch never claims the entries of others.)         *)
PaidIsProvisioned == \A i \in Items : <>(op[i] # "none" \/ faults > 0)
=============================================================================
