-------------------------- MODULE Provision_proofs --------------------------
(***************************************************************************)
(* Proofs about Provision: an active subscription is backed by committed    *)
(* capacity and a running instance, its owner is told once, the order is    *)
(* completed only with all of its subscriptions active, and nothing of it   *)
(* is undone.                                                               *)
(***************************************************************************)
EXTENDS Provision, TLAPS

(* Where a worker executes an operation. *)
Executing == {"reserve", "place", "create", "get", "persist", "finalize", "activate", "complete",
              "commit", "succeed", "seterror", "release", "fail", "retry"}

(* From the moment the instance has been seen running until Finalize commits. *)
Persisting == {"persist", "finalize", "activate", "complete", "commit"}

-----------------------------------------------------------------------------
(* Types                                                                    *)

RowTypes ==
  /\ order \in {"paid", "fulfilling", "fulfilled"}
  /\ sub \in [Items -> {"none", "pending", "active"}]
  /\ inst \in [Items -> {"none", "pending", "provisioning", "running", "error"}]
  /\ op \in [Items -> {"none", "queued", "running"} \union Terminal]
  /\ retries \in [Items -> Nat]
  /\ resv \in [Items -> {"none", "released", "expired"} \union Held]
  /\ node \in [Items -> Nodes \union {None}]
  /\ notices \in [Items -> Nat]
  /\ vm \in [Items -> {"absent", "starting", "running"}]

LockTypes ==
  /\ orderLock \in Workers \union {None}
  /\ subLock \in [Items -> Workers \union {None}]
  /\ resvLock \in [Items -> Workers \union {None}]
  /\ nodeLock \in [Nodes -> Workers \union {None}]

WorkerTypes ==
  /\ pc \in [Workers -> {"idle", "trigger", "ensure", "ack"} \union Executing]
  /\ batch \in [Workers -> SUBSET Entries]
  /\ item \in [Workers -> Items \union {None}]
  /\ attempt \in [Workers -> Nat]
  /\ seen \in [Workers -> {"none", "pending", "active"}]
  /\ completes \in [Workers -> BOOLEAN]

OtherTypes ==
  /\ entry \in [Entries -> {"unpublished", "new", "pending", "acked"}]
  /\ faults \in 0 .. MaxFaults

(* TypeOK, part by part. *)
LEMMA TypeParts == TypeOK <=> RowTypes /\ LockTypes /\ WorkerTypes /\ OtherTypes
<1>1. {"idle", "trigger", "ensure", "ack"} \union Executing =
        {"idle", "trigger", "ensure", "ack", "reserve", "place", "create", "get",
         "persist", "finalize", "activate", "complete", "commit", "succeed",
         "seterror", "release", "fail", "retry"}
  BY DEF Executing
<1> QED
  BY <1>1, Zenon DEF TypeOK, RowTypes, LockTypes, WorkerTypes, OtherTypes

(* Stop resets what the worker knows and unlocks its rows. *)
LEMMA StopTypes ==
  ASSUME LockTypes, WorkerTypes, NEW w \in Workers, Stop(w)
  PROVE  LockTypes' /\ WorkerTypes'
<1>1. LockTypes'
  BY Zenon DEF LockTypes, Stop, Unlock, Unlocked
<1>2. WorkerTypes'
  BY Zenon DEF WorkerTypes, Stop, Goto
<1> QED
  BY <1>1, <1>2

(* Every step of the trigger preserves the types. *)
LEMMA TriggerTypes ==
  ASSUME TypeOK, NEW w \in Workers, TriggerStep(w)
  PROVE  TypeOK'
<1> USE DEF Goto, rowVars, lockVars, execVars
<1>0. RowTypes /\ LockTypes /\ WorkerTypes /\ OtherTypes
  BY TypeParts
<1> SUFFICES RowTypes' /\ LockTypes' /\ WorkerTypes' /\ OtherTypes'
  BY TypeParts, PTL
<1>1. CASE ReadTrigger(w)
  <2>1. RowTypes' /\ LockTypes'
    BY <1>0, <1>1, Zenon DEF ReadTrigger, RowTypes, LockTypes
  <2> QED
    BY <1>0, <1>1, <2>1, Zenon DEF ReadTrigger, WorkerTypes, OtherTypes
<1>2. CASE EnsureBegin(w)
  BY <1>0, <1>2, Zenon DEF EnsureBegin, GetPaidPurchaseForProvision, triggerVars,
                    RowTypes, LockTypes, WorkerTypes, OtherTypes
<1>3. CASE EnsureCommit(w)
  <2>1. RowTypes'
    BY <1>0, <1>3, Zenon DEF EnsureCommit, CreatePurchaseSubscription, CreatePendingInstance,
                      CreateOperation, Fulfilling, RowTypes
  <2>2. LockTypes'
    BY <1>0, <1>3, Zenon DEF EnsureCommit, Unlock, Unlocked, LockTypes
  <2> QED
    BY <1>0, <1>3, <2>1, <2>2, Zenon DEF EnsureCommit, triggerVars, WorkerTypes, OtherTypes
<1>4. CASE Ack(w)
  <2>1. RowTypes' /\ LockTypes'
    BY <1>0, <1>4, Zenon DEF Ack, RowTypes, LockTypes
  <2> QED
    BY <1>0, <1>4, <2>1, SMT, SMTT(30) DEF Ack, WorkerTypes, OtherTypes
<1> QED
  BY <1>1, <1>2, <1>3, <1>4 DEF TriggerStep

(* So does every step of the workflow up to Finalize. *)
LEMMA WorkflowTypes ==
  ASSUME TypeOK, NEW w \in Workers, pc[w] \in Executing => item[w] \in Items,
         \/ Reserve(w) \/ Place(w) \/ CreateInstance(w) \/ GetInstance(w) \/ PersistResult(w)
         \/ SetError(w) \/ Release(w) \/ Succeed(w) \/ Fail(w) \/ ScheduleRetry(w)
  PROVE  TypeOK'
<1> USE DEF Goto, triggerVars, rowVars, lockVars, execVars
<1>0. RowTypes /\ LockTypes /\ WorkerTypes /\ OtherTypes
  BY TypeParts
<1> SUFFICES RowTypes' /\ LockTypes' /\ WorkerTypes' /\ OtherTypes'
  BY TypeParts, PTL
<1>1. CASE Reserve(w)
  <2>1. RowTypes'
    BY <1>0, <1>1, SMT, SMTT(30) DEF Reserve, Executing, CreateResourceReservation, Progressed, Open, Held,
                      Terminal, RowTypes
  <2> QED
    BY <1>0, <1>1, <2>1, Zenon DEF Reserve, Executing, LockTypes, WorkerTypes, OtherTypes
<1>2. CASE Place(w)
  <2>1. RowTypes'
    BY <1>0, <1>2, Zenon DEF Place, Executing, Placed, Progressed, RowTypes
  <2>2. LockTypes' /\ WorkerTypes'
    <3>1. CASE Stop(w)
      BY <1>0, <3>1, StopTypes
    <3>2. CASE Goto(w, "create") /\ UNCHANGED <<batch, lockVars, execVars>>
      BY <1>0, <3>2, Zenon DEF Executing, LockTypes, WorkerTypes
    <3> QED
      BY <1>2, <3>1, <3>2, Zenon DEF Place
  <2> QED
    BY <1>0, <1>2, <2>1, <2>2, Zenon DEF Place, OtherTypes
<1>3. CASE CreateInstance(w)
  <2>1. RowTypes'
    BY <1>0, <1>3, SMT, SMTT(30) DEF CreateInstance, Executing, RowTypes
  <2> QED
    BY <1>0, <1>3, <2>1, Zenon DEF CreateInstance, Executing, LockTypes, WorkerTypes, OtherTypes
<1>4. CASE GetInstance(w)
  <2>1. RowTypes'
    BY <1>0, <1>4, SMT, SMTT(30) DEF GetInstance, Executing, Progressed, RowTypes
  <2> QED
    BY <1>0, <1>4, <2>1, Zenon DEF GetInstance, Executing, LockTypes, WorkerTypes, OtherTypes
<1>5. CASE PersistResult(w)
  BY <1>0, <1>5, Zenon DEF PersistResult, SetInstanceProviderResult, Executing, RowTypes, LockTypes,
                    WorkerTypes, OtherTypes
<1>6. CASE SetError(w)
  BY <1>0, <1>6, Zenon DEF SetError, Executing, RowTypes, LockTypes, WorkerTypes, OtherTypes
<1>7. CASE Release(w)
  BY <1>0, <1>7, Zenon DEF Release, Released, Executing, Held, RowTypes, LockTypes, WorkerTypes,
                    OtherTypes
<1>8. ASSUME NEW s \in Terminal, End(w, s), item[w] \in Items
      PROVE  RowTypes' /\ LockTypes' /\ WorkerTypes' /\ OtherTypes'
  <2>1. RowTypes'
    BY <1>0, <1>8, Zenon DEF End, RowTypes
  <2> QED
    BY <1>0, <1>8, <2>1, StopTypes, Zenon DEF End, OtherTypes
<1>9. CASE ScheduleRetry(w)
  <2>1. RowTypes'
    BY <1>0, <1>9, SMT, SMTT(30) DEF ScheduleRetry, ScheduleOperationRetry, Executing, RowTypes
  <2> QED
    BY <1>0, <1>9, <2>1, StopTypes, Zenon DEF ScheduleRetry, OtherTypes
<1> QED
  BY <1>1, <1>2, <1>3, <1>4, <1>5, <1>6, <1>7, <1>8, <1>9, Zenon DEF Succeed, Fail, Executing, Terminal

(* So does Finalize. *)
LEMMA FinalizeTypes ==
  ASSUME TypeOK, NEW w \in Workers, pc[w] \in Executing => item[w] \in Items,
         \/ FinalizeReservation(w) \/ FinalizeActivate(w) \/ FinalizeOrder(w) \/ FinalizeCommit(w)
  PROVE  TypeOK'
<1> USE DEF Goto, triggerVars, rowVars, execVars
<1>0. RowTypes /\ LockTypes /\ WorkerTypes /\ OtherTypes
  BY TypeParts
<1> SUFFICES RowTypes' /\ LockTypes' /\ WorkerTypes' /\ OtherTypes'
  BY TypeParts, PTL
<1>1. CASE FinalizeReservation(w)
  <2>1. LockTypes'
    BY <1>0, <1>1, Zenon DEF FinalizeReservation, LockResourceReservation, Executing, LockTypes
  <2>2. RowTypes'
    BY <1>0, <1>1, Zenon DEF FinalizeReservation, RowTypes
  <2> QED
    BY <1>0, <1>1, <2>1, <2>2, Zenon DEF FinalizeReservation, Executing, WorkerTypes, OtherTypes
<1>2. CASE FinalizeActivate(w)
  BY <1>0, <1>2, Zenon DEF FinalizeActivate, Executing, RowTypes, LockTypes, WorkerTypes, OtherTypes
<1>3. CASE FinalizeOrder(w)
  <2>1. completes' \in [Workers -> BOOLEAN]
    BY <1>0, <1>3, Zenon DEF FinalizeOrder, WorkerTypes
  <2>2. RowTypes' /\ LockTypes' /\ OtherTypes'
    BY <1>0, <1>3, Zenon DEF FinalizeOrder, RowTypes, LockTypes, OtherTypes
  <2> QED
    BY <1>0, <1>3, <2>1, <2>2, Zenon DEF FinalizeOrder, Executing, WorkerTypes
<1>4. CASE FinalizeCommit(w)
  <2>1. RowTypes'
    BY <1>0, <1>4, Zenon DEF FinalizeCommit, CreateProvisionNotification, Executing, Held, RowTypes
  <2>2. LockTypes'
    BY <1>0, <1>4, Zenon DEF FinalizeCommit, Unlock, Unlocked, LockTypes
  <2> QED
    BY <1>0, <1>4, <2>1, <2>2, Zenon DEF FinalizeCommit, Executing, WorkerTypes, OtherTypes
<1> QED
  BY <1>1, <1>2, <1>3, <1>4

(* A failed statement ends the execution, or is ignored. *)
LEMMA FailedStatement ==
  ASSUME NEW w \in Workers, StatementFails(w)
  PROVE  /\ pc[w] \in Executing
         /\ \E label \in {"fail", "retry", "release"} : Goto(w, label)
         /\ \/ inst' = inst
            \/ pc[w] = "place" /\ inst' = [inst EXCEPT ![item[w]] = Placed(@)]
         /\ Unlock(w) /\ completes' = [completes EXCEPT ![w] = FALSE]
         /\ faults < MaxFaults /\ faults' = faults + 1
         /\ UNCHANGED <<order, sub, op, retries, resv, node, notices, vm, entry, batch, item,
                        attempt, seen>>
<1>1. pc[w] \in Executing
  BY Zenon DEF StatementFails, Executing, Finalizing
<1>2. \E label \in {"fail", "retry", "release"} : Goto(w, label)
  BY Zenon DEF StatementFails
<1> QED
  BY <1>1, <1>2, Zenon DEF StatementFails, triggerVars

(* So does what happens around the workers. *)
LEMMA AroundTypes ==
  ASSUME TypeOK,
         \/ \E e \in Entries : Publish(e)
         \/ \E w \in Workers : (pc[w] \in Executing => item[w] \in Items) /\ StatementFails(w)
         \/ \E w \in Workers : Crash(w)
         \/ \E w \in Workers, i \in Items : Begin(w, i)
         \/ \E w, v \in Workers : DeadlockVictim(w, v)
         \/ \E i \in Items : RecoverStuck(i) \/ Expire(i) \/ Boot(i)
  PROVE  TypeOK'
<1> USE DEF Goto, triggerVars, rowVars, lockVars, execVars
<1>0. RowTypes /\ LockTypes /\ WorkerTypes /\ OtherTypes
  BY TypeParts
<1> SUFFICES RowTypes' /\ LockTypes' /\ WorkerTypes' /\ OtherTypes'
  BY TypeParts, PTL
<1>1. ASSUME NEW e \in Entries, Publish(e)
      PROVE  RowTypes' /\ LockTypes' /\ WorkerTypes' /\ OtherTypes'
  BY <1>0, <1>1, Zenon DEF Publish, RowTypes, LockTypes, WorkerTypes, OtherTypes
<1>2. ASSUME NEW w \in Workers, Crash(w)
      PROVE  RowTypes' /\ LockTypes' /\ WorkerTypes' /\ OtherTypes'
  <2>1. RowTypes'
    BY <1>0, <1>2, Zenon DEF Crash, RowTypes
  <2>2. OtherTypes'
    BY <1>0, <1>2, ProvisionAssumption, SMT, SMTT(30) DEF Crash, OtherTypes
  <2> QED
    BY <1>0, <1>2, <2>1, <2>2, StopTypes, Zenon DEF Crash
<1>3. ASSUME NEW w \in Workers, NEW i \in Items, Begin(w, i)
      PROVE  RowTypes' /\ LockTypes' /\ WorkerTypes' /\ OtherTypes'
  BY <1>0, <1>3, Zenon DEF Begin, GetProvisionContext, Executing, RowTypes, LockTypes, WorkerTypes,
                    OtherTypes
<1>4. ASSUME NEW w \in Workers, NEW v \in Workers, DeadlockVictim(w, v)
      PROVE  RowTypes' /\ LockTypes' /\ WorkerTypes' /\ OtherTypes'
  <2>1. RowTypes' /\ OtherTypes'
    BY <1>0, <1>4, Zenon DEF DeadlockVictim, RowTypes, OtherTypes
  <2>2. CASE Stop(v)
    BY <1>0, <2>1, <2>2, StopTypes
  <2>3. CASE Unlock(w) /\ Goto(w, "retry") /\ UNCHANGED <<batch, execVars>>
    BY <1>0, <2>1, <2>3, Zenon DEF Unlock, Unlocked, Executing, LockTypes, WorkerTypes
  <2> QED
    BY <1>4, <2>2, <2>3, Zenon DEF DeadlockVictim
<1>5. ASSUME NEW i \in Items, RecoverStuck(i)
      PROVE  RowTypes' /\ LockTypes' /\ WorkerTypes' /\ OtherTypes'
  <2>1. faults' \in 0 .. MaxFaults
    BY <1>0, <1>5, ProvisionAssumption, SMT, SMTT(30) DEF RecoverStuck, OtherTypes
  <2> QED
    BY <1>0, <1>5, <2>1, SMT, SMTT(30) DEF RecoverStuck, Terminal, RowTypes, LockTypes, WorkerTypes, OtherTypes
<1>6. ASSUME NEW i \in Items, Expire(i) \/ Boot(i)
      PROVE  RowTypes' /\ LockTypes' /\ WorkerTypes' /\ OtherTypes'
  BY <1>0, <1>6, SMT, SMTT(30) DEF Expire, Boot, RowTypes, LockTypes, WorkerTypes, OtherTypes
<1>7. ASSUME NEW w \in Workers, pc[w] \in Executing => item[w] \in Items, StatementFails(w)
      PROVE  RowTypes' /\ LockTypes' /\ WorkerTypes' /\ OtherTypes'
  <2>1. PICK label \in {"fail", "retry", "release"} : Goto(w, label)
    BY <1>7, FailedStatement, Zenon
  <2>2. label \in Executing
    BY DEF Executing
  <2>3. OtherTypes'
    BY <1>0, <1>7, FailedStatement, ProvisionAssumption, SMT, SMTT(30) DEF OtherTypes
  <2>4. inst' \in [Items -> {"none", "pending", "provisioning", "running", "error"}]
    <3>1. CASE inst' = inst
      BY <1>0, <3>1, Zenon DEF RowTypes
    <3>2. CASE inst' = [inst EXCEPT ![item[w]] = Placed(@)]
      BY <1>0, <1>7, <3>2, FailedStatement, Zenon DEF RowTypes, Placed
    <3> QED
      BY <1>7, <3>1, <3>2, FailedStatement, Zenon
  <2>5. RowTypes'
    BY <1>0, <1>7, <2>4, FailedStatement, Zenon DEF RowTypes
  <2>6. LockTypes'
    <3>1. Unlock(w)
      BY <1>7, FailedStatement, Zenon
    <3> QED
      BY <1>0, <3>1, Zenon DEF Unlock, Unlocked, LockTypes
  <2>7. WorkerTypes'
    BY <1>0, <1>7, <2>1, <2>2, FailedStatement, Zenon DEF WorkerTypes
  <2> QED
    BY <2>3, <2>5, <2>6, <2>7, Zenon
<1> QED
  BY <1>1, <1>2, <1>3, <1>4, <1>5, <1>6, <1>7, Zenon

-----------------------------------------------------------------------------
(* The inductive invariant                                                  *)

(* What worker w relies on.  What it read or did is still so: an instance that *)
(* ran runs, an active subscription is active.  It has locked a subscription   *)
(* only between activating it and the commit, and it completes the order only  *)
(* when it has seen every subscription active.                                 *)
WorkerInv(w) ==
  /\ pc[w] \in Executing => item[w] \in Items
  /\ pc[w] \in Executing /\ seen[w] = "active" => sub[item[w]] = "active"
  /\ pc[w] \in Persisting => vm[item[w]] = "running"
  /\ pc[w] \in Persisting \ {"persist"} => inst[item[w]] = "running"
  /\ pc[w] = "succeed" => sub[item[w]] = "active"
  /\ \A i \in Items : subLock[i] = w => pc[w] \in {"complete", "commit"} /\ item[w] = i
  /\ completes[w] => pc[w] \in {"commit", "succeed"}
  /\ pc[w] = "commit" /\ completes[w] => ActiveTo(w) = Items

ProvisionInv ==
  /\ TypeOK
  /\ \A w \in Workers : WorkerInv(w)
  /\ ActiveIsBacked
  /\ NotifiedOnce
  /\ CompletedIsActive

(* What a step never undoes. *)
ForwardItem(i) ==
  /\ sub[i] = "active" => sub'[i] = "active"
  /\ op[i] \in Terminal => op'[i] = op[i]
  /\ vm[i] = "running" => vm'[i] = "running"
  /\ inst[i] = "running" => inst'[i] = "running"

ForwardOrder ==
  /\ order = "fulfilled" => order' = "fulfilled"
  /\ order' = "paid" => order = "paid"

Forward == ForwardOrder /\ \A i \in Items : ForwardItem(i)

(* The workflow's writes are guarded by what is there already.                *)
LEMMA WorkflowForward ==
  ASSUME RowTypes, NEW w \in Workers, pc[w] \in Executing => item[w] \in Items, WorkflowStep(w)
  PROVE  Forward
<1> USE DEF rowVars, Forward, ForwardOrder, ForwardItem
<1>1. CASE Reserve(w)
  BY <1>1, Zenon DEF Reserve, Progressed, Open, Terminal, RowTypes, Executing
<1>2. CASE Place(w)
  BY <1>2, Zenon DEF Place, Placed, Progressed, Open, Terminal, RowTypes, Executing
<1>3. CASE CreateInstance(w)
  BY <1>3, Zenon DEF CreateInstance, RowTypes, Executing
<1>4. CASE GetInstance(w)
  BY <1>4, Zenon DEF GetInstance, Progressed, Open, RowTypes, Executing
<1>5. CASE PersistResult(w)
  BY <1>5, Zenon DEF PersistResult, SetInstanceProviderResult, RowTypes, Executing
<1>6. CASE FinalizeReservation(w) \/ FinalizeActivate(w) \/ FinalizeOrder(w)
  BY <1>6, Zenon DEF FinalizeReservation, FinalizeActivate, FinalizeOrder
<1>7. CASE FinalizeCommit(w)
  BY <1>7, Zenon DEF FinalizeCommit, RowTypes, Executing
<1>8. CASE SetError(w)
  BY <1>8, Zenon DEF SetError, RowTypes, Executing
<1>9. CASE Release(w)
  BY <1>9, Zenon DEF Release
<1>10. CASE Succeed(w) \/ Fail(w)
  BY <1>10, Zenon DEF Succeed, Fail, End, Open, RowTypes, Executing
<1>11. CASE ScheduleRetry(w)
  BY <1>11, Zenon DEF ScheduleRetry, ScheduleOperationRetry, Open, RowTypes, Executing
<1> QED
  BY <1>1, <1>2, <1>3, <1>4, <1>5, <1>6, <1>7, <1>8, <1>9, <1>10, <1>11, Zenon DEF WorkflowStep

(* No step undoes what is done: not a repeated payment event, not a retry, a   *)
(* late error or a recovery.                                                   *)
LEMMA StepForward ==
  ASSUME TypeOK, \A w \in Workers : WorkerInv(w), [Next]_vars
  PROVE  Forward
<1> USE DEF rowVars, Forward, ForwardOrder, ForwardItem
<1>0. RowTypes
  BY TypeParts
<1>1. CASE UNCHANGED vars
  BY <1>1 DEF vars
<1>2. ASSUME NEW e \in Entries, Publish(e) PROVE Forward
  BY <1>2 DEF Publish
<1>3. ASSUME NEW w \in Workers, TriggerStep(w) PROVE Forward
  <2>1. CASE ReadTrigger(w) \/ EnsureBegin(w) \/ Ack(w)
    BY <2>1, Zenon DEF ReadTrigger, EnsureBegin, Ack
  <2>2. CASE EnsureCommit(w)
    BY <2>2, <1>0, Zenon DEF EnsureCommit, CreatePurchaseSubscription, CreatePendingInstance,
                      CreateOperation, Missing, Fulfilling, Terminal, RowTypes
  <2> QED
    BY <1>3, <2>1, <2>2, Zenon DEF TriggerStep
<1>4. ASSUME NEW w \in Workers, WorkflowStep(w) PROVE Forward
  BY <1>0, <1>4, WorkflowForward, Zenon DEF WorkerInv
<1>5. ASSUME NEW w \in Workers, Crash(w) PROVE Forward
  BY <1>5 DEF Crash
<1>6. ASSUME NEW w \in Workers, NEW i \in Items, Begin(w, i) PROVE Forward
  BY <1>0, <1>6, Zenon DEF Begin, Terminal, RowTypes
<1>7. ASSUME NEW w \in Workers, NEW v \in Workers, DeadlockVictim(w, v) PROVE Forward
  BY <1>7 DEF DeadlockVictim
<1>8. ASSUME NEW i \in Items, RecoverStuck(i) PROVE Forward
  BY <1>0, <1>8, Zenon DEF RecoverStuck, Terminal, RowTypes
<1>9. ASSUME NEW i \in Items, Expire(i) \/ Boot(i) PROVE Forward
  BY <1>0, <1>9, Zenon DEF Expire, Boot, RowTypes
<1>10. ASSUME NEW w \in Workers, StatementFails(w) PROVE Forward
  <2>1. CASE inst' = inst
    BY <1>10, <2>1, FailedStatement, Zenon
  <2>2. CASE inst' = [inst EXCEPT ![item[w]] = Placed(@)]
    <3>1. item[w] \in Items
      BY <1>10, FailedStatement, Zenon DEF WorkerInv
    <3>2. \A i \in Items : inst[i] = "running" => inst'[i] = "running"
      BY <1>0, <2>2, <3>1, Zenon DEF RowTypes, Placed
    <3> QED
      BY <1>10, <3>2, FailedStatement, Zenon
  <2> QED
    BY <1>10, <2>1, <2>2, FailedStatement, Zenon
<1> HIDE DEF Forward
<1> QED
  BY <1>1, <1>2, <1>3, <1>4, <1>5, <1>6, <1>7, <1>8, <1>9, <1>10, Zenon DEF Next

(* The step of another worker leaves w as it is. *)
Untouched(w) ==
  /\ pc'[w] = pc[w] /\ item'[w] = item[w] /\ seen'[w] = seen[w] /\ completes'[w] = completes[w]
  /\ \A i \in Items : subLock'[i] = w <=> subLock[i] = w

(* A worker may rely on what it relied on before the steps of others. *)
LEMMA WorkerFrame ==
  ASSUME NEW w \in Workers, WorkerInv(w), Untouched(w), Forward
  PROVE  WorkerInv(w)'
<1>1. /\ pc[w] \in Executing => item[w] \in Items
      /\ Persisting \subseteq Executing /\ "succeed" \in Executing
  BY Zenon DEF WorkerInv, Executing, Persisting
<1>2. pc[w] = "commit" /\ completes[w] => ActiveTo(w)' = Items
  BY DEF WorkerInv, Untouched, Forward, ForwardItem, ActiveTo
<1> QED
  BY <1>1, <1>2, SMT, SMTT(30) DEF WorkerInv, Untouched, Forward, ForwardItem

(* Stop leaves w with nothing to rely on, and the others untouched. *)
LEMMA StopInv ==
  ASSUME LockTypes, WorkerTypes, NEW w \in Workers, Stop(w)
  PROVE  WorkerInv(w)' /\ \A v \in Workers \ {w} : Untouched(v)
<1>1. None \notin Workers
  BY ProvisionAssumption
<1>2. \A i \in Items : subLock'[i] = IF subLock[i] = w THEN None ELSE subLock[i]
  BY Zenon DEF Stop, Unlock, Unlocked, LockTypes
<1>3. pc'[w] = "idle" /\ ~completes'[w]
  BY Zenon DEF Stop, Goto, WorkerTypes
<1>4. WorkerInv(w)'
  BY <1>1, <1>2, <1>3, Zenon DEF WorkerInv, Executing, Persisting
<1>5. ASSUME NEW v \in Workers \ {w} PROVE Untouched(v)
  BY <1>1, <1>2, Zenon DEF Stop, Goto, WorkerTypes, Untouched
<1> QED
  BY <1>4, <1>5

(* What a step of w itself leaves it with, and that it touches no other. *)
Proceeds(w) == WorkerInv(w)' /\ \A v \in Workers \ {w} : Untouched(v)

(* The trigger relies on nothing and locks no subscription for longer than its *)
(* transaction.                                                                *)
LEMMA TriggerProceeds ==
  ASSUME TypeOK, NEW w \in Workers, WorkerInv(w), TriggerStep(w)
  PROVE  Proceeds(w)
<1> USE DEF Goto, lockVars, execVars
<1>0. LockTypes /\ WorkerTypes /\ None \notin Workers
  BY TypeParts, ProvisionAssumption
<1>1. /\ UNCHANGED execVars
      /\ pc[w] \in {"idle", "trigger", "ensure", "ack"} /\ pc'[w] \in {"idle", "trigger", "ensure", "ack"}
      /\ \A v \in Workers \ {w} : pc'[v] = pc[v]
  BY <1>0, Zenon DEF TriggerStep, ReadTrigger, EnsureBegin, EnsureCommit, Ack, WorkerTypes
<1>2. \A i \in Items : \A v \in Workers : subLock'[i] = v <=> subLock[i] = v
  <2>1. \A i \in Items : subLock[i] # w
    BY <1>1, Zenon DEF WorkerInv
  <2>2. CASE EnsureCommit(w)
    BY <1>0, <2>1, <2>2, Zenon DEF EnsureCommit, Unlock, Unlocked, LockTypes
  <2>3. CASE ReadTrigger(w) \/ EnsureBegin(w) \/ Ack(w)
    BY <2>3, Zenon DEF ReadTrigger, EnsureBegin, Ack
  <2> QED
    BY <2>2, <2>3 DEF TriggerStep
<1>3. WorkerInv(w)'
  BY <1>1, <1>2, Zenon DEF WorkerInv, Executing, Persisting
<1>4. ASSUME NEW v \in Workers \ {w} PROVE Untouched(v)
  BY <1>1, <1>2 DEF Untouched
<1> QED
  BY <1>3, <1>4 DEF Proceeds

(* A step of the workflow before or beside Finalize: w has no lock on a         *)
(* subscription, and goes on with its item.                                     *)
LEMMA WorkProceeds ==
  ASSUME WorkerTypes, NEW w \in Workers, WorkerInv(w), Forward,
         NEW label \in Executing \ {"commit", "succeed"}, Goto(w, label),
         pc[w] \in Executing \ {"complete", "commit", "succeed"},
         UNCHANGED <<subLock, item, seen, completes>>,
         label \in Persisting =>
           vm'[item[w]] = "running" /\ (label # "persist" => inst'[item[w]] = "running")
  PROVE  Proceeds(w)
<1>1. pc'[w] = label /\ \A v \in Workers \ {w} : pc'[v] = pc[v]
  BY DEF Goto, WorkerTypes
<1>2. item[w] \in Items /\ ~completes[w] /\ \A i \in Items : subLock[i] # w
  BY Zenon DEF WorkerInv
<1>3. seen[w] = "active" => sub'[item[w]] = "active"
  BY <1>2, Zenon DEF WorkerInv, Forward, ForwardItem
<1>4. WorkerInv(w)'
  BY <1>1, <1>2, <1>3, Zenon DEF WorkerInv
<1> QED
  BY <1>1, <1>4 DEF Proceeds, Untouched

(* The workflow beside Finalize: what GetInstance has seen and PersistResult has  *)
(* written is what Finalize relies on.                                            *)
LEMMA WorkflowProceeds ==
  ASSUME TypeOK, NEW w \in Workers, WorkerInv(w), Forward,
         \/ Reserve(w) \/ Place(w) \/ CreateInstance(w) \/ GetInstance(w) \/ PersistResult(w)
         \/ SetError(w) \/ Release(w) \/ Succeed(w) \/ Fail(w) \/ ScheduleRetry(w)
  PROVE  Proceeds(w)
<1> USE DEF lockVars, execVars
<1>0. RowTypes /\ LockTypes /\ WorkerTypes
  BY TypeParts
<1>1. CASE Stop(w)
  BY <1>0, <1>1, StopInv DEF Proceeds
<1>2. ASSUME NEW label \in {"place", "create", "get", "retry", "seterror", "release", "fail"},
             Goto(w, label), UNCHANGED <<subLock, item, seen, completes>>,
             pc[w] \in {"reserve", "place", "create", "get", "seterror", "release"}
      PROVE  Proceeds(w)
  <2>1. label \in Executing \ {"commit", "succeed"} /\ label \notin Persisting
    BY <1>2 DEF Executing, Persisting
  <2>2. pc[w] \in Executing \ {"complete", "commit", "succeed"}
    BY <1>2 DEF Executing
  <2> QED
    BY <1>0, <1>2, <2>1, <2>2, WorkProceeds, Zenon
<1>3. CASE Reserve(w)
  BY <1>2, <1>3, Zenon DEF Reserve
<1>4. CASE Place(w)
  BY <1>1, <1>2, <1>4, Zenon DEF Place
<1>5. CASE CreateInstance(w)
  BY <1>2, <1>5, Zenon DEF CreateInstance
<1>6. CASE GetInstance(w)
  <2>1. CASE Goto(w, "retry") \/ Goto(w, "seterror")
    BY <1>2, <1>6, <2>1, Zenon DEF GetInstance
  <2>2. CASE vm[item[w]] = "running" /\ Goto(w, "persist")
    <3>1. pc[w] \in Executing \ {"complete", "commit", "succeed"} /\ item[w] \in Items
      BY <1>6, Zenon DEF GetInstance, Executing, WorkerInv
    <3>2. vm'[item[w]] = "running"
      BY <2>2, <3>1, Zenon DEF Forward, ForwardItem
    <3>3. "persist" \in Executing \ {"commit", "succeed"}
      BY DEF Executing
    <3>4. UNCHANGED <<subLock, item, seen, completes>>
      BY <1>6, Zenon DEF GetInstance
    <3> QED
      BY <1>0, <2>2, <3>1, <3>2, <3>3, <3>4, WorkProceeds, Zenon
  <2> QED
    BY <1>6, <2>1, <2>2, Zenon DEF GetInstance
<1>7. CASE PersistResult(w)
  <2>1. /\ pc[w] \in Executing \ {"complete", "commit", "succeed"} /\ item[w] \in Items
        /\ vm[item[w]] = "running"
    BY <1>7, Zenon DEF PersistResult, Executing, Persisting, WorkerInv
  <2>2. vm'[item[w]] = "running" /\ inst'[item[w]] = "running"
    BY <1>0, <1>7, <2>1, Zenon DEF Forward, ForwardItem, PersistResult, SetInstanceProviderResult, RowTypes
  <2>3. "finalize" \in Executing \ {"commit", "succeed"}
    BY DEF Executing
  <2>4. UNCHANGED <<subLock, item, seen, completes>> /\ Goto(w, "finalize")
    BY <1>7, Zenon DEF PersistResult
  <2> QED
    BY <1>0, <2>1, <2>2, <2>3, <2>4, WorkProceeds, Zenon
<1>8. CASE SetError(w) \/ Release(w)
  BY <1>2, <1>8, Zenon DEF SetError, Release
<1>9. CASE Succeed(w) \/ Fail(w) \/ ScheduleRetry(w)
  BY <1>1, <1>9, Zenon DEF Succeed, Fail, End, ScheduleRetry
<1> QED
  BY <1>3, <1>4, <1>5, <1>6, <1>7, <1>8, <1>9

(* Finalize locks the subscription it activates, and no other.                   *)
LEMMA FinalizeProceeds ==
  ASSUME TypeOK, NEW w \in Workers, WorkerInv(w), Forward,
         \/ FinalizeReservation(w) \/ FinalizeActivate(w) \/ FinalizeOrder(w) \/ FinalizeCommit(w)
  PROVE  Proceeds(w)
<1> USE DEF execVars
<1>0. RowTypes /\ LockTypes /\ WorkerTypes /\ None \notin Workers
  BY TypeParts, ProvisionAssumption
<1>1. CASE FinalizeReservation(w)
  <2>1. /\ pc[w] \in Executing \ {"complete", "commit", "succeed"} /\ item[w] \in Items
        /\ vm[item[w]] = "running" /\ inst[item[w]] = "running"
    BY <1>1, Zenon DEF FinalizeReservation, Executing, Persisting, WorkerInv
  <2>2. vm'[item[w]] = "running" /\ inst'[item[w]] = "running"
    BY <2>1, Zenon DEF Forward, ForwardItem
  <2>3. {"complete", "activate", "retry"} \subseteq Executing \ {"commit", "succeed"}
    BY DEF Executing
  <2>4. UNCHANGED <<subLock, item, seen, completes>>
    BY <1>1, Zenon DEF FinalizeReservation
  <2>5. PICK label \in {"complete", "activate", "retry"} : Goto(w, label)
    BY <1>1, Zenon DEF FinalizeReservation
  <2> QED
    BY <1>0, <2>1, <2>2, <2>3, <2>4, <2>5, WorkProceeds, Zenon
<1>2. CASE FinalizeActivate(w)
  <2>1. /\ pc[w] = "activate" /\ pc' = [pc EXCEPT ![w] = "complete"] /\ subLock[item[w]] = None
        /\ subLock' = [subLock EXCEPT ![item[w]] = w] /\ UNCHANGED <<item, seen, completes>>
    BY <1>2, Zenon DEF FinalizeActivate, Goto
  <2>2. /\ item[w] \in Items /\ vm'[item[w]] = "running" /\ inst'[item[w]] = "running"
        /\ seen[w] = "active" => sub'[item[w]] = "active"
        /\ ~completes[w] /\ \A i \in Items : subLock[i] # w
    BY <2>1, Zenon DEF WorkerInv, Forward, ForwardItem, Executing, Persisting
  <2>3. WorkerInv(w)'
    BY <1>0, <2>1, <2>2, Zenon DEF WorkerInv, LockTypes, WorkerTypes
  <2>4. ASSUME NEW v \in Workers \ {w} PROVE Untouched(v)
    BY <1>0, <2>1, <2>2, Zenon DEF Untouched, LockTypes, WorkerTypes
  <2> QED
    BY <2>3, <2>4 DEF Proceeds
<1>3. CASE FinalizeOrder(w)
  <2>1. /\ pc[w] = "complete" /\ pc' = [pc EXCEPT ![w] = "commit"]
        /\ UNCHANGED <<sub, subLock, item, seen>>
        /\ \/ completes' = [completes EXCEPT ![w] = TRUE] /\ ActiveTo(w) = Items
           \/ UNCHANGED completes
    BY <1>3, Zenon DEF FinalizeOrder, Goto, rowVars
  <2>2. /\ item[w] \in Items /\ vm'[item[w]] = "running" /\ inst'[item[w]] = "running"
        /\ seen[w] = "active" => sub'[item[w]] = "active"
        /\ ~completes[w] /\ \A i \in Items : subLock[i] = w => item[w] = i
    BY <2>1, Zenon DEF WorkerInv, Forward, ForwardItem, Executing, Persisting
  <2>3. ActiveTo(w)' = ActiveTo(w)
    BY <2>1 DEF ActiveTo
  <2>4. completes'[w] => ActiveTo(w) = Items
    BY <2>1, <2>2, Zenon
  <2>5. WorkerInv(w)'
    BY <1>0, <2>1, <2>2, <2>3, <2>4, Zenon DEF WorkerInv, WorkerTypes
  <2>6. ASSUME NEW v \in Workers \ {w} PROVE Untouched(v)
    BY <1>0, <2>1, Zenon DEF Untouched, WorkerTypes
  <2> QED
    BY <2>5, <2>6 DEF Proceeds
<1>4. CASE FinalizeCommit(w)
  <2>1. /\ pc[w] = "commit" /\ pc' = [pc EXCEPT ![w] = "succeed"]
        /\ UNCHANGED <<item, seen, completes>>
        /\ sub' = [sub EXCEPT ![item[w]] = "active"]
    BY <1>4, Zenon DEF FinalizeCommit, Goto
  <2>2. item[w] \in Items
    BY <2>1, Zenon DEF WorkerInv, Executing
  <2>3. \A i \in Items : subLock'[i] = IF subLock[i] = w THEN None ELSE subLock[i]
    BY <1>0, <1>4, Zenon DEF FinalizeCommit, Unlock, Unlocked, LockTypes
  <2>4. WorkerInv(w)'
    BY <1>0, <2>1, <2>2, <2>3, SMT, SMTT(30) DEF WorkerInv, Persisting, RowTypes, WorkerTypes
  <2>5. ASSUME NEW v \in Workers \ {w} PROVE Untouched(v)
    BY <1>0, <2>1, <2>3, Zenon DEF Untouched, WorkerTypes
  <2> QED
    BY <2>4, <2>5 DEF Proceeds
<1> QED
  BY <1>1, <1>2, <1>3, <1>4

(* Every step leaves every worker with what it relies on. *)
LEMMA WorkersInductive ==
  ASSUME TypeOK, \A w \in Workers : WorkerInv(w), [Next]_vars
  PROVE  \A w \in Workers : WorkerInv(w)'
<1>0. Forward /\ RowTypes /\ LockTypes /\ WorkerTypes /\ None \notin Workers
  BY StepForward, TypeParts, ProvisionAssumption
<1>1. ASSUME NEW w \in Workers, Proceeds(w) PROVE \A v \in Workers : WorkerInv(v)'
  BY <1>0, <1>1, WorkerFrame DEF Proceeds
<1>2. ASSUME \A v \in Workers : Untouched(v) PROVE \A v \in Workers : WorkerInv(v)'
  BY <1>0, <1>2, WorkerFrame
<1>3. CASE UNCHANGED <<pc, subLock, item, seen, completes>>
  BY <1>2, <1>3 DEF Untouched
<1>4. CASE UNCHANGED vars
  BY <1>3, <1>4 DEF vars, lockVars, execVars
<1>5. ASSUME NEW e \in Entries, Publish(e) PROVE \A v \in Workers : WorkerInv(v)'
  BY <1>3, <1>5 DEF Publish, lockVars, execVars
<1>6. ASSUME NEW w \in Workers, TriggerStep(w) PROVE \A v \in Workers : WorkerInv(v)'
  BY <1>1, <1>6, TriggerProceeds
<1>7. ASSUME NEW w \in Workers, WorkflowStep(w) PROVE \A v \in Workers : WorkerInv(v)'
  BY <1>0, <1>1, <1>7, WorkflowProceeds, FinalizeProceeds, Zenon DEF WorkflowStep
<1>8. ASSUME NEW w \in Workers, Stop(w) PROVE \A v \in Workers : WorkerInv(v)'
  BY <1>0, <1>1, <1>8, StopInv DEF Proceeds
<1>9. ASSUME NEW w \in Workers, NEW i \in Items, Begin(w, i)
      PROVE  \A v \in Workers : WorkerInv(v)'
  <2>1. /\ pc[w] = "idle" /\ pc' = [pc EXCEPT ![w] = "reserve"]
        /\ item' = [item EXCEPT ![w] = i] /\ seen' = [seen EXCEPT ![w] = sub[i]]
        /\ UNCHANGED <<sub, subLock, completes>>
    BY <1>9, Zenon DEF Begin, GetProvisionContext, Goto, lockVars
  <2>2. ~completes[w] /\ \A j \in Items : subLock[j] # w
    BY <2>1, SMT, SMTT(30) DEF WorkerInv
  <2>3. WorkerInv(w)'
    BY <1>0, <2>1, <2>2, SMT, SMTT(30) DEF WorkerInv, Persisting, WorkerTypes
  <2>4. ASSUME NEW v \in Workers \ {w} PROVE Untouched(v)
    BY <1>0, <2>1, Zenon DEF Untouched, WorkerTypes
  <2> QED
    BY <1>1, <2>3, <2>4 DEF Proceeds
<1>10. ASSUME NEW w \in Workers, NEW v \in Workers, DeadlockVictim(w, v)
       PROVE  \A u \in Workers : WorkerInv(u)'
  <2>1. CASE Unlock(w) /\ Goto(w, "retry") /\ UNCHANGED <<batch, execVars>>
    <3>1. /\ pc[w] = "complete" /\ pc' = [pc EXCEPT ![w] = "retry"]
          /\ UNCHANGED <<sub, item, seen, completes>>
      BY <1>10, <2>1 DEF DeadlockVictim, Deadlocked, Goto, rowVars, execVars
    <3>2. \A i \in Items : subLock'[i] = IF subLock[i] = w THEN None ELSE subLock[i]
      BY <1>0, <2>1, Zenon DEF Unlock, Unlocked, LockTypes
    <3>3. WorkerInv(w)'
      BY <1>0, <3>1, <3>2, SMT, SMTT(30) DEF WorkerInv, Executing, Persisting, WorkerTypes
    <3>4. ASSUME NEW u \in Workers \ {w} PROVE Untouched(u)
      BY <1>0, <3>1, <3>2, Zenon DEF Untouched, WorkerTypes
    <3> QED
      BY <1>1, <3>3, <3>4 DEF Proceeds
  <2> QED
    BY <1>8, <1>10, <2>1 DEF DeadlockVictim
<1>11. ASSUME NEW i \in Items, RecoverStuck(i) \/ Expire(i) \/ Boot(i)
       PROVE  \A v \in Workers : WorkerInv(v)'
  BY <1>3, <1>11, Zenon DEF RecoverStuck, Expire, Boot, lockVars, execVars
<1>12. ASSUME NEW w \in Workers, StatementFails(w) PROVE \A v \in Workers : WorkerInv(v)'
  <2>1. PICK label \in {"fail", "retry", "release"} : pc' = [pc EXCEPT ![w] = label]
    BY <1>12, FailedStatement, Zenon DEF Goto
  <2>2. /\ item[w] \in Items /\ UNCHANGED <<sub, item, seen>>
        /\ seen[w] = "active" => sub[item[w]] = "active"
        /\ completes' = [completes EXCEPT ![w] = FALSE]
    BY <1>12, FailedStatement, Zenon DEF WorkerInv
  <2>3. \A i \in Items : subLock'[i] = IF subLock[i] = w THEN None ELSE subLock[i]
    <3>1. Unlock(w)
      BY <1>12, FailedStatement, Zenon
    <3> QED
      BY <1>0, <3>1, Zenon DEF Unlock, Unlocked, LockTypes
  <2>4. pc'[w] = label /\ label \notin Persisting /\ label # "succeed"
    BY <1>0, <2>1, Zenon DEF WorkerTypes, Persisting
  <2>5. ~completes'[w] /\ \A i \in Items : subLock'[i] # w
    BY <1>0, <2>2, <2>3, Zenon DEF WorkerTypes
  <2>6. WorkerInv(w)'
    BY <2>2, <2>4, <2>5, Zenon DEF WorkerInv, Persisting
  <2>7. ASSUME NEW v \in Workers \ {w} PROVE Untouched(v)
    BY <1>0, <2>1, <2>2, <2>3, Zenon DEF Untouched, WorkerTypes
  <2> QED
    BY <1>1, <2>6, <2>7 DEF Proceeds
<1> QED
  BY <1>4, <1>5, <1>6, <1>7, <1>8, <1>9, <1>10, <1>11, <1>12, Zenon DEF Next, Crash

-----------------------------------------------------------------------------
(* Rows                                                                     *)

RowsInv == ActiveIsBacked /\ NotifiedOnce /\ CompletedIsActive

(* A step that activates no subscription, commits and gives back no committed   *)
(* capacity, notifies nobody, completes nothing and ends no operation with      *)
(* success.                                                                     *)
LEMMA RowsFrame ==
  ASSUME RowsInv, Forward,
         \A i \in Items : /\ (sub'[i] = "active") = (sub[i] = "active")
                          /\ (resv'[i] = "committed") = (resv[i] = "committed")
                          /\ notices'[i] = notices[i]
                          /\ op'[i] = "succeeded" => op[i] = "succeeded" \/ sub[i] = "active",
         order' = "fulfilled" => order = "fulfilled"
  PROVE  RowsInv'
<1>1. ActiveIsBacked'
  BY Zenon DEF RowsInv, ActiveIsBacked, Forward, ForwardItem
<1>2. NotifiedOnce'
  BY DEF RowsInv, NotifiedOnce
<1>3. CompletedIsActive'
  BY DEF RowsInv, CompletedIsActive
<1> QED
  BY <1>1, <1>2, <1>3 DEF RowsInv

(* The transaction that commits the capacity activates the subscription, tells  *)
(* its owner unless that was done before, and completes the order when every    *)
(* other subscription is active already.                                        *)
LEMMA CommitRows ==
  ASSUME RowTypes, LockTypes, NEW w \in Workers, WorkerInv(w), RowsInv, FinalizeCommit(w)
  PROVE  RowsInv'
<1> DEFINE i == item[w]
<1>1. /\ pc[w] = "commit" /\ resv' = [resv EXCEPT ![i] = "committed"]
      /\ sub' = [sub EXCEPT ![i] = "active"] /\ order' = IF completes[w] THEN "fulfilled" ELSE order
      /\ notices' = [notices EXCEPT ![i] = IF seen[w] = "active" \/ @ # 0 THEN @ ELSE 1]
      /\ UNCHANGED <<inst, op, vm>>
  BY Zenon DEF FinalizeCommit, CreateProvisionNotification
<1>2. /\ i \in Items /\ vm[i] = "running" /\ inst[i] = "running"
      /\ seen[w] = "active" => sub[i] = "active"
      /\ completes[w] => ActiveTo(w) = Items
      /\ \A j \in Items : subLock[j] = w => j = i
  BY <1>1, Zenon DEF WorkerInv, Executing, Persisting
<1> HIDE DEF i
<1>3. ActiveIsBacked'
  BY <1>1, <1>2, Zenon DEF RowsInv, ActiveIsBacked, RowTypes
<1>4. NotifiedOnce'
  BY <1>1, <1>2, Zenon DEF RowsInv, NotifiedOnce, RowTypes
<1>5. ASSUME completes[w] PROVE \A j \in Items : sub'[j] = "active"
  <2>1. \A j \in Items : sub[j] = "active" \/ j = i
    BY <1>2, <1>5 DEF ActiveTo
  <2> QED
    BY <1>1, <1>2, <2>1, Zenon DEF RowTypes
<1>6. CompletedIsActive'
  BY <1>1, <1>2, <1>5, Zenon DEF RowsInv, CompletedIsActive, RowTypes
<1> QED
  BY <1>3, <1>4, <1>6 DEF RowsInv

(* Every step preserves RowsInv. *)
LEMMA RowsInductive ==
  ASSUME TypeOK, \A w \in Workers : WorkerInv(w), RowsInv, [Next]_vars
  PROVE  RowsInv'
<1> USE DEF rowVars
<1>0. Forward /\ RowTypes /\ LockTypes
  BY StepForward, TypeParts
<1> DEFINE Framed ==
      /\ \A i \in Items : /\ (sub'[i] = "active") = (sub[i] = "active")
                          /\ (resv'[i] = "committed") = (resv[i] = "committed")
                          /\ notices'[i] = notices[i]
                          /\ op'[i] = "succeeded" => op[i] = "succeeded" \/ sub[i] = "active"
      /\ order' = "fulfilled" => order = "fulfilled"
<1>1. Framed => RowsInv'
  BY <1>0, RowsFrame, Zenon
<1>2. ASSUME UNCHANGED <<order, rowVars>> PROVE Framed
  BY <1>2
<1>3. CASE UNCHANGED vars
  BY <1>1, <1>2, <1>3, Zenon DEF vars
<1>4. ASSUME NEW e \in Entries, Publish(e) PROVE RowsInv'
  BY <1>1, <1>2, <1>4, Zenon DEF Publish
<1>5. ASSUME NEW w \in Workers, TriggerStep(w) PROVE Framed
  <2>1. CASE ReadTrigger(w) \/ EnsureBegin(w) \/ Ack(w)
    BY <1>2, <2>1, Zenon DEF ReadTrigger, EnsureBegin, Ack
  <2>2. CASE EnsureCommit(w)
    BY <1>0, <2>2, Zenon DEF EnsureCommit, CreatePurchaseSubscription, CreateOperation, Missing,
                      Fulfilling, RowTypes
  <2> QED
    BY <1>5, <2>1, <2>2, Zenon DEF TriggerStep
<1>6. ASSUME NEW w \in Workers, WorkflowStep(w) PROVE RowsInv'
  <2>0. pc[w] \in Executing => item[w] \in Items
    BY Zenon DEF WorkerInv
  <2>1. CASE Reserve(w)
    <3>1. Framed
      BY <1>0, <2>0, <2>1, SMT, SMTT(30) DEF Reserve, HasReservation, CreateResourceReservation, Progressed,
                        Executing, RowTypes
    <3> QED
      BY <1>1, <3>1
  <2>2. CASE Place(w)
    <3>1. Framed
      BY <1>0, <2>0, <2>2, Zenon DEF Place, Progressed, Executing, RowTypes
    <3> QED
      BY <1>1, <3>1
  <2>3. CASE CreateInstance(w)
    BY <1>1, <1>2, <2>3, Zenon DEF CreateInstance
  <2>4. CASE GetInstance(w)
    <3>1. Framed
      BY <1>0, <2>0, <2>4, SMT, SMTT(30) DEF GetInstance, Progressed, Executing, RowTypes
    <3> QED
      BY <1>1, <3>1
  <2>5. CASE PersistResult(w) \/ SetError(w)
    <3>1. Framed
      BY <2>5, Zenon DEF PersistResult, SetError
    <3> QED
      BY <1>1, <3>1
  <2>6. CASE FinalizeReservation(w) \/ FinalizeActivate(w) \/ FinalizeOrder(w)
    BY <1>1, <1>2, <2>6, Zenon DEF FinalizeReservation, FinalizeActivate, FinalizeOrder
  <2>7. CASE FinalizeCommit(w)
    BY <1>0, <2>7, CommitRows
  <2>8. CASE Release(w)
    <3>1. Framed
      BY <1>0, <2>0, <2>8, Zenon DEF Release, Released, Executing, RowTypes
    <3> QED
      BY <1>1, <3>1
  <2>9. CASE Succeed(w)
    <3>1. item[w] \in Items /\ sub[item[w]] = "active"
      BY <2>9, Zenon DEF Succeed, WorkerInv, Executing
    <3>2. Framed
      BY <1>0, <2>9, <3>1, Zenon DEF Succeed, End, RowTypes
    <3> QED
      BY <1>1, <3>2
  <2>10. CASE Fail(w)
    <3>1. Framed
      BY <1>0, <2>0, <2>10, Zenon DEF Fail, End, Executing, RowTypes
    <3> QED
      BY <1>1, <3>1
  <2>11. CASE ScheduleRetry(w)
    <3>1. Framed
      BY <1>0, <2>0, <2>11, Zenon DEF ScheduleRetry, ScheduleOperationRetry, Executing, RowTypes
    <3> QED
      BY <1>1, <3>1
  <2> QED
    BY <1>6, <2>1, <2>2, <2>3, <2>4, <2>5, <2>6, <2>7, <2>8, <2>9, <2>10, <2>11 DEF WorkflowStep
<1>7. ASSUME NEW w \in Workers, Crash(w) PROVE RowsInv'
  BY <1>1, <1>2, <1>7, Zenon DEF Crash
<1>8. ASSUME NEW w \in Workers, NEW i \in Items, Begin(w, i) PROVE Framed
  BY <1>0, <1>8, Zenon DEF Begin, RowTypes
<1>9. ASSUME NEW w \in Workers, NEW v \in Workers, DeadlockVictim(w, v) PROVE RowsInv'
  BY <1>1, <1>2, <1>9, Zenon DEF DeadlockVictim
<1>10. ASSUME NEW i \in Items, RecoverStuck(i) PROVE Framed
  BY <1>0, <1>10, Zenon DEF RecoverStuck, RowTypes
<1>11. ASSUME NEW i \in Items, Expire(i) \/ Boot(i) PROVE Framed
  BY <1>0, <1>11, Zenon DEF Expire, Boot, RowTypes
<1>12. ASSUME NEW w \in Workers, StatementFails(w) PROVE Framed
  BY <1>12, FailedStatement, Zenon
<1> HIDE DEF Framed
<1> QED
  BY <1>1, <1>3, <1>4, <1>5, <1>6, <1>7, <1>8, <1>9, <1>10, <1>11, <1>12, Zenon DEF Next

-----------------------------------------------------------------------------
(* Theorems                                                                 *)

(* TypeOK is preserved by every step, given that who executes has an item. *)
LEMMA TypeInductive ==
  ASSUME TypeOK, \A w \in Workers : WorkerInv(w), [Next]_vars
  PROVE  TypeOK'
<1>1. CASE UNCHANGED vars
  BY <1>1, Zenon DEF vars, rowVars, triggerVars, lockVars, execVars, TypeOK
<1>2. ASSUME NEW w \in Workers, TriggerStep(w) \/ WorkflowStep(w) PROVE TypeOK'
  BY <1>2, TriggerTypes, WorkflowTypes, FinalizeTypes, Zenon DEF WorkerInv, WorkflowStep
<1>3. \A w \in Workers : pc[w] \in Executing => item[w] \in Items
  BY Zenon DEF WorkerInv
<1> QED
  BY <1>1, <1>2, <1>3, AroundTypes, Zenon DEF Next

(* The invariant holds at first. *)
LEMMA ProvisionInit == Init => ProvisionInv
<1> SUFFICES ASSUME Init PROVE ProvisionInv
  OBVIOUS
<1>1. None \notin Workers /\ 0 \in 0 .. MaxFaults
  BY ProvisionAssumption
<1>2. TypeOK
  BY <1>1, Zenon DEF Init, TypeOK
<1>3. ASSUME NEW w \in Workers PROVE WorkerInv(w)
  BY <1>1, Zenon DEF Init, WorkerInv, Executing, Persisting
<1>4. RowsInv
  BY DEF Init, RowsInv, ActiveIsBacked, NotifiedOnce, CompletedIsActive
<1> QED
  BY <1>2, <1>3, <1>4 DEF ProvisionInv, RowsInv

(* In every reachable state: types, and what the workers rely on. *)
LEMMA ProvisionInvariant == Spec => []ProvisionInv
<1>1. ProvisionInv /\ [Next]_vars => ProvisionInv'
  <2> SUFFICES ASSUME ProvisionInv, [Next]_vars PROVE ProvisionInv'
    OBVIOUS
  <2>1. TypeOK /\ (\A w \in Workers : WorkerInv(w)) /\ RowsInv
    BY DEF ProvisionInv, RowsInv
  <2>2. TypeOK' /\ (\A w \in Workers : WorkerInv(w)') /\ RowsInv'
    BY <2>1, TypeInductive, WorkersInductive, RowsInductive
  <2> QED
    BY <2>2 DEF ProvisionInv, RowsInv
<1> QED
  BY <1>1, ProvisionInit, PTL DEF Spec

(* Every variable stays in its type. *)
THEOREM ProvisionTypes == Spec => []TypeOK
<1>1. ProvisionInv => TypeOK
  BY DEF ProvisionInv
<1> QED
  BY <1>1, ProvisionInvariant, PTL

(* A subscription is active exactly when its capacity is committed, and only    *)
(* with an instance that runs, however many executions of its operation         *)
(* overlap, fail, crash or lose their reservation.                              *)
THEOREM ActiveStaysBacked == Spec => []ActiveIsBacked
<1>1. ProvisionInv => ActiveIsBacked
  BY DEF ProvisionInv
<1> QED
  BY <1>1, ProvisionInvariant, PTL

(* The owner is told once, with the activation, whichever of several overlapping *)
(* executions activates the subscription.                                        *)
THEOREM OwnerIsNotifiedOnce == Spec => []NotifiedOnce
<1>1. ProvisionInv => NotifiedOnce
  BY DEF ProvisionInv
<1> QED
  BY <1>1, ProvisionInvariant, PTL

(* The order is completed only when all of its subscriptions are active, and an  *)
(* operation succeeds only when its own is: the transaction that completes the   *)
(* order counts the activations that have committed and its own, no others.      *)
THEOREM CompletionIsEarned == Spec => []CompletedIsActive
<1>1. ProvisionInv => CompletedIsActive
  BY DEF ProvisionInv
<1> QED
  BY <1>1, ProvisionInvariant, PTL

(* No step, of a repeated trigger or a late worker either, takes an order, a     *)
(* subscription or a finished operation back.                                    *)
THEOREM ProvisionOnlyForward == Spec => OnlyForward
<1>1. ProvisionInv /\ [Next]_vars =>
        [/\ order = "fulfilled" => order' = "fulfilled"
         /\ order' = "paid" => order = "paid"
         /\ \A i \in Items : /\ sub[i] = "active" => sub'[i] = "active"
                             /\ op[i] \in Terminal => op'[i] = op[i]]_vars
  <2> SUFFICES ASSUME ProvisionInv, [Next]_vars PROVE Forward
    BY DEF Forward, ForwardOrder, ForwardItem
  <2> QED
    BY StepForward DEF ProvisionInv
<1> QED
  BY <1>1, ProvisionInvariant, PTL DEF Spec, OnlyForward
=============================================================================
