------------------------ MODULE OperationDelivery_proofs ------------------------
(***************************************************************************)
(* Proofs about OperationDelivery for every set of operations and workers, *)
(* every retry budget and every number of faults.  First what holds of the *)
(* rows of operations whatever becomes of messages: type correctness,      *)
(* terminal statuses are final, an active operation has a heartbeat, and   *)
(* retry_count is bounded.  Then the inductive invariant behind            *)
(* NoLostOperation, kept by the steps up to the stream (operations are     *)
(* created, outbox rows published, due retries and stuck operations queued *)
(* again) and by the steps of a consumer.                                  *)
(***************************************************************************)
EXTENDS OperationDelivery, FiniteSetTheorems, TLAPS

\* XADD appends one message that announces the published row.
LEMMA XAddAppends ==
    ASSUME NEW e \in Events, XAdd(e)
    PROVE  \E m \in Messages : /\ m.op = e.op /\ m.n = e.n /\ Free(m)
                              /\ stream' = stream \cup {m}
<1>1. PICK c \in Copies : Free(Entry(e, c)) /\ stream' = stream \cup {Entry(e, c)}
  BY DEF XAdd
<1>2. /\ Entry(e, c) \in Messages
      /\ Entry(e, c).op = e.op /\ Entry(e, c).n = e.n
  BY DEF Entry, Events, Messages
<1> QED
  BY <1>1, <1>2

\* The variables have the values that the tables, the stream and the worker
\* loop can hold; dispatcher marks and reads preserve it.
LEMMA TypeInductive == TypeOK /\ [Next]_vars => TypeOK'
<1> SUFFICES ASSUME TypeOK, [Next]_vars PROVE TypeOK'
  OBVIOUS
<1> USE ConstantsAssumption
<1>1. ASSUME NEW o \in Ops, Create(o) PROVE TypeOK'
  BY <1>1, SMT, SMTT(30) DEF TypeOK, Create, Events, Status, redisVars, dispatchVars, execVars
<1>2. ASSUME NEW o \in Ops, HeartbeatExpires(o) PROVE TypeOK'
  BY <1>2, Zenon DEF TypeOK, HeartbeatExpires, redisVars, dispatchVars, execVars
<1>3. ASSUME NEW o \in Ops, BackoffElapses(o) PROVE TypeOK'
  BY <1>3, Zenon DEF TypeOK, BackoffElapses, redisVars, dispatchVars, execVars
<1>4. ASSUME NEW w \in Workers, DispatchClaim(w) PROVE TypeOK'
  BY <1>4, Zenon DEF TypeOK, DispatchClaim, ClaimableRows, Goto, dbVars, redisVars, execVars
<1>5. ASSUME NEW w \in Workers, DispatchPublish(w) PROVE TypeOK'
  <2>1. PICK e \in Events : XAdd(e) /\ sent' = [sent EXCEPT ![w] = @ \cup {e}]
    BY <1>5, Zenon DEF TypeOK, DispatchPublish
  <2>2. stream' \subseteq Messages
    BY <2>1, XAddAppends DEF TypeOK
  <2> QED
    BY <1>5, <2>1, <2>2 DEF TypeOK, DispatchPublish, dbVars, execVars
<1>6. ASSUME NEW w \in Workers, DispatchCommit(w) PROVE TypeOK'
  BY <1>6, Zenon DEF TypeOK, DispatchCommit, DispatchEnd, Goto, rowVars, redisVars, execVars
<1>7. ASSUME NEW w \in Workers, DispatchError(w) PROVE TypeOK'
  <2>1. PICK e \in locked[w] : /\ XAdd(e) \/ UNCHANGED stream
                               /\ deferred' = deferred \cup {e}
    BY <1>7 DEF DispatchError
  <2>2. e \in Events
    BY <2>1, Zenon DEF TypeOK
  <2>3. stream' \subseteq Messages
    BY <2>1, <2>2, XAddAppends DEF TypeOK
  <2>4. faults' \in 0..MaxFaults
    BY <1>7, SMT, SMTT(30) DEF TypeOK, DispatchError
  <2>5. DispatchEnd(w) /\ UNCHANGED <<rowVars, pel, idle, execVars>>
    BY <1>7 DEF DispatchError
  <2> QED
    BY <2>1, <2>2, <2>3, <2>4, <2>5, Zenon DEF TypeOK, DispatchEnd, Goto, rowVars, execVars
<1>8. ASSUME NEW w \in Workers, Requeue(w) PROVE TypeOK'
  BY <1>8, SMT, SMTT(30) DEF TypeOK, Requeue, DueRetries, Events, Status, Goto, redisVars,
              dispatchVars, execVars
<1>9. ASSUME NEW w \in Workers, RecoverStuck(w) PROVE TypeOK'
  BY <1>9, SMT, SMTT(30) DEF TypeOK, RecoverStuck, RecoveryEvents, RecoveredCount, Recoverable,
              Stuck, Events, Status, Terminal, Goto, redisVars, dispatchVars, execVars
<1>10. ASSUME NEW w \in Workers, AutoClaim(w) PROVE TypeOK'
  BY <1>10, SMT, SMTT(30) DEF TypeOK, AutoClaim, Replies, Goto, dbVars, dispatchVars
<1>11. ASSUME NEW w \in Workers, ReadGroup(w) PROVE TypeOK'
  BY <1>11, SMT, SMTT(30) DEF TypeOK, ReadGroup, Replies, Goto, dbVars, dispatchVars
<1>12. ASSUME NEW w \in Workers, ReadNothing(w) PROVE TypeOK'
  BY <1>12, Zenon DEF TypeOK, ReadNothing, Goto, dbVars, redisVars, dispatchVars, execVars
<1>13. ASSUME NEW w \in Workers, Claim(w) PROVE TypeOK'
  BY <1>13, SMT, SMTT(30) DEF TypeOK, Claim, Messages, Status, Active, Goto, redisVars, dispatchVars
<1>14. ASSUME NEW w \in Workers, Skip(w) PROVE TypeOK'
  BY <1>14, SMT, SMTT(30) DEF TypeOK, Skip, Messages, Goto, dbVars, redisVars, dispatchVars
<1>15. ASSUME NEW w \in Workers, Ack(w) PROVE TypeOK'
  BY <1>15, Zenon DEF TypeOK, Ack, Goto, dbVars, dispatchVars
<1>16. ASSUME NEW w \in Workers, Complete(w) PROVE TypeOK'
  BY <1>16, SMT, SMTT(30) DEF TypeOK, Complete, Status, Terminal, Goto, redisVars, dispatchVars, execVars
<1>17. ASSUME NEW w \in Workers, ScheduleRetry(w) PROVE TypeOK'
  BY <1>17, SMT, SMTT(30) DEF TypeOK, ScheduleRetry, Status, Goto, redisVars, dispatchVars, execVars
<1>18. ASSUME NEW w \in Workers, LostOperation(w) PROVE TypeOK'
  BY <1>18 DEF TypeOK, LostOperation, Abandon, Goto, dbVars, redisVars, dispatchVars
<1>19. ASSUME NEW w \in Workers, Progress(w) PROVE TypeOK'
  BY <1>19, SMT, SMTT(30) DEF TypeOK, Progress, Status, Active, redisVars, dispatchVars, execVars
<1>20. ASSUME NEW w \in Workers, WorkerFails(w) PROVE TypeOK'
  BY <1>20, SMT, SMTT(30) DEF TypeOK, WorkerFails, Abandon, Following, Goto, dbVars, redisVars
<1>21. CASE RedisLoses
  BY <1>21, SMT, SMTT(30) DEF TypeOK, RedisLoses, dbVars, dispatchVars, execVars
<1>22. CASE OutboxBackoffElapses
  BY <1>22, Zenon DEF TypeOK, OutboxBackoffElapses, rowVars, redisVars, dispatchVars, execVars
<1>23. CASE MessageIdles
  BY <1>23, Zenon DEF TypeOK, MessageIdles, dbVars, dispatchVars, execVars
<1>24. CASE UNCHANGED vars
  BY <1>24, Zenon DEF TypeOK, vars, dbVars, redisVars, dispatchVars, execVars
<1> QED
  BY <1>1, <1>2, <1>3, <1>4, <1>5, <1>6, <1>7, <1>8, <1>9, <1>10, <1>11, <1>12,
     <1>13, <1>14, <1>15, <1>16, <1>17, <1>18, <1>19, <1>20, <1>21, <1>22, <1>23,
     <1>24 DEF Next, WorkerStep

\* TypeOK holds in every reachable state.
THEOREM TypeCorrect == Spec => []TypeOK
<1>1. Init => TypeOK
  BY ConstantsAssumption, SMT, SMTT(30) DEF Init, TypeOK, Status
<1> QED
  BY <1>1, TypeInductive, PTL DEF Spec

-----------------------------------------------------------------------------
\* The steps that write status, retry_count or heartbeat_at.
LEMMA RowSteps ==
    ASSUME [Next]_vars
    PROVE  \/ UNCHANGED <<status, retryCount, heartbeat>>
           \/ \E o \in Ops : Create(o) \/ HeartbeatExpires(o)
           \/ \E w \in Workers : \/ Requeue(w) \/ RecoverStuck(w) \/ Claim(w)
                                 \/ Complete(w) \/ ScheduleRetry(w) \/ Progress(w)
<1>1. CASE UNCHANGED vars
  BY <1>1 DEF vars, dbVars
<1>2. ASSUME NEW o \in Ops, BackoffElapses(o)
      PROVE  UNCHANGED <<status, retryCount, heartbeat>>
  BY <1>2 DEF BackoffElapses
<1>3. CASE RedisLoses \/ OutboxBackoffElapses \/ MessageIdles
  BY <1>3, Zenon DEF RedisLoses, OutboxBackoffElapses, MessageIdles, dbVars, rowVars
<1>4. ASSUME NEW w \in Workers,
             \/ DispatchClaim(w) \/ DispatchPublish(w) \/ DispatchCommit(w)
             \/ DispatchError(w)
      PROVE  UNCHANGED <<status, retryCount, heartbeat>>
  BY <1>4, Zenon DEF DispatchClaim, DispatchPublish, DispatchCommit, DispatchError, dbVars, rowVars
<1>5. ASSUME NEW w \in Workers,
             \/ AutoClaim(w) \/ ReadGroup(w) \/ ReadNothing(w) \/ Skip(w) \/ Ack(w)
             \/ LostOperation(w) \/ WorkerFails(w)
      PROVE  UNCHANGED <<status, retryCount, heartbeat>>
  BY <1>5, Zenon DEF AutoClaim, ReadGroup, ReadNothing, Skip, Ack, LostOperation, WorkerFails, dbVars
<1> QED
  BY <1>1, <1>2, <1>3, <1>4, <1>5, Zenon DEF Next, WorkerStep

\* No step changes the status or the retry_count of a finished operation:
\* every write of a worker, late or not, is guarded by Open, and claims,
\* requeues and recoveries select other statuses.
THEOREM TerminalStaysFinal == Spec => TerminalIsFinal
<1> DEFINE Kept(o) == status[o] \in Terminal =>
                          status'[o] = status[o] /\ retryCount'[o] = retryCount[o]
<1>1. ASSUME TypeOK, [Next]_vars, NEW o \in Ops PROVE Kept(o)
  <2> USE <1>1
  <2>1. CASE UNCHANGED <<status, retryCount, heartbeat>>
    BY <2>1
  <2>2. ASSUME NEW p \in Ops, Create(p) \/ HeartbeatExpires(p) PROVE Kept(o)
    BY <2>2, Zenon DEF Create, HeartbeatExpires, Terminal, TypeOK
  <2>3. ASSUME NEW w \in Workers, Requeue(w) PROVE Kept(o)
    BY <2>3, Zenon DEF Requeue, DueRetries, Terminal
  <2>4. ASSUME NEW w \in Workers, RecoverStuck(w) PROVE Kept(o)
    BY <2>4, Zenon DEF RecoverStuck, Recoverable, Stuck, Active, Terminal
  <2>5. ASSUME NEW w \in Workers, Claim(w) PROVE Kept(o)
    BY <2>5, Zenon DEF Claim, Terminal, TypeOK, Messages
  <2>6. ASSUME NEW w \in Workers, Complete(w) \/ Progress(w) PROVE Kept(o)
    BY <2>6, Zenon DEF Complete, Progress, Open, TypeOK
  <2>7. ASSUME NEW w \in Workers, ScheduleRetry(w) PROVE Kept(o)
    BY <2>7, SMT, SMTT(30) DEF ScheduleRetry, Open, TypeOK
  <2> QED
    BY <2>1, <2>2, <2>3, <2>4, <2>5, <2>6, <2>7, RowSteps, Zenon
<1>2. TypeOK /\ [Next]_vars => [\A o \in Ops : Kept(o)]_vars
  BY <1>1
<1> QED
  BY <1>2, TypeCorrect, PTL DEF Spec, TerminalIsFinal

\* An operation in execution has a heartbeat, so that RecoverStuck finds it:
\* what makes it active writes one, and only rows that leave the active
\* statuses lose theirs.
THEOREM ActiveHasHeartbeat == Spec => []ActiveIsRecoverable
<1>1. Init => ActiveIsRecoverable
  BY DEF Init, ActiveIsRecoverable, Active
<1>2. ASSUME TypeOK, ActiveIsRecoverable, [Next]_vars PROVE ActiveIsRecoverable'
  <2> USE <1>2 DEF ActiveIsRecoverable
  <2>1. CASE UNCHANGED <<status, retryCount, heartbeat>>
    BY <2>1
  <2>2. ASSUME NEW p \in Ops, Create(p) \/ HeartbeatExpires(p)
        PROVE  ActiveIsRecoverable'
    BY <2>2, Zenon DEF Create, HeartbeatExpires, Active, TypeOK
  <2>3. ASSUME NEW w \in Workers, Requeue(w) PROVE ActiveIsRecoverable'
    BY <2>3, Zenon DEF Requeue, DueRetries, Active
  <2>4. ASSUME NEW w \in Workers, RecoverStuck(w) PROVE ActiveIsRecoverable'
    BY <2>4, Zenon DEF RecoverStuck, Recoverable, Stuck, Active
  <2>5. ASSUME NEW w \in Workers, Claim(w) PROVE ActiveIsRecoverable'
    BY <2>5, SMT, SMTT(30) DEF Claim, TypeOK, Messages
  <2>6. ASSUME NEW w \in Workers, Complete(w) \/ Progress(w) PROVE ActiveIsRecoverable'
    BY <2>6, Zenon DEF Complete, Progress, TypeOK
  <2>7. ASSUME NEW w \in Workers, ScheduleRetry(w) PROVE ActiveIsRecoverable'
    BY <2>7, SMT, SMTT(30) DEF ScheduleRetry, TypeOK
  <2> QED
    BY <2>1, <2>2, <2>3, <2>4, <2>5, <2>6, <2>7, RowSteps, Zenon
<1> QED
  BY <1>1, <1>2, TypeCorrect, PTL DEF Spec

-----------------------------------------------------------------------------
\* The workers that can still increment retry_count of o: they execute it and
\* claimed it when it had retries left.
Incrementers(o) ==
    {w \in Workers : Executing(w, o) /\ RetryAllowed(w)}

\* Each increment to come is counted already.  A claim adds a worker only while
\* retry_count is below the budget, and a recovery, which increments it too, is
\* the step of a worker that executes nothing.
BudgetInv ==
    \A o \in Ops : retryCount[o] + Cardinality(Incrementers(o))
                       <= MaxRetries + Cardinality(Workers) - 1

\* Sets of workers are finite and none is larger than Workers.
LEMMA WorkerSets ==
    /\ Cardinality(Workers) \in Nat \ {0}
    /\ \A S \in SUBSET Workers : /\ IsFiniteSet(S) /\ Cardinality(S) \in Nat
                                 /\ Cardinality(S) <= Cardinality(Workers)
    /\ \A S \in SUBSET Workers : \A T \in SUBSET S : Cardinality(T) <= Cardinality(S)
    /\ \A S \in SUBSET Workers : \A w \in Workers \ S :
           Cardinality(S) <= Cardinality(Workers) - 1
    /\ \A S \in SUBSET Workers : \A w \in S : Cardinality(S \ {w}) = Cardinality(S) - 1
<1>1. \A S \in SUBSET Workers : IsFiniteSet(S) /\ Cardinality(S) \in Nat
  BY ConstantsAssumption, FS_Subset, FS_CardinalityType
<1>2. \A S \in SUBSET Workers : \A T \in SUBSET S : Cardinality(T) <= Cardinality(S)
  BY <1>1, FS_Subset
<1>3. \A S \in SUBSET Workers : \A w \in S : Cardinality(S \ {w}) = Cardinality(S) - 1
  BY <1>1, FS_RemoveElement
<1>4. Cardinality(Workers) # 0
  BY ConstantsAssumption, FS_EmptySet
<1>5. ASSUME NEW S \in SUBSET Workers, NEW w \in Workers \ S
      PROVE  Cardinality(S) <= Cardinality(Workers) - 1
  <2>1. Cardinality(Workers \ {w}) = Cardinality(Workers) - 1
    BY <1>3
  <2>2. S \in SUBSET (Workers \ {w})
    OBVIOUS
  <2> QED
    BY <1>2, <2>1, <2>2
<1> QED
  BY <1>1, <1>2, <1>3, <1>4, <1>5

\* BudgetInv is preserved by a step that increments nothing and lets no worker
\* begin an execution.
LEMMA BudgetFrame ==
    ASSUME TypeOK, BudgetInv, UNCHANGED retryCount,
           \A v \in Workers : pc'[v] = "execute" =>
               pc[v] = "execute" /\ cur'[v] = cur[v] /\ attempt'[v] = attempt[v]
    PROVE  BudgetInv'
<1> SUFFICES ASSUME NEW o \in Ops
             PROVE  retryCount[o] + Cardinality(Incrementers(o)')
                        <= MaxRetries + Cardinality(Workers) - 1
  BY DEF BudgetInv
<1>1. Incrementers(o)' \in SUBSET Incrementers(o)
  BY DEF Incrementers, Executing, RetryAllowed
<1>2. Incrementers(o) \in SUBSET Workers
  BY DEF Incrementers
<1>3. Cardinality(Incrementers(o)') <= Cardinality(Incrementers(o))
  BY <1>1, <1>2, WorkerSets
<1>4. /\ Cardinality(Incrementers(o)') \in Nat /\ Cardinality(Incrementers(o)) \in Nat
      /\ Cardinality(Workers) \in Nat
  BY <1>1, <1>2, WorkerSets, Zenon
<1> QED
  BY <1>3, <1>4, ConstantsAssumption DEF BudgetInv, TypeOK

\* Claim: whoever may increment retry_count later finds it below the budget now.
LEMMA ClaimBudget ==
    ASSUME TypeOK, BudgetInv, NEW w \in Workers, Claim(w)
    PROVE  BudgetInv'
<1>1. PICK m \in Messages : /\ cur' = [cur EXCEPT ![w] = m]
                            /\ attempt' = [attempt EXCEPT ![w] = retryCount[m.op]]
  BY Zenon DEF Claim, TypeOK
<1>2. UNCHANGED retryCount /\ pc' = [pc EXCEPT ![w] = "execute"]
  BY Zenon DEF Claim, Goto
<1> SUFFICES ASSUME NEW o \in Ops
             PROVE  retryCount[o] + Cardinality(Incrementers(o)')
                        <= MaxRetries + Cardinality(Workers) - 1
  BY <1>2 DEF BudgetInv
<1>3. Incrementers(o)' \in SUBSET Workers /\ Incrementers(o) \in SUBSET Workers
  BY DEF Incrementers
<1>4. /\ Cardinality(Incrementers(o)') \in Nat /\ Cardinality(Incrementers(o)) \in Nat
      /\ Cardinality(Incrementers(o)') <= Cardinality(Workers)
      /\ Cardinality(Workers) \in Nat
  BY <1>3, WorkerSets, Zenon
<1>5. retryCount[o] \in Nat /\ MaxRetries \in Nat
  BY ConstantsAssumption, Zenon DEF TypeOK
<1>6. CASE retryCount[o] < MaxRetries
  BY <1>4, <1>5, <1>6
<1>7. CASE retryCount[o] >= MaxRetries
  <2>1. ASSUME NEW v \in Incrementers(o)' PROVE v \in Incrementers(o)
    <3>1. v # w
      BY <1>1, <1>2, <1>5, <1>7, <2>1 DEF Incrementers, Executing, RetryAllowed, TypeOK
    <3> QED
      BY <1>1, <1>2, <2>1, <3>1, Zenon DEF Incrementers, Executing, RetryAllowed, TypeOK
  <2>2. Cardinality(Incrementers(o)') <= Cardinality(Incrementers(o))
    BY <1>3, <2>1, WorkerSets
  <2> QED
    BY <1>4, <1>5, <2>2 DEF BudgetInv
<1> QED
  BY <1>5, <1>6, <1>7

\* ScheduleRetry: the worker that increments retry_count was counted, and its
\* execution is over.
LEMMA ScheduleRetryBudget ==
    ASSUME TypeOK, BudgetInv, NEW w \in Workers, ScheduleRetry(w)
    PROVE  BudgetInv'
<1>1. PICK p \in Ops : /\ Executing(w, p) /\ RetryAllowed(w)
                       /\ retryCount' = [retryCount EXCEPT ![p] = @ + 1]
                       /\ pc' = [pc EXCEPT ![w] = "ack"]
                       /\ UNCHANGED <<cur, attempt>>
  BY Zenon DEF ScheduleRetry, Goto, execVars
<1> SUFFICES ASSUME NEW o \in Ops
             PROVE  retryCount'[o] + Cardinality(Incrementers(o)')
                        <= MaxRetries + Cardinality(Workers) - 1
  BY DEF BudgetInv
<1>2. Incrementers(o)' \in SUBSET Incrementers(o) /\ Incrementers(o) \in SUBSET Workers
  BY <1>1, Zenon DEF Incrementers, Executing, RetryAllowed, TypeOK
<1>3. /\ Cardinality(Incrementers(o)') \in Nat /\ Cardinality(Incrementers(o)) \in Nat
      /\ Cardinality(Incrementers(o)') <= Cardinality(Incrementers(o))
      /\ Cardinality(Workers) \in Nat /\ retryCount[o] \in Nat /\ MaxRetries \in Nat
  BY <1>2, WorkerSets, ConstantsAssumption, Zenon DEF TypeOK
<1>4. CASE o = p
  <2>1. w \in Incrementers(o) /\ Incrementers(o)' \in SUBSET (Incrementers(o) \ {w})
    BY <1>1, <1>2, <1>4, Zenon DEF Incrementers, Executing, TypeOK
  <2>2. /\ Cardinality(Incrementers(o) \ {w}) = Cardinality(Incrementers(o)) - 1
        /\ Incrementers(o) \ {w} \in SUBSET Workers
    BY <1>2, <2>1, WorkerSets, Zenon
  <2>3. Cardinality(Incrementers(o)') <= Cardinality(Incrementers(o) \ {w})
    BY <2>1, <2>2, WorkerSets, Zenon
  <2>4. retryCount'[o] = retryCount[o] + 1
    BY <1>1, <1>4, Zenon DEF TypeOK
  <2> QED
    BY <1>3, <2>2, <2>3, <2>4 DEF BudgetInv
<1>5. CASE o # p
  <2>1. retryCount'[o] = retryCount[o]
    BY <1>1, <1>5 DEF TypeOK
  <2> QED
    BY <1>3, <2>1 DEF BudgetInv
<1> QED
  BY <1>4, <1>5

\* RecoverStuck: the worker that recovers executes nothing.
LEMMA RecoverStuckBudget ==
    ASSUME TypeOK, BudgetInv, NEW w \in Workers, RecoverStuck(w)
    PROVE  BudgetInv'
<1>1. /\ pc[w] = "recover" /\ pc' = [pc EXCEPT ![w] = "consume"]
      /\ UNCHANGED <<cur, attempt>>
  BY DEF RecoverStuck, Goto, execVars
<1> SUFFICES ASSUME NEW o \in Ops
             PROVE  retryCount'[o] + Cardinality(Incrementers(o)')
                        <= MaxRetries + Cardinality(Workers) - 1
  BY DEF BudgetInv
<1>2. /\ Incrementers(o)' \in SUBSET Incrementers(o)
      /\ Incrementers(o) \in SUBSET Workers /\ w \in Workers \ Incrementers(o)
  BY <1>1, Zenon DEF Incrementers, Executing, RetryAllowed, TypeOK
<1>3. /\ Cardinality(Incrementers(o)') \in Nat /\ Cardinality(Incrementers(o)) \in Nat
      /\ Cardinality(Incrementers(o)') <= Cardinality(Incrementers(o))
      /\ Cardinality(Incrementers(o)) <= Cardinality(Workers) - 1
      /\ Cardinality(Workers) \in Nat /\ retryCount[o] \in Nat /\ MaxRetries \in Nat
  BY <1>2, WorkerSets, ConstantsAssumption, Zenon DEF TypeOK
<1>4. \/ retryCount'[o] = retryCount[o]
      \/ retryCount'[o] = retryCount[o] + 1 /\ retryCount[o] < MaxRetries
  BY Zenon DEF RecoverStuck, Recoverable, Stuck, RecoveredCount
<1> QED
  BY <1>3, <1>4 DEF BudgetInv

\* Every step preserves BudgetInv.
LEMMA BudgetInductive == TypeOK /\ BudgetInv /\ [Next]_vars => BudgetInv'
<1> SUFFICES ASSUME TypeOK, BudgetInv, [Next]_vars PROVE BudgetInv'
  OBVIOUS
<1> DEFINE Frame == /\ UNCHANGED retryCount
                    /\ \A v \in Workers : pc'[v] = "execute" =>
                           /\ pc[v] = "execute" /\ cur'[v] = cur[v]
                           /\ attempt'[v] = attempt[v]
<1>1. CASE UNCHANGED vars
  <2>1. Frame
    BY <1>1 DEF vars, dbVars, execVars
  <2> QED
    BY <2>1, BudgetFrame
<1>2. ASSUME NEW o \in Ops, Create(o) \/ HeartbeatExpires(o) \/ BackoffElapses(o)
      PROVE  Frame
  BY <1>2, Zenon DEF Create, HeartbeatExpires, BackoffElapses, execVars
<1>3. ASSUME RedisLoses \/ OutboxBackoffElapses \/ MessageIdles PROVE Frame
  BY <1>3, Zenon DEF RedisLoses, OutboxBackoffElapses, MessageIdles, dbVars, rowVars, execVars
<1>4. ASSUME NEW w \in Workers,
             \/ DispatchClaim(w) \/ DispatchPublish(w) \/ DispatchCommit(w)
             \/ DispatchError(w) \/ Requeue(w)
      PROVE  Frame
  BY <1>4, Zenon DEF DispatchClaim, DispatchPublish, DispatchCommit, DispatchError, DispatchEnd,
              Requeue, Goto, dbVars, rowVars, execVars, TypeOK
<1>5. ASSUME NEW w \in Workers,
             \/ AutoClaim(w) \/ ReadGroup(w) \/ ReadNothing(w) \/ Skip(w)
      PROVE  Frame
  BY <1>5, Zenon DEF AutoClaim, ReadGroup, ReadNothing, Skip, Goto, dbVars, execVars, TypeOK
<1>6. ASSUME NEW w \in Workers,
             \/ Ack(w) \/ Complete(w) \/ Progress(w) \/ LostOperation(w)
      PROVE  Frame
  BY <1>6, SMT, SMTT(30) DEF Ack, Complete, Progress, LostOperation, Abandon, Goto, dbVars, execVars,
              TypeOK
<1>7. ASSUME NEW w \in Workers, WorkerFails(w) PROVE Frame
  <2>1. Following(pc[w]) # "execute"
    BY DEF Following
  <2> QED
    BY <1>7, <2>1, Zenon DEF WorkerFails, Abandon, Goto, dbVars, TypeOK
<1>8. Frame => BudgetInv'
  BY BudgetFrame
<1>9. ASSUME NEW w \in Workers, Claim(w) \/ ScheduleRetry(w) \/ RecoverStuck(w)
      PROVE  BudgetInv'
  BY <1>9, ClaimBudget, ScheduleRetryBudget, RecoverStuckBudget
<1> HIDE DEF Frame
<1> QED
  BY <1>1, <1>2, <1>3, <1>4, <1>5, <1>6, <1>7, <1>8, <1>9, Zenon DEF Next, WorkerStep

\* Late workers push retry_count past max_retries by less than one attempt per
\* worker, although ScheduleRetry checks the budget against the row as it was
\* claimed.
THEOREM RetriesStayBounded == Spec => []RetriesBounded
<1>1. Init => BudgetInv
  <2> SUFFICES ASSUME Init, NEW o \in Ops
               PROVE  retryCount[o] + Cardinality(Incrementers(o))
                          <= MaxRetries + Cardinality(Workers) - 1
    BY DEF BudgetInv
  <2>1. Incrementers(o) = {}
    BY DEF Init, Incrementers, Executing
  <2> QED
    BY <2>1, WorkerSets, FS_EmptySet, ConstantsAssumption DEF Init
<1>2. TypeOK /\ BudgetInv => RetriesBounded
  <2> SUFFICES ASSUME TypeOK, BudgetInv, NEW o \in Ops
               PROVE  retryCount[o] <= MaxRetries + Cardinality(Workers) - 1
    BY DEF RetriesBounded
  <2>1. Cardinality(Incrementers(o)) \in Nat /\ Cardinality(Workers) \in Nat
    BY WorkerSets DEF Incrementers
  <2> QED
    BY <2>1, ConstantsAssumption DEF BudgetInv, TypeOK
<1> QED
  BY <1>1, <1>2, BudgetInductive, TypeCorrect, PTL DEF Spec

-----------------------------------------------------------------------------
(***************************************************************************)
(* No operation is lost.  The argument counts announcements: each time an  *)
(* operation becomes queued its retry_count differs, the row written then  *)
(* carries that number, and every older row or message carries a smaller   *)
(* one.  A message that a consumer has tried is therefore either older     *)
(* than the current attempt or was tried when the operation had already    *)
(* left queued.                                                            *)
(***************************************************************************)

\* x, an outbox row or a message, announces an attempt that was really queued.
Announces(x) ==
    /\ status[x.op] # "absent"
    /\ x.n <= retryCount[x.op]
    /\ status[x.op] = "retrying" => x.n < retryCount[x.op]

Announcements ==
    /\ \A e \in outbox : Announces(e)
    /\ \A m \in stream \cup pel : Announces(m)
    /\ \A w \in Workers : /\ \A e \in locked[w] \cup sent[w] : Announces(e)
                          /\ \A m \in batch[w] : Announces(m)

\* A consumer that has tried to claim with the message of the current attempt
\* has found the operation claimed or has claimed it.
TriedIsClaimed ==
    \A w \in Workers : pc[w] \in {"execute", "ack"} =>
        /\ cur[w] \in batch[w]
        /\ cur[w].n = retryCount[cur[w].op] => status[cur[w].op] # "queued"

\* A row that does not exist yet has its columns' initial values.
Absent == \A o \in Ops : status[o] = "absent" => retryCount[o] = 0 /\ due[o]

\* A heartbeat is stale only after the backoff written with it has elapsed.
StaleIsDue == \A o \in Ops : heartbeat[o] = "stale" => due[o]

DeliveryInv ==
    /\ TypeOK
    /\ StaleIsDue
    /\ Absent
    /\ QueuedIsClaimable
    /\ Announcements
    /\ TriedIsClaimed
    /\ NoLostOperation

\* How a step may change a row so that older announcements stay older.
Grows(o) ==
    /\ status[o] # "absent" => status'[o] # "absent"
    /\ retryCount'[o] >= retryCount[o]
    /\ status'[o] = "retrying" => \/ status[o] = "retrying"
                                  \/ retryCount'[o] > retryCount[o]

\* An announcement stays valid when its operation's row grows.
LEMMA AnnouncesFrame ==
    ASSUME TypeOK, TypeOK', NEW x \in Events \cup Messages, Grows(x.op), Announces(x)
    PROVE  Announces(x)'
<1>1. x.op \in Ops /\ x.n \in Nat
  BY DEF Events, Messages
<1> QED
  BY <1>1, SMT, SMTT(30) DEF TypeOK, Grows, Announces

\* Announcements is preserved when rows grow and what is new was announced.
LEMMA AnnouncementsFrame ==
    ASSUME TypeOK, TypeOK', Announcements,
           \A o \in Ops : Grows(o),
           \A e \in outbox' \ outbox : Announces(e)',
           \A m \in (stream' \cup pel') \ (stream \cup pel) : Announces(m)',
           \A w \in Workers : /\ locked'[w] \cup sent'[w] \subseteq
                                     outbox \cup locked[w] \cup sent[w]
                              /\ batch'[w] \subseteq batch[w] \cup stream \cup pel
    PROVE  Announcements'
<1>1. ASSUME NEW x \in Events \cup Messages, Announces(x) PROVE Announces(x)'
  <2>1. x.op \in Ops
    BY DEF Events, Messages
  <2> QED
    BY <1>1, <2>1, AnnouncesFrame
<1>2. \A e \in outbox' : Announces(e)'
  BY <1>1, Zenon DEF Announcements, TypeOK
<1>3. \A m \in stream' \cup pel' : Announces(m)'
  BY <1>1, Zenon DEF Announcements, TypeOK
<1>4. ASSUME NEW w \in Workers
      PROVE  /\ \A e \in locked'[w] \cup sent'[w] : Announces(e)'
             /\ \A m \in batch'[w] : Announces(m)'
  BY <1>1, Zenon DEF Announcements, TypeOK
<1> QED
  BY <1>2, <1>3, <1>4 DEF Announcements

\* A queued operation stays deliverable when no unsent row and no untried
\* message of it disappears, except a row that became a message.
LEMMA DeliverableFrame ==
    ASSUME TypeOK, TypeOK', NEW o \in Ops, Deliverable(o),
           retryCount'[o] = retryCount[o],
           \A e \in Events : Unsent(e) /\ e.op = o =>
               \/ Unsent(e)'
               \/ \E m \in Messages : Untried(m)' /\ m.op = o /\ m.n = e.n,
           \A m \in Messages : Untried(m) /\ m.op = o => Untried(m)'
    PROVE  Deliverable(o)'
<1>1. CASE \E e \in outbox : Unsent(e) /\ e.op = o /\ e.n = retryCount[o]
  <2>1. PICK e \in Events : Unsent(e) /\ e.op = o /\ e.n = retryCount[o]
    BY <1>1, Zenon DEF TypeOK
  <2>2. CASE Unsent(e)'
    BY <2>1, <2>2, Zenon DEF Deliverable, Unsent
  <2>3. CASE \E m \in Messages : Untried(m)' /\ m.op = o /\ m.n = e.n
    BY <2>1, <2>3 DEF Deliverable, Untried
  <2> QED
    BY <2>1, <2>2, <2>3
<1>2. CASE \E m \in stream \cup pel : Untried(m) /\ m.op = o /\ m.n = retryCount[o]
  <2>1. PICK m \in Messages : Untried(m) /\ m.op = o /\ m.n = retryCount[o]
    BY <1>2, Zenon DEF TypeOK
  <2> QED
    BY <2>1 DEF Deliverable, Untried
<1> QED
  BY <1>1, <1>2, Zenon DEF Deliverable

\* The parts of TypeOK the action lemmas need.
RowTypes ==
    /\ status \in [Ops -> Status] /\ retryCount \in [Ops -> Nat]
    /\ heartbeat \in [Ops -> {"null", "fresh", "stale"}] /\ due \in [Ops -> BOOLEAN]

WorkerTypes ==
    /\ pc \in [Workers -> {"dispatch", "publish", "retry", "recover",
                           "consume", "process", "execute", "ack"}]
    /\ cur \in [Workers -> Messages \cup {NoMessage}]
    /\ batch \in [Workers -> SUBSET Messages]

StoreTypes ==
    /\ outbox \subseteq Events /\ stream \subseteq Messages /\ pel \subseteq Messages
    /\ locked \in [Workers -> SUBSET Events] /\ sent \in [Workers -> SUBSET Events]

\* TypeOK, part by part.
LEMMA TypeParts == TypeOK => RowTypes /\ WorkerTypes /\ StoreTypes
BY DEF TypeOK, RowTypes, WorkerTypes, StoreTypes

\* Create writes row and event in one transaction, so the new attempt is announced.
LEMMA CreateKeepsDelivery ==
    ASSUME DeliveryInv, TypeOK',
           NEW p \in Ops, Create(p)
    PROVE  DeliveryInv'
<1> USE DEF DeliveryInv
<1>1. /\ status[p] = "absent" /\ status' = [status EXCEPT ![p] = "queued"]
      /\ outbox' = outbox \cup {[op |-> p, n |-> 0]}
      /\ UNCHANGED <<retryCount, heartbeat, due, redisVars, pc, dispatchVars, execVars>>
  BY DEF Create
<1>2. retryCount[p] = 0 /\ due[p]
  BY <1>1 DEF Absent
<1>3. \A o \in Ops : Grows(o)
  BY <1>1, TypeParts, SMT, SMTT(30) DEF RowTypes, Grows
<1>4. Absent' /\ StaleIsDue' /\ QueuedIsClaimable'
  BY <1>1, <1>2, TypeParts, Zenon DEF RowTypes, Absent, StaleIsDue, QueuedIsClaimable
<1>5. Announces([op |-> p, n |-> 0])'
  BY <1>1, <1>2, TypeParts, SMT, SMTT(30) DEF RowTypes, WorkerTypes, StoreTypes, Announces
<1>6. Announcements'
  BY <1>1, <1>3, <1>5, AnnouncementsFrame, Zenon DEF redisVars, dispatchVars, execVars
<1>7. TriedIsClaimed'
  BY <1>1, TypeParts, SMT, SMTT(30)
  DEF RowTypes, WorkerTypes, TriedIsClaimed, Announcements, Announces, execVars
<1>8. ASSUME NEW o \in Ops, status'[o] = "queued" PROVE Deliverable(o)'
  <2>1. CASE o = p
    <3> DEFINE e == [op |-> p, n |-> 0]
    <3>1. e \in outbox' /\ e.op = o /\ e.n = retryCount'[o]
      BY <1>1, <1>2, <2>1
    <3>2. \A w \in Workers : e \notin sent[w]
      BY <1>1, SMT, SMTT(30) DEF Announcements, Announces
    <3>3. Unsent(e)'
      BY <1>1, <3>1, <3>2 DEF Unsent, dispatchVars
    <3> QED
      BY <3>1, <3>3 DEF Deliverable
  <2>2. CASE o # p
    <3>1. status[o] = "queued" /\ retryCount'[o] = retryCount[o]
      BY <1>1, <1>8, <2>2, TypeParts DEF RowTypes
    <3>2. \A e \in Events : Unsent(e) => Unsent(e)'
      BY <1>1 DEF Unsent, dispatchVars
    <3>3. \A m \in Messages : Untried(m) => Untried(m)'
      BY <1>1, Zenon DEF Untried, redisVars, execVars
    <3> QED
      BY <3>1, <3>2, <3>3, DeliverableFrame DEF NoLostOperation
  <2> QED
    BY <2>1, <2>2
<1> QED
  BY <1>4, <1>6, <1>7, <1>8 DEF DeliveryInv, NoLostOperation

\* A heartbeat only expires on a row that is due.
LEMMA HeartbeatExpiresKeepsDelivery ==
    ASSUME DeliveryInv, TypeOK',
           NEW o \in Ops, HeartbeatExpires(o)
    PROVE  DeliveryInv'
<1> USE DEF DeliveryInv
<1>1. \A p \in Ops : Grows(p)
  BY TypeParts, SMT, SMTT(30)
  DEF RowTypes, Grows, HeartbeatExpires, redisVars, dispatchVars, execVars
<1>2. Absent' /\ StaleIsDue' /\ QueuedIsClaimable'
  BY TypeParts, Zenon
  DEF RowTypes, Absent, StaleIsDue, QueuedIsClaimable, HeartbeatExpires, redisVars,
      dispatchVars, execVars
<1>3. Announcements'
  BY <1>1, AnnouncementsFrame, TypeParts, Zenon
  DEF RowTypes, WorkerTypes, StoreTypes, Announcements, HeartbeatExpires, redisVars,
      dispatchVars, execVars
<1>4. TriedIsClaimed'
  BY TypeParts, Zenon
  DEF RowTypes, WorkerTypes, TriedIsClaimed, QueuedIsClaimable, Messages,
      HeartbeatExpires, redisVars, dispatchVars, execVars
<1>5. ASSUME NEW p \in Ops, status'[p] = "queued" PROVE Deliverable(p)'
  <2>1. status[p] = "queued" /\ retryCount'[p] = retryCount[p]
    BY <1>5, TypeParts, Zenon
    DEF RowTypes, WorkerTypes, StoreTypes, HeartbeatExpires, redisVars,
        dispatchVars, execVars
  <2>2. \A e \in Events : Unsent(e) /\ e.op = p => Unsent(e)'
    BY TypeParts, Zenon
    DEF StoreTypes, Unsent, HeartbeatExpires, redisVars, dispatchVars, execVars
  <2>3. \A m \in Messages : Untried(m) /\ m.op = p => Untried(m)'
    BY <2>1, <1>5, TypeParts, Zenon
    DEF WorkerTypes, Untried, Messages, HeartbeatExpires, redisVars, dispatchVars,
        execVars
  <2> QED
    BY <2>1, <2>2, <2>3, DeliverableFrame DEF NoLostOperation
<1> QED
  BY <1>2, <1>3, <1>4, <1>5 DEF DeliveryInv, NoLostOperation

\* The end of a backoff makes rows due and changes nothing else.
LEMMA BackoffElapsesKeepsDelivery ==
    ASSUME DeliveryInv, TypeOK',
           NEW o \in Ops, BackoffElapses(o)
    PROVE  DeliveryInv'
<1> USE DEF DeliveryInv
<1>1. \A p \in Ops : Grows(p)
  BY TypeParts, SMT, SMTT(30)
  DEF RowTypes, Grows, BackoffElapses, redisVars, dispatchVars, execVars
<1>2. Absent' /\ StaleIsDue' /\ QueuedIsClaimable'
  BY TypeParts, Zenon
  DEF RowTypes, Absent, StaleIsDue, QueuedIsClaimable, BackoffElapses, redisVars,
      dispatchVars, execVars
<1>3. Announcements'
  BY <1>1, AnnouncementsFrame, TypeParts, Zenon
  DEF RowTypes, WorkerTypes, StoreTypes, Announcements, BackoffElapses, redisVars,
      dispatchVars, execVars
<1>4. TriedIsClaimed'
  BY TypeParts, Zenon
  DEF RowTypes, WorkerTypes, TriedIsClaimed, QueuedIsClaimable, Messages,
      BackoffElapses, redisVars, dispatchVars, execVars
<1>5. ASSUME NEW p \in Ops, status'[p] = "queued" PROVE Deliverable(p)'
  <2>1. status[p] = "queued" /\ retryCount'[p] = retryCount[p]
    BY <1>5, TypeParts, Zenon
    DEF RowTypes, WorkerTypes, StoreTypes, BackoffElapses, redisVars, dispatchVars,
        execVars
  <2>2. \A e \in Events : Unsent(e) /\ e.op = p => Unsent(e)'
    BY TypeParts, Zenon
    DEF StoreTypes, Unsent, BackoffElapses, redisVars, dispatchVars, execVars
  <2>3. \A m \in Messages : Untried(m) /\ m.op = p => Untried(m)'
    BY <2>1, <1>5, TypeParts, Zenon
    DEF WorkerTypes, Untried, Messages, BackoffElapses, redisVars, dispatchVars,
        execVars
  <2> QED
    BY <2>1, <2>2, <2>3, DeliverableFrame DEF NoLostOperation
<1> QED
  BY <1>2, <1>3, <1>4, <1>5 DEF DeliveryInv, NoLostOperation

\* Locking rows does not consume them.
LEMMA DispatchClaimKeepsDelivery ==
    ASSUME DeliveryInv, TypeOK',
           NEW w \in Workers, DispatchClaim(w)
    PROVE  DeliveryInv'
<1> USE DEF DeliveryInv
<1>1. /\ \A v \in Workers : locked'[v] = locked[v] \/ (v = w /\ locked'[v] \subseteq outbox)
      /\ sent' = sent /\ pc[w] = "dispatch" /\ Goto(w, "publish")
      /\ UNCHANGED <<dbVars, redisVars, execVars>>
  BY TypeParts, Zenon DEF RowTypes, WorkerTypes, StoreTypes, DispatchClaim, ClaimableRows
<1>2. Absent' /\ StaleIsDue' /\ QueuedIsClaimable'
  BY <1>1, Zenon DEF Absent, StaleIsDue, QueuedIsClaimable, dbVars
<1>3. Announcements'
  BY <1>1, TypeParts, Zenon
  DEF RowTypes, WorkerTypes, StoreTypes, DispatchClaim, Announcements, Announces,
      dbVars, redisVars, execVars
<1>4. TriedIsClaimed'
  BY <1>1, TypeParts, Zenon
  DEF RowTypes, WorkerTypes, TriedIsClaimed, Goto, dbVars, execVars
<1>5. ASSUME NEW o \in Ops, status'[o] = "queued" PROVE Deliverable(o)'
  <2>1. status[o] = "queued" /\ retryCount'[o] = retryCount[o]
    BY <1>1, <1>5 DEF dbVars
  <2>2. \A e \in Events : Unsent(e) => Unsent(e)'
    BY <1>1 DEF Unsent, dbVars
  <2>3. \A m \in Messages : Untried(m) => Untried(m)'
    BY <1>1, TypeParts, Zenon DEF WorkerTypes, Untried, Goto, redisVars, execVars
  <2> QED
    BY <2>1, <2>2, <2>3, DeliverableFrame DEF NoLostOperation
<1> QED
  BY <1>2, <1>3, <1>4, <1>5 DEF DeliveryInv, NoLostOperation

\* A published row is replaced by a fresh message before it is marked.
LEMMA DispatchPublishKeepsDelivery ==
    ASSUME DeliveryInv, TypeOK',
           NEW w \in Workers, DispatchPublish(w)
    PROVE  DeliveryInv'
<1> USE DEF DeliveryInv
<1>1. PICK e \in locked[w] : XAdd(e) /\ sent' = [sent EXCEPT ![w] = @ \cup {e}]
  BY Zenon DEF DispatchPublish
<1>2. UNCHANGED <<dbVars, pel, pc, locked, execVars>>
  BY DEF DispatchPublish
<1>3. e \in Events /\ Announces(e)
  BY <1>1, TypeParts, Zenon DEF RowTypes, WorkerTypes, StoreTypes, Announcements
<1>4. PICK x \in Messages : /\ x.op = e.op /\ x.n = e.n /\ Free(x)
                            /\ stream' = stream \cup {x}
  BY <1>1, <1>3, XAddAppends
<1>5. Absent' /\ StaleIsDue' /\ QueuedIsClaimable' /\ TriedIsClaimed'
  BY <1>2, Zenon
  DEF Absent, StaleIsDue, QueuedIsClaimable, TriedIsClaimed, dbVars, execVars
<1>6. Announcements'
  <2>1. \A y \in Events \cup Messages : Announces(y) => Announces(y)'
    BY <1>2, Zenon DEF Announces, dbVars
  <2>2. \A v \in Workers : sent'[v] \subseteq sent[v] \cup {e}
    BY <1>1, TypeParts, Zenon DEF StoreTypes
  <2>3. Announces(x)
    BY <1>3, <1>4, Zenon DEF Announces
  <2>4. /\ outbox' = outbox /\ pel' = pel /\ locked' = locked /\ batch' = batch
    BY <1>2, Zenon DEF dbVars, execVars
  <2> QED
    BY <1>3, <1>4, <2>1, <2>2, <2>3, <2>4, TypeParts, SMT, SMTT(30)
    DEF StoreTypes, WorkerTypes, Announcements
<1>7. ASSUME NEW o \in Ops, status'[o] = "queued" PROVE Deliverable(o)'
  <2>1. status[o] = "queued" /\ retryCount'[o] = retryCount[o]
    BY <1>2, <1>7 DEF dbVars
  <2>2. Untried(x)'
    BY <1>2, <1>4 DEF Untried, Free, TriedIsClaimed, execVars
  <2>3. \A f \in Events : Unsent(f) => f = e \/ Unsent(f)'
    BY <1>1, <1>2, TypeParts, Zenon DEF StoreTypes, Unsent, dbVars
  <2>4. \A m \in Messages : Untried(m) => Untried(m)'
    BY <1>2, <1>4 DEF Untried, execVars
  <2> QED
    BY <1>4, <2>1, <2>2, <2>3, <2>4, DeliverableFrame DEF NoLostOperation
<1> QED
  BY <1>5, <1>6, <1>7 DEF DeliveryInv, NoLostOperation

\* Commit removes only rows that were published and marked.
LEMMA DispatchCommitKeepsDelivery ==
    ASSUME DeliveryInv, TypeOK',
           NEW w \in Workers, DispatchCommit(w)
    PROVE  DeliveryInv'
<1> USE DEF DeliveryInv
<1>1. \A o \in Ops : Grows(o)
  BY TypeParts, SMT, SMTT(30)
  DEF RowTypes, Grows, DispatchCommit, DispatchEnd, Goto, rowVars, redisVars,
      execVars
<1>2. Absent' /\ StaleIsDue' /\ QueuedIsClaimable'
  BY TypeParts, Zenon
  DEF RowTypes, Absent, StaleIsDue, QueuedIsClaimable, DispatchCommit, DispatchEnd,
      Goto, rowVars, redisVars, execVars
<1>3. Announcements'
  BY <1>1, AnnouncementsFrame, TypeParts, Zenon
  DEF RowTypes, WorkerTypes, StoreTypes, Announcements, DispatchCommit, DispatchEnd,
      Goto, rowVars, redisVars, execVars
<1>4. TriedIsClaimed'
  BY TypeParts, Zenon
  DEF RowTypes, WorkerTypes, TriedIsClaimed, QueuedIsClaimable, Messages,
      DispatchCommit, DispatchEnd, Goto, rowVars, redisVars, execVars
<1>5. ASSUME NEW o \in Ops, status'[o] = "queued" PROVE Deliverable(o)'
  <2>1. status[o] = "queued" /\ retryCount'[o] = retryCount[o]
    BY <1>5, TypeParts, Zenon
    DEF RowTypes, DispatchCommit, DispatchEnd, Goto, rowVars, redisVars, execVars
  <2>2. \A e \in Events : Unsent(e) /\ e.op = o => Unsent(e)'
    BY TypeParts, Zenon
    DEF StoreTypes, Unsent, DispatchCommit, DispatchEnd, Goto, rowVars, redisVars,
        execVars
  <2>3. \A m \in Messages : Untried(m) /\ m.op = o => Untried(m)'
    BY <2>1, <1>5, TypeParts, Zenon
    DEF WorkerTypes, Untried, Messages, DispatchCommit, DispatchEnd, Goto, rowVars,
        redisVars, execVars
  <2> QED
    BY <2>1, <2>2, <2>3, DeliverableFrame DEF NoLostOperation
<1> QED
  BY <1>2, <1>3, <1>4, <1>5 DEF DeliveryInv, NoLostOperation

\* A failed publication commits the rows marked before it and keeps the others.
LEMMA DispatchErrorKeepsDelivery ==
    ASSUME DeliveryInv, TypeOK',
           NEW w \in Workers, DispatchError(w)
    PROVE  DeliveryInv'
<1> USE DEF DeliveryInv
<1>1. PICK e \in locked[w] : XAdd(e) \/ UNCHANGED stream
  BY DEF DispatchError
<1>2. /\ outbox' = outbox \ sent[w]
      /\ locked' = [locked EXCEPT ![w] = {}]
      /\ sent' = [sent EXCEPT ![w] = {}]
      /\ pc[w] = "publish" /\ Goto(w, "retry")
      /\ UNCHANGED <<rowVars, pel, execVars>>
  BY Zenon DEF DispatchError, DispatchEnd
<1>3. e \in Events /\ Announces(e)
  BY <1>1, TypeParts, Zenon DEF RowTypes, WorkerTypes, StoreTypes, Announcements
<1>4. /\ stream \subseteq stream'
      /\ \A m \in stream' \ stream : m \in Messages /\ m.op = e.op /\ m.n = e.n
  BY <1>1, <1>3, XAddAppends, TypeParts DEF RowTypes, WorkerTypes, StoreTypes
<1>5. Absent' /\ StaleIsDue' /\ QueuedIsClaimable'
  BY <1>2, Zenon DEF Absent, StaleIsDue, QueuedIsClaimable, rowVars
<1>6. TriedIsClaimed'
  BY <1>2, TypeParts, Zenon
  DEF RowTypes, WorkerTypes, TriedIsClaimed, Goto, rowVars, execVars
<1>7. Announcements'
  <2>1. \A o \in Ops : Grows(o)
    BY <1>2, TypeParts, SMT, SMTT(30) DEF RowTypes, Grows, rowVars
  <2>2. \A m \in stream' \ stream : Announces(m)'
    BY <1>2, <1>3, <1>4, Zenon DEF Announces, rowVars
  <2>3. \A v \in Workers : locked'[v] \subseteq locked[v] /\ sent'[v] \subseteq sent[v]
    BY <1>2, TypeParts, Zenon DEF RowTypes, WorkerTypes, StoreTypes
  <2> QED
    BY <1>2, <2>1, <2>2, <2>3, AnnouncementsFrame, Zenon DEF execVars
<1>8. ASSUME NEW o \in Ops, status'[o] = "queued" PROVE Deliverable(o)'
  <2>1. status[o] = "queued" /\ retryCount'[o] = retryCount[o]
    BY <1>2, <1>8 DEF rowVars
  <2>2. \A f \in Events : Unsent(f) => Unsent(f)'
    BY <1>2, TypeParts DEF StoreTypes, Unsent
  <2>3. \A m \in Messages : Untried(m) => Untried(m)'
    BY <1>2, <1>4, TypeParts, Zenon DEF WorkerTypes, Untried, Goto, execVars
  <2> QED
    BY <2>1, <2>2, <2>3, DeliverableFrame DEF NoLostOperation
<1> QED
  BY <1>5, <1>6, <1>7, <1>8 DEF DeliveryInv, NoLostOperation

\* The retry scheduler announces an attempt no older row or message carries.
LEMMA RequeueKeepsDelivery ==
    ASSUME DeliveryInv, TypeOK',
           NEW w \in Workers, Requeue(w)
    PROVE  DeliveryInv'
<1> USE DEF DeliveryInv
<1> DEFINE New == DueRetries
<1>1. /\ New \subseteq Ops
      /\ \A o \in New : status'[o] = "queued" /\ due'[o] /\ status[o] # "absent"
      /\ \A o \in New : retryCount'[o] = retryCount[o]
      /\ \A o \in Ops \ New : /\ retryCount'[o] = retryCount[o]
                              /\ status'[o] = status[o]
      /\ due' = due
      /\ \A o \in Ops : heartbeat'[o] \in {heartbeat[o], "null"}
      /\ outbox' = outbox \cup {[op |-> o, n |-> retryCount'[o]] : o \in New}
  BY TypeParts, Zenon DEF RowTypes, WorkerTypes, StoreTypes, Requeue, DueRetries
<1>2. /\ pc[w] \notin {"execute", "ack"} /\ \E l \in {"recover", "consume"} : Goto(w, l)
      /\ UNCHANGED <<redisVars, dispatchVars, execVars>>
  BY Zenon DEF Requeue
<1> HIDE DEF New
<1>3. ASSUME NEW x \in Events \cup Messages, Announces(x), x.op \in New
      PROVE  x.n < retryCount'[x.op]
  BY <1>1, <1>3, Zenon DEF Announces, DueRetries, New
<1>4. \A o \in Ops : Grows(o)
  BY <1>1, TypeParts, SMT, SMTT(30) DEF RowTypes, Grows
<1>5. Absent' /\ StaleIsDue' /\ QueuedIsClaimable'
  BY <1>1, TypeParts, SMT, SMTT(30) DEF RowTypes, Absent, StaleIsDue, QueuedIsClaimable
<1>6. Announcements'
  <2>1. \A e \in outbox' \ outbox : Announces(e)'
    <3> SUFFICES ASSUME NEW e \in outbox' \ outbox PROVE Announces(e)'
      OBVIOUS
    <3>1. PICK o \in New : e = [op |-> o, n |-> retryCount'[o]]
      BY <1>1
    <3>2. e.op = o /\ e.n = retryCount'[o]
      BY <3>1
    <3> QED
      BY <1>1, <3>2, TypeParts, SMT, SMTT(30) DEF RowTypes, Announces
  <2> QED
    BY <1>2, <1>4, <2>1, AnnouncementsFrame, ZenonT(40) DEF redisVars, dispatchVars, execVars
<1>7. TriedIsClaimed'
  <2> SUFFICES ASSUME NEW v \in Workers, pc'[v] \in {"execute", "ack"}
               PROVE  /\ cur'[v] \in batch'[v]
                      /\ cur'[v].n = retryCount'[cur'[v].op] => status'[cur'[v].op] # "queued"
    BY Zenon DEF TriedIsClaimed
  <2>1. pc[v] = pc'[v] /\ cur' = cur /\ batch' = batch
    BY <1>2, TypeParts DEF WorkerTypes, Goto, execVars
  <2>2. cur[v] \in batch[v] /\ cur[v] \in Messages /\ cur[v].op \in Ops /\ Announces(cur[v])
    BY <2>1, TypeParts, SMT, SMTT(30)
    DEF WorkerTypes, TriedIsClaimed, Announcements, Messages
  <2>3. CASE cur[v].op \in New
    BY <1>3, <2>1, <2>2, <2>3, TypeParts, SMT, SMTT(30)
    DEF RowTypes, Messages
  <2>4. CASE cur[v].op \notin New
    BY <1>1, <2>1, <2>2, <2>4 DEF TriedIsClaimed
  <2> QED
    BY <2>3, <2>4, Zenon
<1>8. ASSUME NEW o \in Ops, status'[o] = "queued" PROVE Deliverable(o)'
  <2>1. CASE o \in New
    <3> DEFINE e == [op |-> o, n |-> retryCount'[o]]
    <3>1. e \in outbox' /\ e \in Events /\ e.op = o /\ e.n = retryCount'[o]
      <4>1. retryCount'[o] \in Nat
        BY <1>1, <2>1, TypeParts, Zenon DEF RowTypes
      <4> QED
        BY <1>1, <2>1, <4>1, Zenon DEF Events
    <3> HIDE DEF e
    <3>2. \A v \in Workers : e \notin sent[v]
      BY <1>3, <2>1, <3>1, SMT, SMTT(30) DEF Announcements, TypeOK
    <3> QED
      BY <1>2, <3>1, <3>2, Zenon DEF Deliverable, Unsent, dispatchVars
  <2>2. CASE o \notin New
    <3>1. status[o] = "queued" /\ retryCount'[o] = retryCount[o]
      BY <1>1, <1>8, <2>2, ZenonT(40)
    <3>2. \A f \in Events : Unsent(f) => Unsent(f)'
      BY <1>1, <1>2, Zenon DEF Unsent, dispatchVars
    <3>3. \A m \in Messages : Untried(m) => Untried(m)'
      BY <1>2, TypeParts, Zenon DEF WorkerTypes, Untried, Goto, redisVars, execVars
    <3> QED
      BY <3>1, <3>2, <3>3, DeliverableFrame DEF NoLostOperation
  <2> QED
    BY <2>1, <2>2
<1> QED
  BY <1>5, <1>6, <1>7, <1>8 DEF DeliveryInv, NoLostOperation

\* Recovery increments retry_count and announces the incremented attempt.
LEMMA RecoverStuckKeepsDelivery ==
    ASSUME DeliveryInv, TypeOK',
           NEW w \in Workers, RecoverStuck(w)
    PROVE  DeliveryInv'
<1> USE DEF DeliveryInv
<1> DEFINE New == Recoverable
<1>1. /\ New \subseteq Ops
      /\ \A o \in New : status'[o] = "queued" /\ due'[o] /\ status[o] # "absent"
      /\ \A o \in New : retryCount'[o] = retryCount[o] + 1
      /\ \A o \in Ops \ New : /\ retryCount'[o] = retryCount[o]
                              /\ status'[o] = status[o] \/ (status[o] \in Active /\ status'[o] = "failed")
      /\ due' = due
      /\ \A o \in Ops : heartbeat'[o] \in {heartbeat[o], "null"}
      /\ outbox' = outbox \cup {[op |-> o, n |-> retryCount'[o]] : o \in New}
  <2>1. /\ New \subseteq Stuck /\ Stuck \subseteq Ops
        /\ \A o \in Stuck : status[o] \in Active /\ heartbeat[o] = "stale"
    BY DEF Stuck, Recoverable
  <2>2. \A o \in Ops : /\ retryCount'[o] = IF o \in New THEN retryCount[o] + 1 ELSE retryCount[o]
                       /\ o \in New => status'[o] = "queued"
                       /\ o \notin New => status'[o] = status[o] \/ (o \in Stuck /\ status'[o] = "failed")
                       /\ heartbeat'[o] \in {heartbeat[o], "null"}
    BY <2>1 DEF RecoverStuck, RecoveredCount
  <2>3. due' = due /\ outbox' = outbox \cup {[op |-> o, n |-> retryCount[o] + 1] : o \in New}
    BY DEF RecoverStuck, RecoveryEvents, RecoveredCount
  <2> HIDE DEF New
  <2>4. {[op |-> o, n |-> retryCount[o] + 1] : o \in New} = {[op |-> o, n |-> retryCount'[o]] : o \in New}
    BY <2>1, <2>2, SMT, SMTT(30)
  <2>5. \A o \in New : due'[o] /\ status[o] # "absent"
    BY <2>1, <2>3 DEF StaleIsDue, Active
  <2> QED
    BY <2>1, <2>2, <2>3, <2>4, <2>5, ZenonT(40)
<1>2. /\ pc[w] \notin {"execute", "ack"} /\ \E l \in {"recover", "consume"} : Goto(w, l)
      /\ UNCHANGED <<redisVars, dispatchVars, execVars>>
  BY Zenon DEF RecoverStuck
<1> HIDE DEF New
<1>3. ASSUME NEW x \in Events \cup Messages, Announces(x), x.op \in New
      PROVE  x.n < retryCount'[x.op]
  BY <1>1, <1>3, TypeParts, SMT, SMTT(30) DEF RowTypes, Announces, Events, Messages
<1>4. \A o \in Ops : Grows(o)
  BY <1>1, TypeParts, SMT, SMTT(30) DEF RowTypes, Grows
<1>5. Absent' /\ StaleIsDue' /\ QueuedIsClaimable'
  BY <1>1, TypeParts, SMT, SMTT(30) DEF RowTypes, Absent, StaleIsDue, Active, QueuedIsClaimable
<1>6. Announcements'
  <2>1. \A e \in outbox' \ outbox : Announces(e)'
    <3> SUFFICES ASSUME NEW e \in outbox' \ outbox PROVE Announces(e)'
      OBVIOUS
    <3>1. PICK o \in New : e = [op |-> o, n |-> retryCount'[o]]
      BY <1>1, Zenon
    <3>2. e.op = o /\ e.n = retryCount'[o]
      BY <3>1
    <3> QED
      BY <1>1, <3>2, TypeParts, SMT, SMTT(30) DEF RowTypes, Announces
  <2> QED
    BY <1>2, <1>4, <2>1, AnnouncementsFrame, Zenon DEF redisVars, dispatchVars, execVars
<1>7. TriedIsClaimed'
  <2> SUFFICES ASSUME NEW v \in Workers, pc'[v] \in {"execute", "ack"}
               PROVE  /\ cur'[v] \in batch'[v]
                      /\ cur'[v].n = retryCount'[cur'[v].op] => status'[cur'[v].op] # "queued"
    BY Zenon DEF TriedIsClaimed
  <2>1. pc[v] = pc'[v] /\ cur' = cur /\ batch' = batch
    BY <1>2, TypeParts DEF WorkerTypes, Goto, execVars
  <2>2. cur[v] \in batch[v] /\ cur[v] \in Messages /\ cur[v].op \in Ops /\ Announces(cur[v])
    BY <2>1, TypeParts, SMT, SMTT(30)
    DEF WorkerTypes, TriedIsClaimed, Announcements, Messages
  <2>3. CASE cur[v].op \in New
    BY <1>3, <2>1, <2>2, <2>3, TypeParts, SMT, SMTT(30)
    DEF RowTypes, Messages
  <2>4. CASE cur[v].op \notin New
    BY <1>1, <2>1, <2>2, <2>4, SMT, SMTT(30) DEF TriedIsClaimed
  <2> QED
    BY <2>3, <2>4, Zenon
<1>8. ASSUME NEW o \in Ops, status'[o] = "queued" PROVE Deliverable(o)'
  <2>1. CASE o \in New
    <3> DEFINE e == [op |-> o, n |-> retryCount'[o]]
    <3>1. e \in outbox' /\ e \in Events /\ e.op = o /\ e.n = retryCount'[o]
      BY <1>1, <2>1, ZenonT(40) DEF TypeOK
    <3> HIDE DEF e
    <3>2. \A v \in Workers : e \notin sent[v]
      BY <1>3, <2>1, <3>1, SMT, SMTT(30) DEF Announcements, TypeOK
    <3> QED
      BY <1>2, <3>1, <3>2 DEF Deliverable, Unsent, dispatchVars
  <2>2. CASE o \notin New
    <3>1. status[o] = "queued" /\ retryCount'[o] = retryCount[o]
      BY <1>1, <1>8, <2>2, Zenon
    <3>2. \A f \in Events : Unsent(f) => Unsent(f)'
      BY <1>1, <1>2, ZenonT(40) DEF Unsent, dispatchVars
    <3>3. \A m \in Messages : Untried(m) => Untried(m)'
      BY <1>2, TypeParts DEF WorkerTypes, Untried, Goto, redisVars, execVars
    <3> QED
      BY <3>1, <3>2, <3>3, DeliverableFrame DEF NoLostOperation
  <2> QED
    BY <2>1, <2>2
<1> QED
  BY <1>5, <1>6, <1>7, <1>8 DEF DeliveryInv, NoLostOperation

-----------------------------------------------------------------------------
\* Reading or taking over entries moves them to a worker's memory untried.
LEMMA ReadKeepsDelivery ==
    ASSUME DeliveryInv, TypeOK',
           NEW w \in Workers, AutoClaim(w) \/ ReadGroup(w)
    PROVE  DeliveryInv'
<1> USE DEF DeliveryInv
<1>1. PICK B \in SUBSET (stream \cup pel) : batch' = [batch EXCEPT ![w] = B]
  BY Zenon DEF AutoClaim, ReadGroup, Replies, TypeOK
<1>2. /\ stream' \cup pel' = stream \cup pel
      /\ pc[w] = "consume" /\ Goto(w, "process")
      /\ UNCHANGED <<dbVars, dispatchVars, cur>>
  BY Zenon DEF AutoClaim, ReadGroup, Replies
<1>3. Absent' /\ StaleIsDue' /\ QueuedIsClaimable'
  BY <1>2, ZenonT(40) DEF Absent, StaleIsDue, QueuedIsClaimable, dbVars
<1>4. Announcements'
  <2>1. \A o \in Ops : Grows(o)
    BY <1>2, TypeParts, SMT, SMTT(30) DEF RowTypes, Grows, dbVars
  <2>2. \A v \in Workers : batch'[v] \subseteq batch[v] \cup stream \cup pel
    BY <1>1, TypeParts DEF WorkerTypes
  <2> QED
    BY <1>2, <2>1, <2>2, AnnouncementsFrame, ZenonT(40) DEF dbVars, dispatchVars
<1>5. TriedIsClaimed'
  BY <1>1, <1>2, TypeParts, ZenonT(40) DEF WorkerTypes, TriedIsClaimed, Goto, dbVars
<1>6. ASSUME NEW o \in Ops, status'[o] = "queued" PROVE Deliverable(o)'
  <2>1. status[o] = "queued" /\ retryCount'[o] = retryCount[o]
    BY <1>2, <1>6 DEF dbVars
  <2>2. \A e \in Events : Unsent(e) => Unsent(e)'
    BY <1>2 DEF Unsent, dbVars, dispatchVars
  <2>3. \A m \in Messages : Untried(m) => Untried(m)'
    BY <1>2, TypeParts DEF WorkerTypes, Untried, Goto
  <2> QED
    BY <2>1, <2>2, <2>3, DeliverableFrame, Zenon DEF NoLostOperation
<1> QED
  BY <1>3, <1>4, <1>5, <1>6, Zenon DEF DeliveryInv, NoLostOperation

\* A message is used up only together with the claim it makes.
LEMMA ClaimKeepsDelivery ==
    ASSUME DeliveryInv, TypeOK',
           NEW w \in Workers, Claim(w)
    PROVE  DeliveryInv'
<1> USE DEF DeliveryInv
<1>1. PICK x \in batch[w] : /\ status[x.op] = "queued"
                            /\ status' = [status EXCEPT ![x.op] = "running"]
                            /\ heartbeat' = [heartbeat EXCEPT ![x.op] = "fresh"]
                            /\ cur' = [cur EXCEPT ![w] = x]
  BY ZenonT(40) DEF Claim
<1>2. /\ Goto(w, "execute")
      /\ UNCHANGED <<retryCount, due, outbox, redisVars, dispatchVars, batch>>
  BY Zenon DEF Claim
<1>3. x \in Messages /\ x.op \in Ops
  BY <1>1, TypeParts, SMT, SMTT(30) DEF WorkerTypes, Messages
<1>4. \A o \in Ops : Grows(o)
  BY <1>1, <1>2, <1>3, TypeParts, SMT, SMTT(30) DEF RowTypes, Grows
<1>5. Absent' /\ StaleIsDue' /\ QueuedIsClaimable'
  BY <1>1, <1>2, <1>3, TypeParts, ZenonT(40)
  DEF RowTypes, Absent, StaleIsDue, QueuedIsClaimable
<1>6. Announcements'
  BY <1>2, <1>4, AnnouncementsFrame DEF redisVars, dispatchVars
<1>7. TriedIsClaimed'
  <2> SUFFICES ASSUME NEW v \in Workers, pc'[v] \in {"execute", "ack"}
               PROVE  /\ cur'[v] \in batch'[v]
                      /\ cur'[v].n = retryCount'[cur'[v].op] => status'[cur'[v].op] # "queued"
    BY Zenon DEF TriedIsClaimed
  <2>1. CASE v = w
    BY <1>1, <1>2, <1>3, <2>1, TypeParts, Zenon DEF RowTypes, WorkerTypes
  <2>2. CASE v # w
    <3>1. pc[v] = pc'[v] /\ cur'[v] = cur[v] /\ batch'[v] = batch[v]
      BY <1>1, <1>2, <2>2, TypeParts DEF WorkerTypes, Goto
    <3>2. cur[v] \in batch[v] /\ cur[v].op \in Ops
      BY <3>1, TypeParts, SMT, SMTT(30) DEF WorkerTypes, TriedIsClaimed, Messages
    <3> QED
      BY <1>1, <1>2, <1>3, <3>1, <3>2, TypeParts, Zenon DEF RowTypes, TriedIsClaimed
  <2> QED
    BY <2>1, <2>2, Zenon
<1>8. ASSUME NEW o \in Ops, status'[o] = "queued" PROVE Deliverable(o)'
  <2>1. status[o] = "queued" /\ retryCount'[o] = retryCount[o] /\ o # x.op
    BY <1>1, <1>2, <1>3, <1>8, TypeParts, Zenon DEF RowTypes
  <2>2. \A e \in Events : Unsent(e) => Unsent(e)'
    BY <1>2, Zenon DEF Unsent, dispatchVars
  <2>3. \A m \in Messages : Untried(m) /\ m.op = o => Untried(m)'
    BY <1>1, <1>2, <2>1, TypeParts, Zenon DEF WorkerTypes, Untried, Goto, redisVars
  <2> QED
    BY <2>1, <2>2, <2>3, DeliverableFrame, Zenon DEF NoLostOperation
<1> QED
  BY <1>5, <1>6, <1>7, <1>8 DEF DeliveryInv, NoLostOperation

\* A message is skipped only when its operation is not queued.
LEMMA SkipKeepsDelivery ==
    ASSUME DeliveryInv, TypeOK',
           NEW w \in Workers, Skip(w)
    PROVE  DeliveryInv'
<1> USE DEF DeliveryInv
<1>1. PICK x \in batch[w] : /\ ~(status[x.op] = "queued" /\ due[x.op])
                            /\ cur' = [cur EXCEPT ![w] = x]
  BY ZenonT(40) DEF Skip
<1>2. /\ Goto(w, "ack")
      /\ UNCHANGED <<dbVars, redisVars, dispatchVars, batch>>
  BY DEF Skip
<1>3. x \in Messages /\ status[x.op] # "queued"
  BY <1>1, TypeParts, SMT, SMTT(30)
  DEF RowTypes, WorkerTypes, StoreTypes, QueuedIsClaimable, Messages
<1>4. Absent' /\ StaleIsDue' /\ QueuedIsClaimable'
  BY <1>2, Zenon DEF Absent, StaleIsDue, QueuedIsClaimable, dbVars
<1>5. Announcements'
  BY <1>2, Zenon DEF Announcements, Announces, dbVars, redisVars, dispatchVars
<1>6. TriedIsClaimed'
  BY <1>1, <1>2, <1>3, TypeParts, Zenon
  DEF RowTypes, WorkerTypes, TriedIsClaimed, Goto, dbVars
<1>7. ASSUME NEW o \in Ops, status'[o] = "queued" PROVE Deliverable(o)'
  <2>1. status[o] = "queued" /\ retryCount'[o] = retryCount[o]
    BY <1>2, <1>7 DEF dbVars
  <2>2. \A e \in Events : Unsent(e) => Unsent(e)'
    BY <1>2, Zenon DEF Unsent, dbVars, dispatchVars
  <2>3. \A m \in Messages : Untried(m) /\ m.op = o => Untried(m)'
    BY <1>1, <1>2, <1>3, <2>1, TypeParts, Zenon DEF WorkerTypes, Untried, Goto, redisVars
  <2> QED
    BY <2>1, <2>2, <2>3, DeliverableFrame DEF NoLostOperation
<1> QED
  BY <1>4, <1>5, <1>6, <1>7 DEF DeliveryInv, NoLostOperation

\* Only a message that has been tried is acknowledged.
LEMMA AckKeepsDelivery ==
    ASSUME DeliveryInv, TypeOK',
           NEW w \in Workers, Ack(w)
    PROVE  DeliveryInv'
<1> USE DEF DeliveryInv
<1>1. /\ pel' \subseteq pel /\ stream' = stream
      /\ \A m \in pel : m \notin pel' => pc[w] = "ack" /\ m = cur[w]
      /\ \A v \in Workers : batch'[v] \subseteq batch[v]
      /\ \A v \in Workers : pc'[v] \in {"execute", "ack"} =>
             /\ pc'[v] = pc[v] /\ cur'[v] = cur[v] /\ batch'[v] = batch[v]
  BY TypeParts, Zenon DEF RowTypes, WorkerTypes, StoreTypes, Ack, Goto
<1>2. UNCHANGED <<dbVars, dispatchVars>>
  BY DEF Ack
<1>3. Absent' /\ StaleIsDue' /\ QueuedIsClaimable'
  BY <1>2, Zenon DEF Absent, StaleIsDue, QueuedIsClaimable, dbVars
<1>4. Announcements'
  BY <1>1, <1>2, ZenonT(40) DEF Announcements, Announces, dbVars, dispatchVars
<1>5. TriedIsClaimed'
  BY <1>1, <1>2, ZenonT(40) DEF TriedIsClaimed, dbVars
<1>6. ASSUME NEW o \in Ops, status'[o] = "queued" PROVE Deliverable(o)'
  <2>1. status[o] = "queued" /\ retryCount'[o] = retryCount[o]
    BY <1>2, <1>6, SMT, SMTT(30) DEF dbVars
  <2>2. \A e \in Events : Unsent(e) => Unsent(e)'
    BY <1>2, Zenon DEF Unsent, dbVars, dispatchVars
  <2>3. \A m \in Messages : Untried(m) => Untried(m)'
    BY <1>1, ZenonT(40) DEF Untried
  <2> QED
    BY <2>1, <2>2, <2>3, DeliverableFrame DEF NoLostOperation
<1> QED
  BY <1>3, <1>4, <1>5, <1>6 DEF DeliveryInv, NoLostOperation

\* Completion leaves every other operation's announcements alone.
LEMMA CompleteKeepsDelivery ==
    ASSUME DeliveryInv, TypeOK',
           NEW w \in Workers, Complete(w)
    PROVE  DeliveryInv'
<1> USE DEF DeliveryInv
<1>1. PICK p \in Ops : /\ Executing(w, p)
                       /\ \E s \in Terminal : status' = [status EXCEPT ![p] = s]
                       /\ Goto(w, "ack")
                       /\ heartbeat' = [heartbeat EXCEPT ![p] = "fresh"]
                       /\ UNCHANGED <<retryCount, due>>
  BY ConstantsAssumption, ZenonT(40) DEF Complete
<1>2. status[p] # "absent"
  BY <1>1, ZenonT(40) DEF TriedIsClaimed, Announcements, Announces, Executing
<1>3. UNCHANGED <<outbox, deferred, redisVars, dispatchVars, execVars>>
  BY DEF Complete
<1>4. \A o \in Ops : Grows(o)
  BY <1>1, <1>2, TypeParts, SMT, SMTT(30) DEF RowTypes, Grows, Terminal
<1>5. Absent' /\ StaleIsDue' /\ QueuedIsClaimable'
  BY <1>1, <1>2, TypeParts, Zenon
  DEF RowTypes, Absent, StaleIsDue, QueuedIsClaimable, Terminal
<1>6. Announcements'
  BY <1>3, <1>4, AnnouncementsFrame, TypeParts, Zenon
  DEF RowTypes, WorkerTypes, StoreTypes, Announcements, redisVars, dispatchVars,
      execVars
<1>7. TriedIsClaimed'
  BY <1>1, <1>3, TypeParts, SMT, SMTT(30)
  DEF RowTypes, WorkerTypes, TriedIsClaimed, Executing, Terminal, Goto, Messages,
      redisVars, dispatchVars, execVars
<1>8. ASSUME NEW o \in Ops, status'[o] = "queued" PROVE Deliverable(o)'
  <2>1. status[o] = "queued" /\ retryCount'[o] = retryCount[o]
    BY <1>1, <1>8, TypeParts DEF RowTypes, Terminal
  <2>2. \A e \in Events : Unsent(e) => Unsent(e)'
    BY <1>3, ZenonT(40) DEF Unsent, dispatchVars
  <2>3. \A m \in Messages : Untried(m) => Untried(m)'
    BY <1>1, <1>3, TypeParts, ZenonT(40)
    DEF WorkerTypes, Untried, Executing, Goto, redisVars, dispatchVars, execVars
  <2> QED
    BY <2>1, <2>2, <2>3, DeliverableFrame, ZenonT(40) DEF NoLostOperation
<1> QED
  BY <1>5, <1>6, <1>7, <1>8 DEF DeliveryInv, NoLostOperation

\* A scheduled retry makes every announcement of the operation an old one.
LEMMA ScheduleRetryKeepsDelivery ==
    ASSUME DeliveryInv, TypeOK',
           NEW w \in Workers, ScheduleRetry(w)
    PROVE  DeliveryInv'
<1> USE DEF DeliveryInv
<1>1. PICK p \in Ops : /\ Executing(w, p)
                       /\ status' = [status EXCEPT ![p] = "retrying"]
                       /\ retryCount' = [retryCount EXCEPT ![p] = @ + 1]
                       /\ heartbeat' = [heartbeat EXCEPT ![p] = "fresh"]
                       /\ due' = [due EXCEPT ![p] = FALSE]
                       /\ Goto(w, "ack")
  BY ConstantsAssumption, ZenonT(40) DEF ScheduleRetry
<1>2. status[p] # "absent"
  BY <1>1, Zenon DEF TriedIsClaimed, Announcements, Announces, Executing
<1>3. UNCHANGED <<outbox, deferred, redisVars, dispatchVars, execVars>>
  BY DEF ScheduleRetry
<1>4. \A o \in Ops : Grows(o)
  BY <1>1, <1>2, TypeParts, SMT, SMTT(30) DEF RowTypes, Grows
<1>5. Absent' /\ StaleIsDue' /\ QueuedIsClaimable'
  BY <1>1, <1>2, TypeParts, Zenon DEF RowTypes, Absent, StaleIsDue, QueuedIsClaimable
<1>6. Announcements'
  BY <1>3, <1>4, AnnouncementsFrame, TypeParts, Zenon
  DEF RowTypes, WorkerTypes, StoreTypes, Announcements, redisVars, dispatchVars,
      execVars
<1>7. TriedIsClaimed'
  BY <1>1, <1>3, TypeParts, SMT, SMTT(30)
  DEF RowTypes, WorkerTypes, TriedIsClaimed, Executing, Goto, Messages, redisVars,
      dispatchVars, execVars
<1>8. ASSUME NEW o \in Ops, status'[o] = "queued" PROVE Deliverable(o)'
  <2>1. status[o] = "queued" /\ retryCount'[o] = retryCount[o]
    BY <1>1, <1>8, TypeParts, ZenonT(40) DEF RowTypes
  <2>2. \A e \in Events : Unsent(e) => Unsent(e)'
    BY <1>3, Zenon DEF Unsent, dispatchVars
  <2>3. \A m \in Messages : Untried(m) => Untried(m)'
    BY <1>1, <1>3, TypeParts, Zenon
    DEF WorkerTypes, Untried, Executing, Goto, redisVars, dispatchVars, execVars
  <2> QED
    BY <2>1, <2>2, <2>3, DeliverableFrame DEF NoLostOperation
<1> QED
  BY <1>5, <1>6, <1>7, <1>8 DEF DeliveryInv, NoLostOperation

\* An abandoned batch stays in the pending entries list.
LEMMA AbandonKeepsDelivery ==
    ASSUME DeliveryInv, TypeOK',
           NEW w \in Workers, LostOperation(w) \/ WorkerFails(w)
    PROVE  DeliveryInv'
<1> USE DEF DeliveryInv
<1>1. /\ Abandon(w) /\ \E l \in {"dispatch", "retry", "recover", "consume"} : Goto(w, l)
      /\ UNCHANGED <<dbVars, redisVars>>
      /\ \A v \in Workers : /\ locked'[v] \subseteq locked[v]
                            /\ sent'[v] \subseteq sent[v]
  BY TypeParts, ZenonT(40)
  DEF RowTypes, WorkerTypes, StoreTypes, LostOperation, WorkerFails, Following,
      Announcements, dispatchVars
<1>2. \A v \in Workers : batch'[v] \subseteq batch[v]
  BY <1>1, TypeParts, Zenon DEF RowTypes, WorkerTypes, StoreTypes, Abandon
<1>3. \A o \in Ops : Grows(o)
  BY <1>1, TypeParts, SMT, SMTT(30) DEF RowTypes, Grows, dbVars
<1>4. Absent' /\ StaleIsDue' /\ QueuedIsClaimable'
  BY <1>1 DEF Absent, StaleIsDue, QueuedIsClaimable, dbVars
<1>5. Announcements'
  BY <1>1, <1>2, <1>3, AnnouncementsFrame, Zenon DEF dbVars, redisVars
<1>6. TriedIsClaimed'
  BY <1>1, TypeParts, ZenonT(40)
  DEF RowTypes, WorkerTypes, TriedIsClaimed, Abandon, Goto, dbVars
<1>7. ASSUME NEW o \in Ops, status'[o] = "queued" PROVE Deliverable(o)'
  <2>1. status[o] = "queued" /\ retryCount'[o] = retryCount[o]
    BY <1>1, <1>7 DEF dbVars
  <2>2. \A e \in Events : Unsent(e) => Unsent(e)'
    BY <1>1, Zenon DEF Unsent, dbVars
  <2>3. \A m \in Messages : Untried(m) => Untried(m)'
    BY <1>1, TypeParts DEF WorkerTypes, Untried, Abandon, Goto, redisVars
  <2> QED
    BY <2>1, <2>2, <2>3, DeliverableFrame, Zenon DEF NoLostOperation
<1> QED
  BY <1>4, <1>5, <1>6, <1>7 DEF DeliveryInv, NoLostOperation

\* A progress report, even a late one, moves the row to an active status.
LEMMA ProgressKeepsDelivery ==
    ASSUME DeliveryInv, TypeOK',
           NEW w \in Workers, Progress(w)
    PROVE  DeliveryInv'
<1> USE DEF DeliveryInv
<1>1. PICK p \in Ops : /\ Executing(w, p)
                       /\ \E s \in Active : status' = [status EXCEPT ![p] = s]
                       /\ heartbeat' = [heartbeat EXCEPT ![p] = "fresh"]
                       /\ UNCHANGED <<retryCount, due, pc>>
  BY ConstantsAssumption, ZenonT(40) DEF Progress
<1>2. status[p] # "absent"
  BY <1>1, Zenon DEF TriedIsClaimed, Announcements, Announces, Executing
<1>3. UNCHANGED <<outbox, deferred, redisVars, dispatchVars, execVars>>
  BY DEF Progress
<1>4. \A o \in Ops : Grows(o)
  BY <1>1, <1>2, TypeParts, SMT, SMTT(30) DEF RowTypes, Grows, Active
<1>5. Absent' /\ StaleIsDue' /\ QueuedIsClaimable'
  BY <1>1, <1>2, TypeParts, Zenon
  DEF RowTypes, Absent, StaleIsDue, QueuedIsClaimable, Active
<1>6. Announcements'
  BY <1>3, <1>4, AnnouncementsFrame, TypeParts, Zenon
  DEF RowTypes, WorkerTypes, StoreTypes, Announcements, redisVars, dispatchVars,
      execVars
<1>7. TriedIsClaimed'
  BY <1>1, <1>3, TypeParts, SMT, SMTT(30)
  DEF RowTypes, WorkerTypes, TriedIsClaimed, Executing, Active, Messages, redisVars,
      dispatchVars, execVars
<1>8. ASSUME NEW o \in Ops, status'[o] = "queued" PROVE Deliverable(o)'
  <2>1. status[o] = "queued" /\ retryCount'[o] = retryCount[o]
    BY <1>1, <1>8, TypeParts, ZenonT(40) DEF RowTypes, Active
  <2>2. \A e \in Events : Unsent(e) => Unsent(e)'
    BY <1>3 DEF Unsent, dispatchVars
  <2>3. \A m \in Messages : Untried(m) => Untried(m)'
    BY <1>1, <1>3, TypeParts, Zenon
    DEF WorkerTypes, Untried, Executing, redisVars, dispatchVars, execVars
  <2> QED
    BY <2>1, <2>2, <2>3, DeliverableFrame DEF NoLostOperation
<1> QED
  BY <1>5, <1>6, <1>7, <1>8 DEF DeliveryInv, NoLostOperation

\* Steps that touch neither rows, messages nor tried deliveries change nothing here.
LEMMA OtherStepsKeepDelivery ==
    ASSUME DeliveryInv, TypeOK',
           UNCHANGED <<rowVars, outbox, stream, pel, dispatchVars, execVars>>,
           pc' = pc \/ \E w \in Workers : pc[w] = "consume" /\ Goto(w, "dispatch")
    PROVE  DeliveryInv'
<1> USE DEF DeliveryInv
<1>1. \A v \in Workers : pc'[v] \in {"execute", "ack"} <=> pc[v] \in {"execute", "ack"}
  BY TypeParts, Zenon DEF RowTypes, WorkerTypes, StoreTypes, Goto
<1>2. Absent' /\ StaleIsDue' /\ QueuedIsClaimable' /\ Announcements'
  BY ZenonT(40) DEF Absent, StaleIsDue, QueuedIsClaimable, Announcements, Announces,
      rowVars, dispatchVars, execVars
<1>3. TriedIsClaimed'
  BY <1>1, Zenon DEF TriedIsClaimed, rowVars, execVars
<1>4. \A e \in Events : Unsent(e) => Unsent(e)'
  BY DEF Unsent, dispatchVars
<1>5. \A m \in Messages : Untried(m) => Untried(m)'
  BY <1>1, Zenon DEF Untried, execVars
<1>6. NoLostOperation'
  BY <1>4, <1>5, DeliverableFrame, ZenonT(40) DEF NoLostOperation, rowVars
<1> QED
  BY <1>2, <1>3, <1>6 DEF DeliveryInv

\* DeliveryInv is inductive as long as Redis keeps what it has accepted.
LEMMA DeliveryInductive ==
    DeliveryInv /\ TypeOK' /\ [Next]_vars /\ ~RedisMayLose => DeliveryInv'
<1> SUFFICES ASSUME DeliveryInv, TypeOK', [Next]_vars, ~RedisMayLose PROVE DeliveryInv'
  OBVIOUS
<1>1. CASE \E w \in Workers : ReadNothing(w)
  BY <1>1, OtherStepsKeepDelivery DEF ReadNothing, dbVars, rowVars, redisVars
<1>2. CASE OutboxBackoffElapses
  BY <1>2, OtherStepsKeepDelivery DEF OutboxBackoffElapses, redisVars
<1>3. CASE MessageIdles
  BY <1>3, OtherStepsKeepDelivery DEF MessageIdles, dbVars, rowVars
<1>4. CASE UNCHANGED vars
  BY <1>4, OtherStepsKeepDelivery DEF vars, dbVars, rowVars, redisVars
<1>5. ~RedisLoses
  BY DEF RedisLoses
<1> QED
  BY <1>1, <1>2, <1>3, <1>4, <1>5,
     CreateKeepsDelivery, HeartbeatExpiresKeepsDelivery, BackoffElapsesKeepsDelivery,
     DispatchClaimKeepsDelivery, DispatchPublishKeepsDelivery, DispatchCommitKeepsDelivery,
     DispatchErrorKeepsDelivery, RequeueKeepsDelivery, RecoverStuckKeepsDelivery,
     ReadKeepsDelivery, ClaimKeepsDelivery, SkipKeepsDelivery,
     AckKeepsDelivery, CompleteKeepsDelivery, ScheduleRetryKeepsDelivery,
     AbandonKeepsDelivery, ProgressKeepsDelivery, Zenon
  DEF Next, WorkerStep

\* A queued operation can always still be claimed: from every reachable state
\* in which Redis has kept its entries, and whatever workers crashed or
\* publications failed, its current attempt is announced by a row or message.
THEOREM OperationsAreNotLost == ~RedisMayLose /\ Spec => []NoLostOperation
<1>1. Init => DeliveryInv
  <2>1. Init => TypeOK
    BY ConstantsAssumption, SMT, SMTT(30) DEF Init, TypeOK, Status
  <2> QED
    BY <2>1, SMT, SMTT(30)
    DEF Init, DeliveryInv, Absent, StaleIsDue, QueuedIsClaimable, Announcements,
               TriedIsClaimed, NoLostOperation
<1>2. ~RedisMayLose /\ DeliveryInv /\ [Next]_vars => DeliveryInv'
  BY TypeInductive, DeliveryInductive DEF DeliveryInv
<1>3. ~RedisMayLose /\ Spec => []DeliveryInv
  <2>1. CASE RedisMayLose
    BY <2>1
  <2>2. CASE ~RedisMayLose
    <3>1. DeliveryInv /\ [Next]_vars => DeliveryInv'
      BY <1>2, <2>2
    <3> QED
      BY <1>1, <3>1, PTL DEF Spec
  <2> QED
    BY <2>1, <2>2
<1>4. DeliveryInv => NoLostOperation
  BY DEF DeliveryInv
<1> QED
  BY <1>3, <1>4, PTL

-----------------------------------------------------------------------------
\* The steps that write next_attempt_at.
LEMMA DueSteps ==
    ASSUME [Next]_vars
    PROVE  \/ due' = due
           \/ \E o \in Ops : BackoffElapses(o)
           \/ \E w \in Workers : ScheduleRetry(w)
<1>1. CASE UNCHANGED vars
  BY <1>1, Zenon DEF vars, dbVars, rowVars
<1>2. ASSUME NEW o \in Ops, Create(o) \/ HeartbeatExpires(o) PROVE due' = due
  BY <1>2, Zenon DEF Create, HeartbeatExpires
<1>3. CASE RedisLoses \/ OutboxBackoffElapses \/ MessageIdles
  BY <1>3, Zenon DEF RedisLoses, OutboxBackoffElapses, MessageIdles, dbVars, rowVars
<1>4. ASSUME NEW w \in Workers,
             \/ DispatchClaim(w) \/ DispatchPublish(w) \/ DispatchCommit(w)
             \/ DispatchError(w)
      PROVE  due' = due
  BY <1>4, Zenon DEF DispatchClaim, DispatchPublish, DispatchCommit, DispatchError, dbVars, rowVars
<1>5. ASSUME NEW w \in Workers,
             \/ AutoClaim(w) \/ ReadGroup(w) \/ ReadNothing(w) \/ Skip(w) \/ Ack(w)
             \/ LostOperation(w) \/ WorkerFails(w)
      PROVE  due' = due
  BY <1>5, Zenon
  DEF AutoClaim, ReadGroup, ReadNothing, Skip, Ack, LostOperation, WorkerFails, dbVars, rowVars
<1>6. ASSUME NEW w \in Workers,
             Requeue(w) \/ RecoverStuck(w) \/ Claim(w) \/ Complete(w) \/ Progress(w)
      PROVE  due' = due
  BY <1>6, Zenon DEF Requeue, RecoverStuck, Claim, Complete, Progress
<1> QED
  BY <1>1, <1>2, <1>3, <1>4, <1>5, <1>6, Zenon DEF Next, WorkerStep

ClaimableInv == TypeOK /\ Absent /\ StaleIsDue /\ QueuedIsClaimable

\* A queued operation is due, whatever Redis has lost: RequeueOperation takes
\* rows that are due, and RecoverStuck rows whose heartbeat is older than the
\* backoff written with it, so neither has to reset next_attempt_at.
THEOREM QueuedStaysClaimable == Spec => []QueuedIsClaimable
<1> DEFINE RowOK(o) == /\ status[o] = "absent" => retryCount[o] = 0 /\ due[o]
                       /\ heartbeat[o] = "stale" => due[o]
                       /\ status[o] = "queued" => due[o]
<1>0. /\ Absent /\ StaleIsDue /\ QueuedIsClaimable <=> \A o \in Ops : RowOK(o)
      /\ Absent' /\ StaleIsDue' /\ QueuedIsClaimable' <=> \A o \in Ops : RowOK(o)'
  BY Zenon DEF Absent, StaleIsDue, QueuedIsClaimable
<1>1. Init => ClaimableInv
  <2>1. Init => TypeOK
    BY ConstantsAssumption, SMT, SMTT(30) DEF Init, TypeOK, Status
  <2> QED
    BY <2>1, SMT, SMTT(30) DEF Init, ClaimableInv, Absent, StaleIsDue, QueuedIsClaimable
<1>2. ASSUME TypeOK, \A o \in Ops : RowOK(o), [Next]_vars, NEW o \in Ops PROVE RowOK(o)'
  <2> USE <1>2
  <2>0. RowOK(o) /\ RowTypes
    BY TypeParts, Zenon
  <2>1. CASE due' = due
    <3>1. CASE UNCHANGED <<status, retryCount, heartbeat>>
      BY <2>0, <2>1, <3>1, Zenon
    <3>2. ASSUME NEW p \in Ops, Create(p) \/ HeartbeatExpires(p) PROVE RowOK(o)'
      BY <2>0, <2>1, <3>2, Zenon DEF Create, HeartbeatExpires, RowTypes, Active
    <3>3. ASSUME NEW w \in Workers, Requeue(w) PROVE RowOK(o)'
      BY <2>0, <2>1, <3>3, Zenon DEF Requeue, DueRetries
    <3>4. ASSUME NEW w \in Workers, RecoverStuck(w) PROVE RowOK(o)'
      BY <2>0, <2>1, <3>4, Zenon DEF RecoverStuck, Recoverable, Stuck, Active
    <3>5. ASSUME NEW w \in Workers, Claim(w) PROVE RowOK(o)'
      BY <2>0, <2>1, <3>5, Zenon DEF Claim, RowTypes
    <3>6. ASSUME NEW w \in Workers, Complete(w) \/ Progress(w) PROVE RowOK(o)'
      BY <2>0, <2>1, <3>6, ConstantsAssumption, Zenon
      DEF Complete, Progress, RowTypes, Terminal, Active
    <3>7. ASSUME NEW w \in Workers, ScheduleRetry(w) PROVE RowOK(o)'
      BY <2>0, <2>1, <3>7, SMT, SMTT(30) DEF ScheduleRetry, RowTypes
    <3> QED
      BY <3>1, <3>2, <3>3, <3>4, <3>5, <3>6, <3>7, RowSteps, Zenon
  <2>2. ASSUME NEW p \in Ops, BackoffElapses(p) PROVE RowOK(o)'
    BY <2>0, <2>2, Zenon DEF BackoffElapses, RowTypes
  <2>3. ASSUME NEW w \in Workers, ScheduleRetry(w) PROVE RowOK(o)'
    BY <2>0, <2>3, SMT, SMTT(30) DEF ScheduleRetry, RowTypes
  <2> QED
    BY <2>1, <2>2, <2>3, DueSteps, Zenon
<1>3. ClaimableInv /\ [Next]_vars => ClaimableInv'
  BY <1>0, <1>2, TypeInductive, Zenon DEF ClaimableInv
<1>4. ClaimableInv => QueuedIsClaimable
  BY Zenon DEF ClaimableInv
<1> QED
  BY <1>1, <1>3, <1>4, PTL DEF Spec
=================================================================================
