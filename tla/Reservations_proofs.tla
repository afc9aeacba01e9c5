------------------------- MODULE Reservations_proofs -------------------------
(***************************************************************************)
(* The node counters say exactly what the reservations hold, for any       *)
(* number of workers, nodes, operations and resources; so nothing is       *)
(* oversold, and the transactions implement the ledger.  First counting    *)
(* the units that operations hold, the types, workers and their locks,     *)
(* what a set of reservations holds, and the steps that write the counters *)
(* of a node; then the inductive invariant and what follows from it.       *)
(***************************************************************************)
EXTENDS Reservations, FiniteSetTheorems, TLAPS

-----------------------------------------------------------------------------
(* Counting units                                                           *)

(* An operation holds as many units of a resource as it demands. *)
LEMMA UnitsCounted ==
  ASSUME NEW o \in Ops, NEW r \in Resources
  PROVE  /\ IsFiniteSet(Ledger!Units(o, r))
         /\ Cardinality(Ledger!Units(o, r)) = Demand[o][r]
<1>1. Demand[o][r] \in Nat
  BY CapacityAssumption, SMT, SMTT(30)
<1>2. IsFiniteSet(1..Demand[o][r]) /\ Cardinality(1..Demand[o][r]) = Demand[o][r]
  <2>1. \A b \in Int : /\ IsFiniteSet(1..b)
                       /\ Cardinality(1..b) = IF 1 > b THEN 0 ELSE b - 1 + 1
    BY FS_Interval, SMT, SMTT(30)
  <2> QED
    BY <1>1, <2>1, SMT, SMTT(30)
<1>3. IsFiniteSet({o}) /\ Cardinality({o}) = 1
  BY FS_Singleton, Zenon
<1>4. /\ IsFiniteSet({o} \X (1..Demand[o][r]))
      /\ Cardinality({o} \X (1..Demand[o][r]))
           = Cardinality({o}) * Cardinality(1..Demand[o][r])
  BY <1>2, <1>3, FS_Product, Zenon
<1> QED
  BY <1>1, <1>2, <1>3, <1>4, SMT, SMTT(30) DEF Ledger!Units

(* A set of operations holds finitely many units. *)
LEMMA UnitsOfFinite ==
  ASSUME NEW S \in SUBSET Ops, NEW r \in Resources
  PROVE  IsFiniteSet(Ledger!UnitsOf(S, r)) /\ Cardinality(Ledger!UnitsOf(S, r)) \in Nat
<1> DEFINE T == {Ledger!Units(o, r) : o \in S}
           f == [o \in S |-> Ledger!Units(o, r)]
<1>1. IsFiniteSet(S)
  BY CapacityAssumption, FS_Subset
<1>2. f \in Surjection(S, T)
  BY Zenon DEF Surjection
<1>3. IsFiniteSet(T)
  BY <1>1, <1>2, FS_Surjection, Zenon
<1>4. \A x \in T : IsFiniteSet(x)
  BY UnitsCounted
<1>5. IsFiniteSet(UNION T)
  BY <1>3, <1>4, FS_UNION, Zenon
<1> QED
  BY <1>5, FS_CardinalityType DEF Ledger!UnitsOf

(* Disjoint sets of operations hold different units. *)
LEMMA UnitsOfUnion ==
  ASSUME NEW S \in SUBSET Ops, NEW T \in SUBSET Ops, NEW r \in Resources,
         S \intersect T = {}
  PROVE  Cardinality(Ledger!UnitsOf(S \union T, r))
           = Cardinality(Ledger!UnitsOf(S, r)) + Cardinality(Ledger!UnitsOf(T, r))
<1> DEFINE US == Ledger!UnitsOf(S, r)
           UT == Ledger!UnitsOf(T, r)
<1>1. IsFiniteSet(US) /\ IsFiniteSet(UT) /\ Cardinality(US) \in Nat /\ Cardinality(UT) \in Nat
  BY UnitsOfFinite
<1>2. Ledger!UnitsOf(S \union T, r) = US \union UT
  BY DEF Ledger!UnitsOf
<1>3. US \intersect UT = {}
  BY SMT, SMTT(30) DEF Ledger!UnitsOf, Ledger!Units
<1>4. Cardinality(US \union UT) = Cardinality(US) + Cardinality(UT) - Cardinality(US \intersect UT)
  BY <1>1, FS_Union, Zenon
<1>5. Cardinality(US \intersect UT) = 0
  BY <1>3, FS_EmptySet
<1> HIDE DEF US, UT
<1>6. Cardinality(US \union UT) = Cardinality(US) + Cardinality(UT)
  BY <1>1, <1>4, <1>5, SMT, SMTT(30)
<1> QED
  BY <1>2, <1>6, Zenon DEF US, UT

(* What one operation holds, and what none holds. *)
LEMMA UnitsOfOne ==
  ASSUME NEW o \in Ops, NEW r \in Resources
  PROVE  Cardinality(Ledger!UnitsOf({o}, r)) = Demand[o][r]
<1>1. Ledger!UnitsOf({o}, r) = Ledger!Units(o, r)
  BY DEF Ledger!UnitsOf
<1> QED
  BY <1>1, UnitsCounted

(* No operations hold no units. *)
LEMMA UnitsOfNone ==
  ASSUME NEW r \in Resources
  PROVE  Cardinality(Ledger!UnitsOf({}, r)) = 0
<1>1. Ledger!UnitsOf({}, r) = {}
  BY DEF Ledger!UnitsOf
<1> QED
  BY <1>1, FS_EmptySet

-----------------------------------------------------------------------------
(* The inductive invariant                                                  *)

(* A reservation row names a node. *)
Rows == \A o \in Ops : res[o].status = "none" <=> res[o].node = NoNode

(* A worker in a call executes an operation. *)
Executes == \A w \in Workers : pc[w] \notin {"idle", "expiring"} => op[w] \in Ops

(* A locked reservation is still reserved, and its lock belongs to the        *)
(* changeStatus of its operation or to an expiry of a terminal operation.     *)
Locks ==
  \A o \in Ops, w \in Workers :
    rowLock[o] = w =>
      /\ res[o].status = "reserved"
      /\ \/ pc[w] \in {"committed", "released"} /\ op[w] = o
         \/ pc[w] = "expiring" /\ o \in terminal

(* changeStatus keeps the row locked from its check to its update. *)
Changing == \A w \in Workers : pc[w] \in {"committed", "released"} => rowLock[op[w]] = w

(* Candidates are suitable for the operation. *)
Candidates ==
  \A w \in Workers :
    IF pc[w] = "locking"
      THEN \A i \in 1..Len(cands[w]) : cands[w][i] \in Suitable[op[w]]
      ELSE cands[w] = <<>>

WorkerInv == Executes /\ Locks /\ Changing /\ Candidates

(* No node holds more than it offers. *)
Within ==
  \A n \in Nodes, r \in Resources : allocated[n][r] + reserved[n][r] <= total[n][r]

CapacityInv == TypeOK /\ Rows /\ WorkerInv /\ CountersExact /\ Within

-----------------------------------------------------------------------------
(* Type correctness                                                         *)

(* The lists of a finite set of nodes are sequences of nodes. *)
LEMMA ListsAreSequences ==
  ASSUME NEW S \in SUBSET Nodes, NEW list \in Lists(S)
  PROVE  list \in Seq(Nodes)
<1>1. Cardinality(S) \in Nat
  BY CapacityAssumption, FS_Subset, FS_CardinalityType
<1> QED
  BY <1>1, SMT, SMTT(30) DEF Lists

(* Settling rows, and adding to and subtracting from counters, keep the types. *)
LEMMA SettleTypes ==
  ASSUME TypeOK, NEW S \in SUBSET Ops, NEW status \in Statuses, Ledger!Settle(S, status)
  PROVE  res' \in [Ops -> [status : Statuses, node : Nodes \union {NoNode}]]
<1> DEFINE Row == [status : Statuses, node : Nodes \union {NoNode}]
<1>1. ASSUME NEW o \in Ops
      PROVE  res[o] \in Row /\ [res[o] EXCEPT !.status = status] \in Row
  <2>1. res[o] \in Row
    BY DEF TypeOK
  <2>2. [res[o] EXCEPT !.status = status] = [status |-> status, node |-> res[o].node]
    BY <2>1, SMT, SMTT(30)
  <2> QED
    BY <2>1, <2>2
<1> HIDE DEF Row
<1>2. res' = [o \in Ops |-> IF o \in S THEN [res[o] EXCEPT !.status = status] ELSE res[o]]
  BY DEF Ledger!Settle
<1>3. res' \in [Ops -> Row]
  BY <1>1, <1>2
<1> QED
  BY <1>3 DEF Row

(* Counters stay integers when demands are added ... *)
LEMMA PlusTypes ==
  ASSUME NEW counter \in [Nodes -> [Resources -> Int]], NEW o \in Ops, NEW n
  PROVE  Plus(counter, o, n) \in [Nodes -> [Resources -> Int]]
<1>1. ASSUME n \in Nodes
      PROVE  [r \in Resources |-> counter[n][r] + Demand[o][r]] \in [Resources -> Int]
  BY <1>1, CapacityAssumption, SMT, SMTT(30)
<1> QED
  BY <1>1, Zenon DEF Plus

(* ... and when units are taken away. *)
LEMMA MinusTypes ==
  ASSUME NEW counter \in [Nodes -> [Resources -> Int]], NEW S \in SUBSET Ops
  PROVE  Minus(counter, S) \in [Nodes -> [Resources -> Int]]
<1>1. ASSUME NEW n \in Nodes, NEW r \in Resources
      PROVE  counter[n][r] - Cardinality(Ledger!UnitsOf({o \in S : res[o].node = n}, r)) \in Int
  <2>1. {o \in S : res[o].node = n} \in SUBSET Ops
    OBVIOUS
  <2>2. Cardinality(Ledger!UnitsOf({o \in S : res[o].node = n}, r)) \in Nat
    BY <2>1, UnitsOfFinite
  <2> QED
    BY <2>2, SMT, SMTT(30)
<1> QED
  BY <1>1 DEF Minus

(* The end of a transaction leaves well-typed locks and worker states. *)
LEMMA EndTransactionTypes ==
  ASSUME TypeOK, NEW w \in Workers, NEW next \in {"idle", "placed"}, EndTransaction(w, next)
  PROVE  /\ nodeLock' \in [Nodes -> Workers \union {NoWorker}]
         /\ rowLock' \in [Ops -> Workers \union {NoWorker}]
         /\ pc' \in [Workers -> {"idle", "finding", "selecting", "locking", "placed",
                                 "committed", "released", "expiring"}]
         /\ op' \in [Workers -> Ops \union {NoOp}]
         /\ queue' \in [Workers -> Seq(Nodes)]
         /\ cands' \in [Workers -> Seq(Nodes)]
<1>1. <<>> \in Seq(Nodes)
  BY SMT, SMTT(30)
<1> QED
  BY <1>1, Zenon DEF TypeOK, EndTransaction, Unlocked

(* Every step keeps the types. *)
LEMMA TypeStep ==
  ASSUME TypeOK, Rows, Executes, [Next]_vars
  PROVE  TypeOK'
<1> USE DEF dbVars, lockVars, workerVars
<1>1. ASSUME NEW w \in Workers, NEW o \in Ops, Start(w, o) PROVE TypeOK'
  BY <1>1, Zenon DEF Start, TypeOK
<1>2. ASSUME NEW w \in Workers, Find(w) PROVE TypeOK'
  BY <1>2, Zenon DEF Find, TypeOK
<1>3. ASSUME NEW w \in Workers, Select(w) PROVE TypeOK'
  <2>1. PICK list \in Lists({n \in Nodes : Eligible(n, op[w])}) :
          queue' = [queue EXCEPT ![w] = list]
    BY <1>3, Zenon DEF Select
  <2>2. list \in Seq(Nodes)
    BY <2>1, ListsAreSequences
  <2> QED
    BY <1>3, <2>1, <2>2, Zenon DEF Select, TypeOK
<1>4. ASSUME NEW w \in Workers, LockNode(w) PROVE TypeOK'
  <2>1. queue[w] \in Seq(Nodes) /\ queue[w] # <<>> /\ cands[w] \in Seq(Nodes)
    BY <1>4, Zenon DEF LockNode, TypeOK
  <2>2. Head(queue[w]) \in Nodes /\ Tail(queue[w]) \in Seq(Nodes)
    BY <2>1, SMT, SMTT(30)
  <2>3. Append(cands[w], Head(queue[w])) \in Seq(Nodes)
    BY <2>1, <2>2, SMT, SMTT(30)
  <2>4. cands' \in [Workers -> Seq(Nodes)]
    BY <1>4, <2>3, Zenon DEF LockNode, TypeOK
  <2> QED
    BY <1>4, <2>2, <2>4, Zenon DEF LockNode, TypeOK
<1>5. ASSUME NEW w \in Workers, Exhausted(w) PROVE TypeOK'
  BY <1>5, EndTransactionTypes, Zenon DEF Exhausted, TypeOK
<1>6. ASSUME NEW w \in Workers, Place(w) PROVE TypeOK'
  <2>1. cands[w] \in Seq(Nodes) /\ cands[w] # <<>> /\ op[w] \in Ops
    BY <1>6, Zenon DEF Place, Executes, TypeOK
  <2>2. Head(cands[w]) \in Nodes
    BY <2>1, SMT, SMTT(30)
  <2>3. reserved' \in [Nodes -> [Resources -> Int]]
    BY <1>6, <2>1, PlusTypes, Zenon DEF Place, TypeOK
  <2>4. res' \in [Ops -> [status : Statuses, node : Nodes \union {NoNode}]]
    BY <1>6, <2>1, <2>2, Zenon DEF Place, Statuses, TypeOK
  <2> QED
    BY <1>6, <2>3, <2>4, EndTransactionTypes, Zenon DEF Place, TypeOK
<1>7. ASSUME NEW w \in Workers, Conflict(w) PROVE TypeOK'
  BY <1>7, EndTransactionTypes, Zenon DEF Conflict, TypeOK
<1>8. ASSUME NEW w \in Workers, NEW status \in {"committed", "released"},
             LockReservation(w, status)
      PROVE  TypeOK'
  <2>1. CASE Changeable(op[w], status)
    BY <1>8, <2>1, ZenonT(40) DEF LockReservation, TypeOK
  <2>2. CASE ~Changeable(op[w], status)
    BY <1>8, <2>2, EndTransactionTypes, Zenon DEF LockReservation, TypeOK
  <2> QED
    BY <2>1, <2>2
<1>9. ASSUME NEW w \in Workers, ChangeStatus(w) PROVE TypeOK'
  <2>1. op[w] \in Ops /\ pc[w] \in {"committed", "released"}
    BY <1>9, Zenon DEF ChangeStatus, Executes
  <2>2. res' \in [Ops -> [status : Statuses, node : Nodes \union {NoNode}]]
    BY <1>9, <2>1, SettleTypes, Zenon DEF ChangeStatus, Statuses
  <2>3. reserved' \in [Nodes -> [Resources -> Int]]
    BY <1>9, <2>1, MinusTypes, Zenon DEF ChangeStatus, TypeOK
  <2>4. allocated' \in [Nodes -> [Resources -> Int]]
    BY <1>9, <2>1, PlusTypes, Zenon DEF ChangeStatus, TypeOK
  <2> QED
    BY <1>9, <2>2, <2>3, <2>4, EndTransactionTypes, Zenon DEF ChangeStatus, TypeOK
<1>10. ASSUME NEW w \in Workers, Leave(w) PROVE TypeOK'
  BY <1>10, EndTransactionTypes, Zenon DEF Leave, TypeOK
<1>11. ASSUME NEW w \in Workers, SelectExpired(w) PROVE TypeOK'
  <2> DEFINE hosts == {res[o].node : o \in Orphans}
  <2>1. hosts \in SUBSET Nodes
    BY SMT, SMTT(30) DEF Orphans, Rows, TypeOK
  <2>2. PICK list \in Lists(hosts) : queue' = [queue EXCEPT ![w] = list]
    BY <1>11, Zenon DEF SelectExpired
  <2>3. list \in Seq(Nodes)
    BY <2>1, <2>2, ListsAreSequences
  <2> QED
    BY <1>11, <2>2, <2>3, Zenon DEF SelectExpired, TypeOK
<1>12. ASSUME NEW w \in Workers, ExpireReservations(w) PROVE TypeOK'
  <2> DEFINE items == {o \in Ops : rowLock[o] = w}
  <2>1. res' \in [Ops -> [status : Statuses, node : Nodes \union {NoNode}]]
    BY <1>12, SettleTypes DEF ExpireReservations, Statuses
  <2>2. reserved' \in [Nodes -> [Resources -> Int]]
    BY <1>12, MinusTypes, Zenon DEF ExpireReservations, TypeOK
  <2> QED
    BY <1>12, <2>1, <2>2, EndTransactionTypes, Zenon DEF ExpireReservations, TypeOK
<1>13. ASSUME NEW w \in Workers, DeadlockVictim(w) PROVE TypeOK'
  BY <1>13, EndTransactionTypes, Zenon DEF DeadlockVictim, TypeOK
<1>14. ASSUME NEW w \in Workers, Fault(w) PROVE TypeOK'
  BY <1>14, EndTransactionTypes, CapacityAssumption, SMT, SMTT(30) DEF Fault, TypeOK
<1>15. ASSUME NEW o \in Ops, Finish(o) \/ Elapse(o) PROVE TypeOK'
  BY <1>15, Zenon DEF Finish, Elapse, TypeOK
<1>16. ASSUME NEW n \in Agents, Heartbeat(n) PROVE TypeOK'
  <2>1. PICK report \in [Measured -> Reports] :
          total' = [total EXCEPT ![n] = [r \in Resources |->
                      IF r \in Measured /\ report[r] > 0 THEN report[r] ELSE total[n][r]]]
    BY <1>16, Zenon DEF Heartbeat
  <2>2. n \in Nodes
    BY CapacityAssumption
  <2>3. [r \in Resources |-> IF r \in Measured /\ report[r] > 0 THEN report[r] ELSE total[n][r]]
          \in [Resources -> Nat]
    <3>1. \A r \in Resources : total[n][r] \in Nat
      BY <2>2 DEF TypeOK
    <3>2. \A r \in Measured : report[r] \in Nat
      BY CapacityAssumption, Zenon
    <3> QED
      BY <3>1, <3>2
  <2>4. total' \in [Nodes -> [Resources -> Nat]]
    BY <2>1, <2>2, <2>3 DEF TypeOK
  <2> QED
    BY <1>16, <2>2, <2>4, Zenon DEF Heartbeat, TypeOK
<1>17. ASSUME NEW n \in Agents, GoOffline(n) PROVE TypeOK'
  BY <1>17, Zenon DEF GoOffline, TypeOK
<1>18. CASE UNCHANGED vars
  BY <1>18, Zenon DEF vars, TypeOK
<1> QED
  BY <1>1, <1>2, <1>3, <1>4, <1>5, <1>6, <1>7, <1>8, <1>9, <1>10, <1>11, <1>12,
     <1>13, <1>14, <1>15, <1>16, <1>17, <1>18, ZenonT(30) DEF Next

-----------------------------------------------------------------------------
(* Workers and their locks                                                  *)

(* The end of a transaction keeps the invariant of workers and locks: w has   *)
(* no lock left, and the rows others have locked are as they were.            *)
LEMMA EndTransactionKeepsWorkers ==
  ASSUME TypeOK, WorkerInv,
         NEW w \in Workers, NEW next \in {"idle", "placed"}, EndTransaction(w, next),
         next = "placed" => op[w] \in Ops,
         terminal \subseteq terminal',
         \A o \in Ops : rowLock[o] \in Workers \ {w} => res'[o] = res[o]
  PROVE  WorkerInv'
<1> USE DEF TypeOK
<1>1. NoWorker \notin Workers
  BY CapacityAssumption, Zenon
<1>2. /\ pc' = [pc EXCEPT ![w] = next]
      /\ op' = [op EXCEPT ![w] = IF next = "idle" THEN NoOp ELSE op[w]]
      /\ cands' = [cands EXCEPT ![w] = <<>>]
      /\ \A o \in Ops : rowLock'[o] = IF rowLock[o] = w THEN NoWorker ELSE rowLock[o]
  BY Zenon DEF EndTransaction, Unlocked
<1>3. \A v \in Workers \ {w} : pc'[v] = pc[v] /\ op'[v] = op[v] /\ cands'[v] = cands[v]
  BY <1>2, Zenon
<1>4. pc'[w] = next /\ cands'[w] = <<>> /\ (next = "placed" => op'[w] = op[w])
  BY <1>2, Zenon
<1>5. Executes'
  BY <1>3, <1>4, ZenonT(30) DEF Executes, WorkerInv
<1>6. Locks'
  <2> SUFFICES ASSUME NEW o \in Ops, NEW v \in Workers, rowLock'[o] = v
               PROVE  /\ res'[o].status = "reserved"
                      /\ \/ pc'[v] \in {"committed", "released"} /\ op'[v] = o
                         \/ pc'[v] = "expiring" /\ o \in terminal'
    BY Zenon DEF Locks
  <2>1. rowLock[o] = v /\ v # w
    BY <1>1, <1>2, Zenon
  <2> QED
    BY <1>3, <2>1 DEF Locks, WorkerInv
<1>7. Changing'
  BY <1>1, <1>2, <1>3, <1>4, ZenonT(30) DEF Changing, Executes, WorkerInv
<1>8. Candidates'
  BY <1>3, <1>4, ZenonT(40) DEF Candidates, WorkerInv
<1> QED
  BY <1>5, <1>6, <1>7, <1>8 DEF WorkerInv

(* The steps of a worker that write nothing to the database. *)
LEMMA WorkerStepKeepsWorkers ==
  ASSUME TypeOK, Rows, WorkerInv, NEW w \in Workers, dbVars' = dbVars,
         \/ \E o \in Ops : Start(w, o)
         \/ Find(w) \/ Select(w) \/ LockNode(w)
         \/ \E status \in {"committed", "released"} : LockReservation(w, status)
         \/ SelectExpired(w)
  PROVE  WorkerInv'
<1> USE DEF TypeOK
<1>0. res' = res /\ terminal' = terminal /\ NoWorker \notin Workers
  BY CapacityAssumption, Zenon DEF dbVars
<1>1. ASSUME NEW o \in Ops, Start(w, o) PROVE WorkerInv'
  <2>1. /\ pc[w] = "idle" /\ pc' = [pc EXCEPT ![w] = "finding"]
        /\ op' = [op EXCEPT ![w] = o] /\ rowLock' = rowLock /\ cands' = cands
    BY <1>1, Zenon DEF Start, lockVars
  <2>2. Executes' /\ Candidates'
    BY <2>1, Zenon DEF WorkerInv, Executes, Candidates
  <2>3. Locks'
    BY <1>0, <2>1 DEF WorkerInv, Locks
  <2>4. Changing'
    BY <1>0, <2>1, Zenon DEF WorkerInv, Changing
  <2> QED
    BY <2>2, <2>3, <2>4 DEF WorkerInv
<1>2. CASE Find(w)
  BY <1>0, <1>2, ZenonT(30) DEF Find, lockVars, WorkerInv, Executes, Locks, Changing, Candidates
<1>3. CASE Select(w)
  <2>1. \A v \in Workers : cands'[v] = cands[v] /\ op'[v] = op[v]
    BY <1>3, Zenon DEF Select
  <2>2. cands[w] = <<>>
    BY <1>3, Zenon DEF Select, WorkerInv, Candidates
  <2>3. Candidates'
    BY <1>3, <2>1, <2>2, SMT, SMTT(30) DEF Select, WorkerInv, Candidates
  <2>4. Executes' /\ Locks' /\ Changing'
    BY <1>0, <1>3 DEF Select, lockVars, WorkerInv, Executes, Locks, Changing
  <2> QED
    BY <2>3, <2>4 DEF WorkerInv
<1>4. CASE LockNode(w)
  <2>1. pc' = pc /\ op' = op /\ rowLock' = rowLock
    BY <1>4, Zenon DEF LockNode
  <2>2. Executes' /\ Locks' /\ Changing'
    BY <1>0, <2>1, Zenon DEF WorkerInv, Executes, Locks, Changing
  <2>3. Candidates'
    <3>1. CASE pc[w] = "locking" /\ Eligible(Head(queue[w]), op[w])
      <4>1. cands' = [cands EXCEPT ![w] = Append(cands[w], Head(queue[w]))]
        BY <1>4, <3>1, Zenon DEF LockNode
      <4>2. Head(queue[w]) \in Suitable[op[w]] /\ Head(queue[w]) \in Nodes
        BY <1>4, <3>1, Zenon DEF LockNode, Eligible
      <4>3. cands[w] \in Seq(Nodes) /\ \A i \in 1..Len(cands[w]) : cands[w][i] \in Suitable[op[w]]
        BY <3>1, Zenon DEF WorkerInv, Candidates
      <4>4. \A i \in 1..Len(cands'[w]) : cands'[w][i] \in Suitable[op[w]]
        BY <4>1, <4>2, <4>3, SMT, SMTT(30)
      <4>5. \A v \in Workers \ {w} : cands'[v] = cands[v]
        BY <4>1, Zenon
      <4> QED
        BY <2>1, <3>1, <4>4, <4>5, Zenon DEF WorkerInv, Candidates
    <3>2. CASE ~(pc[w] = "locking" /\ Eligible(Head(queue[w]), op[w]))
      BY <1>4, <2>1, <3>2, Zenon DEF LockNode, WorkerInv, Candidates
    <3> QED
      BY <3>1, <3>2
  <2> QED
    BY <2>2, <2>3 DEF WorkerInv
<1>5. ASSUME NEW status \in {"committed", "released"}, LockReservation(w, status)
      PROVE  WorkerInv'
  <2>1. CASE ~Changeable(op[w], status)
    BY <1>0, <1>5, <2>1, EndTransactionKeepsWorkers, Zenon DEF LockReservation
  <2>2. CASE Changeable(op[w], status)
    <3>1. /\ pc' = [pc EXCEPT ![w] = status] /\ rowLock' = [rowLock EXCEPT ![op[w]] = w]
          /\ op' = op /\ cands' = cands /\ pc[w] = "placed"
          /\ rowLock[op[w]] = NoWorker /\ res[op[w]].status = "reserved"
      BY <1>5, <2>2, Zenon DEF LockReservation, Changeable
    <3>2. op[w] \in Ops
      BY <3>1, ZenonT(40) DEF WorkerInv, Executes
    <3>3. Executes' /\ Candidates'
      BY <3>1, Zenon DEF WorkerInv, Executes, Candidates
    <3>4. Locks'
      BY <1>0, <3>1, <3>2 DEF WorkerInv, Locks
    <3>5. Changing'
      BY <1>0, <3>1, <3>2 DEF WorkerInv, Changing, Executes
    <3> QED
      BY <3>3, <3>4, <3>5 DEF WorkerInv
  <2> QED
    BY <2>1, <2>2
<1>6. CASE SelectExpired(w)
  <2>1. /\ pc[w] = "idle" /\ pc' = [pc EXCEPT ![w] = "expiring"] /\ op' = op /\ cands' = cands
        /\ rowLock' = [o \in Ops |-> IF o \in Orphans THEN w ELSE rowLock[o]]
    BY <1>6, Zenon DEF SelectExpired
  <2>2. Executes' /\ Candidates'
    BY <2>1, Zenon DEF WorkerInv, Executes, Candidates
  <2>3. Locks'
    BY <1>0, <2>1 DEF WorkerInv, Locks, Orphans
  <2>4. Changing'
    BY <1>0, <2>1, ZenonT(30) DEF WorkerInv, Changing, Executes, Orphans
  <2> QED
    BY <2>2, <2>3, <2>4, Zenon DEF WorkerInv
<1> QED
  BY <1>1, <1>2, <1>3, <1>4, <1>5, <1>6

-----------------------------------------------------------------------------
(* Counters                                                                 *)

(* A set of holders is a set of operations. *)
LEMMA HoldersAreOps ==
  ASSUME NEW n, NEW states
  PROVE  /\ Ledger!Holders(n, states) \in SUBSET Ops
         /\ Ledger!Holders(n, states)' \in SUBSET Ops
  BY DEF Ledger!Holders

(* Rows that stay as they are hold what they held. *)
LEMMA UnchangedRows ==
  ASSUME res' = res, NEW n, NEW r, NEW states
  PROVE  Ledger!Held(n, r, states)' = Ledger!Held(n, r, states)
  BY DEF Ledger!Held, Ledger!Holders, Ledger!UnitsOf, Ledger!Units

(* A node row counts what the rows on it hold, reserved and allocated. *)
LEMMA LoadIsCounted ==
  ASSUME TypeOK, CountersExact, NEW n \in Nodes, NEW r \in Resources
  PROVE  /\ Ledger!Load(n, r) = allocated[n][r] + reserved[n][r]
         /\ reserved[n][r] \in Nat
         /\ allocated[n][r] \in Nat
<1> DEFINE A == Ledger!Holders(n, {"reserved"})
           B == Ledger!Holders(n, {"committed"})
<1>1. A \in SUBSET Ops /\ B \in SUBSET Ops /\ A \intersect B = {}
  BY DEF Ledger!Holders
<1>2. Ledger!Holders(n, {"reserved", "committed"}) = A \union B
  BY DEF Ledger!Holders
<1> HIDE DEF A, B
<1>3. Ledger!Load(n, r) = Cardinality(Ledger!UnitsOf(A, r)) + Cardinality(Ledger!UnitsOf(B, r))
  <2>1. Ledger!Load(n, r) = Cardinality(Ledger!UnitsOf(A \union B, r))
    BY <1>2, ZenonT(40) DEF Ledger!Load, Ledger!Held, Ledger!Cardinality, Cardinality
  <2> QED
    BY <1>1, <2>1, UnitsOfUnion, ZenonT(40)
<1>4. /\ Cardinality(Ledger!UnitsOf(A, r)) \in Nat
      /\ Cardinality(Ledger!UnitsOf(B, r)) \in Nat
  BY <1>1, UnitsOfFinite
<1>5. /\ reserved[n][r] = Cardinality(Ledger!UnitsOf(A, r))
      /\ allocated[n][r] = Cardinality(Ledger!UnitsOf(B, r))
  BY DEF CountersExact, Ledger!Held, A, B
<1> QED
  BY <1>3, <1>4, <1>5, SMT, SMTT(30)

(* A new reservation adds its demand to the reserved units of its node. *)
LEMMA ReservedCounts ==
  ASSUME TypeOK, CountersExact, NEW o \in Ops, NEW m \in Nodes, res[o].status = "none",
         res' = [res EXCEPT ![o] = [status |-> "reserved", node |-> m]],
         NEW n \in Nodes, NEW r \in Resources
  PROVE  /\ Cardinality(Ledger!Held(n, r, {"reserved"})')
              = reserved[n][r] + (IF n = m THEN Demand[o][r] ELSE 0)
         /\ Cardinality(Ledger!Held(n, r, {"committed"})') = allocated[n][r]
<1> DEFINE A == Ledger!Holders(n, {"reserved"})
<1>1. \A x \in Ops : res'[x] = IF x = o THEN [status |-> "reserved", node |-> m] ELSE res[x]
  BY DEF TypeOK
<1>2. o \notin A /\ A \in SUBSET Ops
  BY DEF Ledger!Holders
<1>3. Ledger!Holders(n, {"reserved"})' = IF n = m THEN A \union {o} ELSE A
  BY <1>1, <1>2, SMT, SMTT(30) DEF Ledger!Holders
<1>4. Ledger!Holders(n, {"committed"})' = Ledger!Holders(n, {"committed"})
  BY <1>1, SMT, SMTT(30) DEF Ledger!Holders
<1>5. reserved[n][r] = Cardinality(Ledger!UnitsOf(A, r)) /\ reserved[n][r] \in Nat
  BY LoadIsCounted, Zenon DEF CountersExact, Ledger!Held
<1> HIDE DEF A
<1>6. Cardinality(Ledger!UnitsOf(A \union {o}, r)) = Cardinality(Ledger!UnitsOf(A, r)) + Demand[o][r]
  <2>1. {o} \in SUBSET Ops /\ A \intersect {o} = {}
    BY <1>2
  <2>2. Cardinality(Ledger!UnitsOf(A \union {o}, r))
          = Cardinality(Ledger!UnitsOf(A, r)) + Cardinality(Ledger!UnitsOf({o}, r))
    BY <1>2, <2>1, UnitsOfUnion, Zenon
  <2> QED
    BY <2>2, UnitsOfOne, Zenon
<1>7. Cardinality(Ledger!UnitsOf(IF n = m THEN A \union {o} ELSE A, r))
        = reserved[n][r] + (IF n = m THEN Demand[o][r] ELSE 0)
  BY <1>5, <1>6, SMT, SMTT(30)
<1>8. /\ Ledger!Held(n, r, {"reserved"})' = Ledger!UnitsOf(IF n = m THEN A \union {o} ELSE A, r)
      /\ Ledger!Held(n, r, {"committed"})' = Ledger!Held(n, r, {"committed"})
  BY <1>3, <1>4 DEF Ledger!Held, Ledger!UnitsOf, Ledger!Units
<1> QED
  BY <1>7, <1>8, Zenon DEF CountersExact

(* Settling reserved rows takes their units from the reserved ones of each    *)
(* node; a commit adds them to the allocated ones.                            *)
LEMMA SettledCounts ==
  ASSUME TypeOK, CountersExact, NEW S \in SUBSET Ops,
         \A o \in S : res[o].status = "reserved",
         NEW status \in {"committed", "released", "expired"}, Ledger!Settle(S, status),
         NEW n \in Nodes, NEW r \in Resources
  PROVE  LET moved == Cardinality(Ledger!UnitsOf({o \in S : res[o].node = n}, r)) IN
           /\ moved \in Nat
           /\ Cardinality(Ledger!Held(n, r, {"reserved"})') = reserved[n][r] - moved
           /\ Cardinality(Ledger!Held(n, r, {"committed"})')
                = allocated[n][r] + (IF status = "committed" THEN moved ELSE 0)
<1> DEFINE A == Ledger!Holders(n, {"reserved"})
           B == Ledger!Holders(n, {"committed"})
           T == {o \in S : res[o].node = n}
<1>1. \A x \in Ops : /\ res'[x].status = IF x \in S THEN status ELSE res[x].status
                     /\ res'[x].node = res[x].node
  <2> SUFFICES ASSUME NEW x \in Ops
               PROVE  /\ res'[x].status = IF x \in S THEN status ELSE res[x].status
                      /\ res'[x].node = res[x].node
    OBVIOUS
  <2>1. res'[x] = IF x \in S THEN [res[x] EXCEPT !.status = status] ELSE res[x]
    BY DEF Ledger!Settle
  <2>2. res[x] \in [status : Statuses, node : Nodes \union {NoNode}]
    BY DEF TypeOK
  <2> QED
    BY <2>1, <2>2
<1>2. /\ T \in SUBSET Ops /\ T \subseteq A /\ A \in SUBSET Ops /\ B \in SUBSET Ops
      /\ B \intersect T = {} /\ A \ T \in SUBSET Ops
  BY Zenon DEF Ledger!Holders
<1>3. Ledger!Holders(n, {"reserved"})' = A \ T
  BY <1>1 DEF Ledger!Holders
<1>4. Ledger!Holders(n, {"committed"})' = IF status = "committed" THEN B \union T ELSE B
  BY <1>1 DEF Ledger!Holders
<1>5. /\ reserved[n][r] = Cardinality(Ledger!UnitsOf(A, r)) /\ reserved[n][r] \in Nat
      /\ allocated[n][r] = Cardinality(Ledger!UnitsOf(B, r)) /\ allocated[n][r] \in Nat
  BY LoadIsCounted, Zenon DEF CountersExact, Ledger!Held
<1> HIDE DEF A, B, T
<1>6. /\ Cardinality(Ledger!UnitsOf(T, r)) \in Nat
      /\ Cardinality(Ledger!UnitsOf(A \ T, r)) \in Nat
  BY <1>2, UnitsOfFinite
<1>7. Cardinality(Ledger!UnitsOf((A \ T) \union T, r))
        = Cardinality(Ledger!UnitsOf(A \ T, r)) + Cardinality(Ledger!UnitsOf(T, r))
  BY <1>2, UnitsOfUnion, SMT, SMTT(30)
<1>8. (A \ T) \union T = A
  BY <1>2
<1>9. Cardinality(Ledger!UnitsOf(A \ T, r)) = reserved[n][r] - Cardinality(Ledger!UnitsOf(T, r))
  <2>1. reserved[n][r] = Cardinality(Ledger!UnitsOf(A \ T, r)) + Cardinality(Ledger!UnitsOf(T, r))
    BY <1>5, <1>7, <1>8, Zenon
  <2> QED
    BY <1>5, <1>6, <2>1, SMT, SMTT(30)
<1>10. Cardinality(Ledger!UnitsOf(B \union T, r))
        = allocated[n][r] + Cardinality(Ledger!UnitsOf(T, r))
  BY <1>2, <1>5, UnitsOfUnion, SMT, SMTT(30)
<1>11. /\ Ledger!Held(n, r, {"reserved"})' = Ledger!UnitsOf(A \ T, r)
       /\ Ledger!Held(n, r, {"committed"})'
            = Ledger!UnitsOf(IF status = "committed" THEN B \union T ELSE B, r)
  BY <1>3, <1>4 DEF Ledger!Held, Ledger!UnitsOf, Ledger!Units
<1>12. Cardinality(Ledger!UnitsOf(IF status = "committed" THEN B \union T ELSE B, r))
         = allocated[n][r] + (IF status = "committed" THEN Cardinality(Ledger!UnitsOf(T, r)) ELSE 0)
  BY <1>5, <1>10, SMT, SMTT(30)
<1> QED
  BY <1>6, <1>9, <1>11, <1>12, SMT, SMTT(30) DEF T
-----------------------------------------------------------------------------
(* The steps that write counters                                            *)

(* Rows, counters and totals only depend on the database. *)
LEMMA DatabaseUnchanged ==
  ASSUME Rows, CountersExact, Within, UNCHANGED <<res, reserved, allocated, total>>
  PROVE  Rows' /\ CountersExact' /\ Within'
<1>1. \A n \in Nodes, r \in Resources :
        /\ Ledger!Held(n, r, {"reserved"})' = Ledger!Held(n, r, {"reserved"})
        /\ Ledger!Held(n, r, {"committed"})' = Ledger!Held(n, r, {"committed"})
  BY UnchangedRows
<1> QED
  BY <1>1 DEF Rows, CountersExact, Within

(* A placed reservation is counted and fits: Fits was checked under the lock. *)
LEMMA PlaceKeeps ==
  ASSUME CapacityInv, NEW w \in Workers, Place(w)
  PROVE  Rows' /\ WorkerInv' /\ CountersExact' /\ Within'
<1> DEFINE o == op[w]
           m == Head(cands[w])
<1>1. TypeOK /\ WorkerInv /\ CountersExact /\ Rows /\ Within
  BY DEF CapacityInv
<1>2. o \in Ops /\ m \in Nodes /\ res[o].status = "none" /\ Fits(m, o)
  <2>1. cands[w] \in Seq(Nodes) /\ cands[w] # <<>> /\ op[w] \in Ops
    BY <1>1, ZenonT(40) DEF Place, TypeOK, WorkerInv, Executes
  <2> QED
    BY <2>1, SMT, SMTT(30) DEF Place
<1>3. /\ res' = [res EXCEPT ![o] = [status |-> "reserved", node |-> m]]
      /\ reserved' = Plus(reserved, o, m)
      /\ allocated' = allocated /\ total' = total /\ terminal' = terminal
  BY Zenon DEF Place
<1> HIDE DEF o, m
<1>4. \A n \in Nodes, r \in Resources :
        /\ reserved'[n][r] = reserved[n][r] + (IF n = m THEN Demand[o][r] ELSE 0)
        /\ reserved[n][r] \in Nat /\ allocated[n][r] \in Nat /\ total[n][r] \in Nat
        /\ Demand[o][r] \in Nat
  <2> SUFFICES ASSUME NEW n \in Nodes, NEW r \in Resources
               PROVE  /\ reserved'[n][r] = reserved[n][r] + (IF n = m THEN Demand[o][r] ELSE 0)
                      /\ reserved[n][r] \in Nat /\ allocated[n][r] \in Nat /\ total[n][r] \in Nat
                      /\ Demand[o][r] \in Nat
    OBVIOUS
  <2>1. reserved[n][r] \in Nat /\ allocated[n][r] \in Nat
    BY <1>1, LoadIsCounted
  <2>2. total[n][r] \in Nat /\ Demand[o][r] \in Nat
    BY <1>1, <1>2, CapacityAssumption, SMT, SMTT(30) DEF TypeOK
  <2>3. reserved'[n][r] = IF n = m THEN reserved[n][r] + Demand[o][r] ELSE reserved[n][r]
    BY <1>1, <1>2, <1>3, Zenon DEF Plus, TypeOK
  <2> QED
    BY <2>1, <2>2, <2>3, SMT, SMTT(30)
<1>5. CountersExact'
  <2>1. ASSUME NEW n \in Nodes, NEW r \in Resources
        PROVE  /\ Cardinality(Ledger!Held(n, r, {"reserved"})')
                    = reserved[n][r] + (IF n = m THEN Demand[o][r] ELSE 0)
               /\ Cardinality(Ledger!Held(n, r, {"committed"})') = allocated[n][r]
    BY <1>1, <1>2, <1>3, ReservedCounts, Zenon
  <2> QED
    BY <1>3, <1>4, <2>1, SMT, SMTT(30) DEF CountersExact
<1>6. Within'
  BY <1>1, <1>2, <1>3, <1>4, SMT, SMTT(30) DEF Within, Fits
<1>7. Rows'
  BY <1>1, <1>2, <1>3, CapacityAssumption, Zenon DEF Rows, TypeOK
<1>8. WorkerInv'
  <2>1. EndTransaction(w, "placed") /\ op[w] \in Ops
    BY <1>2, Zenon DEF Place, o
  <2>2. \A x \in Ops : rowLock[x] \in Workers \ {w} => res'[x] = res[x]
    BY <1>1, <1>2, <1>3, Zenon DEF WorkerInv, Locks, TypeOK
  <2> QED
    BY <1>1, <1>3, <2>1, <2>2, EndTransactionKeepsWorkers, ZenonT(30)
<1> QED
  BY <1>5, <1>6, <1>7, <1>8

(* What settling a set of locked rows has in common for its two callers. *)
LEMMA SettleKeeps ==
  ASSUME CapacityInv, NEW w \in Workers, NEW S \in SUBSET Ops,
         \A o \in S : rowLock[o] = w,
         NEW status \in {"committed", "released", "expired"}, Ledger!Settle(S, status),
         EndTransaction(w, "idle"),
         reserved' = Minus(reserved, S),
         \A n \in Nodes, r \in Resources :
           allocated'[n][r] = allocated[n][r]
             + (IF status = "committed"
                  THEN Cardinality(Ledger!UnitsOf({o \in S : res[o].node = n}, r)) ELSE 0),
         total' = total, terminal' = terminal
  PROVE  Rows' /\ WorkerInv' /\ CountersExact' /\ Within'
<1>1. TypeOK /\ WorkerInv /\ CountersExact /\ Rows /\ Within
  BY ZenonT(40) DEF CapacityInv
<1>2. \A o \in S : res[o].status = "reserved"
  BY <1>1 DEF WorkerInv, Locks
<1>3. \A x \in Ops : /\ res'[x].status = IF x \in S THEN status ELSE res[x].status
                     /\ res'[x].node = res[x].node
                     /\ x \notin S => res'[x] = res[x]
  <2> SUFFICES ASSUME NEW x \in Ops
               PROVE  /\ res'[x].status = IF x \in S THEN status ELSE res[x].status
                      /\ res'[x].node = res[x].node
                      /\ x \notin S => res'[x] = res[x]
    OBVIOUS
  <2>1. res'[x] = IF x \in S THEN [res[x] EXCEPT !.status = status] ELSE res[x]
    BY Zenon DEF Ledger!Settle
  <2>2. res[x] \in [status : Statuses, node : Nodes \union {NoNode}]
    BY <1>1, Zenon DEF TypeOK
  <2> QED
    BY <2>1, <2>2, Zenon
<1>4. Rows'
  BY <1>1, <1>2, <1>3, Zenon DEF Rows
<1>5. WorkerInv'
  <2>1. \A x \in Ops : rowLock[x] \in Workers \ {w} => res'[x] = res[x]
    BY <1>3, Zenon
  <2> QED
    BY <1>1, <2>1, EndTransactionKeepsWorkers, Zenon
<1>6. ASSUME NEW n \in Nodes, NEW r \in Resources
      PROVE  /\ reserved'[n][r] = Cardinality(Ledger!Held(n, r, {"reserved"})')
             /\ allocated'[n][r] = Cardinality(Ledger!Held(n, r, {"committed"})')
             /\ allocated'[n][r] + reserved'[n][r] <= total'[n][r]
  <2> DEFINE moved == Cardinality(Ledger!UnitsOf({o \in S : res[o].node = n}, r))
  <2>1. /\ moved \in Nat
        /\ Cardinality(Ledger!Held(n, r, {"reserved"})') = reserved[n][r] - moved
        /\ Cardinality(Ledger!Held(n, r, {"committed"})')
             = allocated[n][r] + (IF status = "committed" THEN moved ELSE 0)
    BY <1>1, <1>2, SettledCounts, ZenonT(60)
  <2>2. reserved'[n][r] = reserved[n][r] - moved
    BY DEF Minus
  <2>3. allocated'[n][r] = allocated[n][r] + (IF status = "committed" THEN moved ELSE 0)
    OBVIOUS
  <2>4. reserved[n][r] \in Nat /\ allocated[n][r] \in Nat
    BY <1>1, LoadIsCounted, Zenon
  <2>5. total[n][r] \in Nat
    BY <1>1, SMT, SMTT(30) DEF TypeOK
  <2>6. allocated[n][r] + reserved[n][r] <= total[n][r]
    BY <1>1, Zenon DEF Within
  <2> HIDE DEF moved
  <2>7. allocated'[n][r] + reserved'[n][r] <= total'[n][r]
    BY <2>1, <2>2, <2>3, <2>4, <2>5, <2>6, SMT, SMTT(30)
  <2> QED
    BY <2>1, <2>2, <2>3, <2>7, Zenon
<1> QED
  BY <1>4, <1>5, <1>6, Zenon DEF CountersExact, Within

(* A commit moves what it settles to the allocated counters, a release frees  *)
(* it (changeStatus, Finalize).                                               *)
LEMMA ChangeStatusKeeps ==
  ASSUME CapacityInv, NEW w \in Workers, ChangeStatus(w)
  PROVE  Rows' /\ WorkerInv' /\ CountersExact' /\ Within'
<1> DEFINE S == {op[w]}
<1>1. TypeOK /\ WorkerInv /\ CountersExact
  BY DEF CapacityInv
<1>2. /\ pc[w] \in {"committed", "released"}
      /\ op[w] \in Ops /\ rowLock[op[w]] = w
  BY <1>1, Zenon DEF ChangeStatus, WorkerInv, Executes, Changing
<1>3. S \in SUBSET Ops /\ \A o \in S : rowLock[o] = w
  BY <1>2, Zenon
<1>4. /\ Ledger!Settle(S, pc[w]) /\ EndTransaction(w, "idle") /\ reserved' = Minus(reserved, S)
      /\ total' = total /\ terminal' = terminal
      /\ allocated' = IF pc[w] = "committed"
                        THEN Plus(allocated, op[w], res[op[w]].node) ELSE allocated
  BY Zenon DEF ChangeStatus
<1>5. ASSUME NEW n \in Nodes, NEW r \in Resources
      PROVE  allocated'[n][r] = allocated[n][r]
               + (IF pc[w] = "committed"
                    THEN Cardinality(Ledger!UnitsOf({o \in S : res[o].node = n}, r)) ELSE 0)
  <2>0. allocated[n][r] \in Nat /\ Demand[op[w]][r] \in Nat
    BY <1>1, <1>2, LoadIsCounted, CapacityAssumption, SMT, SMTT(30)
  <2>1. CASE pc[w] = "committed" /\ res[op[w]].node = n
    <3>1. {o \in S : res[o].node = n} = {op[w]}
      BY <2>1
    <3>2. Cardinality(Ledger!UnitsOf({o \in S : res[o].node = n}, r)) = Demand[op[w]][r]
      BY <1>2, <3>1, UnitsOfOne, ZenonT(40)
    <3>3. allocated'[n][r] = allocated[n][r] + Demand[op[w]][r]
      BY <1>1, <1>4, <2>1, Zenon DEF Plus, TypeOK
    <3> QED
      BY <2>1, <3>2, <3>3, Zenon
  <2>2. CASE pc[w] = "committed" /\ res[op[w]].node # n
    <3>1. {o \in S : res[o].node = n} = {}
      BY <2>2
    <3>2. Cardinality(Ledger!UnitsOf({o \in S : res[o].node = n}, r)) = 0
      BY <3>1, UnitsOfNone, ZenonT(40)
    <3>3. allocated'[n][r] = allocated[n][r]
      BY <1>1, <1>4, <2>2, ZenonT(40) DEF Plus, TypeOK
    <3> QED
      BY <2>0, <2>2, <3>2, <3>3, SMT, SMTT(30)
  <2>3. CASE pc[w] # "committed"
    <3>1. allocated' = allocated
      BY <1>4, <2>3, Zenon
    <3> HIDE DEF S
    <3> QED
      BY <2>0, <2>3, <3>1, SMT, SMTT(30)
  <2> QED
    BY <2>1, <2>2, <2>3, Zenon
<1> HIDE DEF S
<1> QED
  BY <1>2, <1>3, <1>4, <1>5, SettleKeeps, ZenonT(60)

(* expireReservations frees what it expires. *)
LEMMA ExpireKeeps ==
  ASSUME CapacityInv, NEW w \in Workers, ExpireReservations(w)
  PROVE  Rows' /\ WorkerInv' /\ CountersExact' /\ Within'
<1> DEFINE S == {o \in Ops : rowLock[o] = w}
<1>1. TypeOK /\ CountersExact
  BY DEF CapacityInv
<1>2. S \in SUBSET Ops /\ \A o \in S : rowLock[o] = w
  OBVIOUS
<1>3. /\ Ledger!Settle(S, "expired") /\ EndTransaction(w, "idle") /\ reserved' = Minus(reserved, S)
      /\ total' = total /\ terminal' = terminal /\ allocated' = allocated
  BY DEF ExpireReservations
<1>4. ASSUME NEW n \in Nodes, NEW r \in Resources
      PROVE  allocated'[n][r] = allocated[n][r]
               + (IF "expired" = "committed"
                    THEN Cardinality(Ledger!UnitsOf({o \in S : res[o].node = n}, r)) ELSE 0)
  <2>1. allocated[n][r] \in Nat
    BY <1>1, LoadIsCounted
  <2> QED
    BY <1>3, <2>1, SMT, SMTT(30)
<1> HIDE DEF S
<1> QED
  BY <1>2, <1>3, <1>4, SettleKeeps, Zenon

(* A heartbeat that the nodes table accepts leaves room for what is held. *)
LEMMA HeartbeatKeeps ==
  ASSUME CapacityInv, NEW n \in Nodes, Heartbeat(n)
  PROVE  Rows' /\ WorkerInv' /\ CountersExact' /\ Within'
<1>1. TypeOK /\ WorkerInv /\ CountersExact /\ Rows /\ Within
  BY DEF CapacityInv
<1>2. PICK t \in [Resources -> Nat] :
        /\ \A r \in Resources : allocated[n][r] + reserved[n][r] <= t[r]
        /\ total' = [total EXCEPT ![n] = t]
  <2>1. PICK report \in [Measured -> Reports] :
          LET t == [r \in Resources |-> IF r \in Measured /\ report[r] > 0
                                          THEN report[r] ELSE total[n][r]] IN
            /\ \A r \in Resources : allocated[n][r] + reserved[n][r] <= t[r]
            /\ total' = [total EXCEPT ![n] = t]
    BY ZenonT(40) DEF Heartbeat
  <2> DEFINE u == [r \in Resources |-> IF r \in Measured /\ report[r] > 0
                                         THEN report[r] ELSE total[n][r]]
  <2>2. \A r \in Measured : report[r] \in Nat
    BY CapacityAssumption, ZenonT(40)
  <2>3. \A r \in Resources : total[n][r] \in Nat
    BY <1>1 DEF TypeOK
  <2>4. u \in [Resources -> Nat]
    BY <2>2, <2>3, Zenon
  <2>5. /\ \A r \in Resources : allocated[n][r] + reserved[n][r] <= u[r]
        /\ total' = [total EXCEPT ![n] = u]
    BY <2>1
  <2> QED
    BY <2>4, <2>5, ZenonT(40)
<1>3. UNCHANGED <<res, terminal, reserved, allocated, lockVars, workerVars>>
  BY DEF Heartbeat
<1>4. Within'
  BY <1>1, <1>2, <1>3, Zenon DEF Within, TypeOK
<1>5. CountersExact'
  <2>1. \A m \in Nodes, r \in Resources :
          /\ Ledger!Held(m, r, {"reserved"})' = Ledger!Held(m, r, {"reserved"})
          /\ Ledger!Held(m, r, {"committed"})' = Ledger!Held(m, r, {"committed"})
    BY <1>3, UnchangedRows, Zenon
  <2> QED
    BY <1>1, <1>3, <2>1 DEF CountersExact
<1>6. Rows' /\ WorkerInv'
  BY <1>1, <1>3, Zenon DEF Rows, WorkerInv, Executes, Locks, Changing, Candidates, lockVars, workerVars
<1> QED
  BY <1>4, <1>5, <1>6, SMT, SMTT(30)

-----------------------------------------------------------------------------
(* The inductive invariant                                                  *)

(* Every step keeps the inductive invariant. *)
LEMMA CapacityStep ==
  ASSUME CapacityInv, [Next]_vars
  PROVE  CapacityInv'
<1>1. TypeOK /\ WorkerInv /\ CountersExact /\ Rows /\ Within /\ Executes
  BY DEF CapacityInv, WorkerInv
<1>2. TypeOK'
  BY <1>1, TypeStep
<1>3. ASSUME UNCHANGED <<res, reserved, allocated, total>>, WorkerInv' PROVE CapacityInv'
  BY <1>1, <1>2, <1>3, DatabaseUnchanged DEF CapacityInv
<1>4. ASSUME NEW w \in Workers, NEW next \in {"idle", "placed"}, EndTransaction(w, next),
             dbVars' = dbVars, next = "placed" => op[w] \in Ops
      PROVE  CapacityInv'
  <2>1. WorkerInv'
    BY <1>1, <1>4, EndTransactionKeepsWorkers DEF dbVars
  <2> QED
    BY <1>3, <1>4, <2>1 DEF dbVars
<1>5. ASSUME NEW w \in Workers, dbVars' = dbVars,
             \/ \E o \in Ops : Start(w, o)
             \/ Find(w) \/ Select(w) \/ LockNode(w)
             \/ \E status \in {"committed", "released"} : LockReservation(w, status)
             \/ SelectExpired(w)
      PROVE  CapacityInv'
  <2>1. WorkerInv'
    BY <1>1, <1>5, WorkerStepKeepsWorkers
  <2> QED
    BY <1>3, <1>5, <2>1 DEF dbVars
<1>6. CASE UNCHANGED vars
  <2>1. WorkerInv'
    BY <1>1, <1>6, Zenon
    DEF vars, dbVars, lockVars, workerVars, WorkerInv, Executes, Locks, Changing, Candidates
  <2> QED
    BY <1>3, <1>6, <2>1, SMT, SMTT(30) DEF vars, dbVars
<1>7. ASSUME NEW w \in Workers, NEW o \in Ops, Start(w, o) PROVE CapacityInv'
  <2>1. dbVars' = dbVars
    BY <1>7 DEF Start
  <2> QED
    BY <1>5, <1>7, <2>1
<1>8. ASSUME NEW w \in Workers, Find(w) \/ Select(w) \/ LockNode(w) \/ SelectExpired(w)
      PROVE  CapacityInv'
  <2>1. dbVars' = dbVars
    BY <1>8, Zenon DEF Find, Select, LockNode, SelectExpired
  <2> QED
    BY <1>5, <1>8, <2>1, SMT, SMTT(30)
<1>9. ASSUME NEW w \in Workers, NEW status \in {"committed", "released"},
             LockReservation(w, status)
      PROVE  CapacityInv'
  <2>1. dbVars' = dbVars
    BY <1>9 DEF LockReservation
  <2> QED
    BY <1>5, <1>9, <2>1
<1>10. ASSUME NEW w \in Workers, Exhausted(w) \/ Leave(w) \/ DeadlockVictim(w) \/ Fault(w)
       PROVE  CapacityInv'
  <2>1. dbVars' = dbVars /\ EndTransaction(w, "idle")
    BY <1>10 DEF Exhausted, Leave, DeadlockVictim, Fault
  <2> QED
    BY <1>4, <2>1
<1>11. ASSUME NEW w \in Workers, Conflict(w) PROVE CapacityInv'
  <2>1. dbVars' = dbVars /\ EndTransaction(w, "placed") /\ op[w] \in Ops
    BY <1>1, <1>11 DEF Conflict, Executes
  <2> QED
    BY <1>4, <2>1
<1>12. ASSUME NEW w \in Workers, Place(w) \/ ChangeStatus(w) \/ ExpireReservations(w)
       PROVE  CapacityInv'
  BY <1>2, <1>12, PlaceKeeps, ChangeStatusKeeps, ExpireKeeps DEF CapacityInv
<1>13. ASSUME NEW n \in Nodes, Heartbeat(n) PROVE CapacityInv'
  BY <1>2, <1>13, HeartbeatKeeps DEF CapacityInv
<1>14. ASSUME NEW o \in Ops, Finish(o) \/ Elapse(o) PROVE CapacityInv'
  <2>1. /\ UNCHANGED <<res, reserved, allocated, total, lockVars, workerVars>>
        /\ terminal \subseteq terminal'
    BY <1>14, Zenon DEF Finish, Elapse
  <2>2. WorkerInv'
    BY <1>1, <2>1, Zenon DEF lockVars, workerVars, WorkerInv, Executes, Locks, Changing, Candidates
  <2> QED
    BY <1>3, <2>1, <2>2, SMT, SMTT(30)
<1>15. ASSUME NEW n \in Nodes, GoOffline(n) PROVE CapacityInv'
  <2>1. UNCHANGED <<res, reserved, allocated, total, terminal, lockVars, workerVars>>
    BY <1>15, Zenon DEF GoOffline
  <2>2. WorkerInv'
    BY <1>1, <2>1, Zenon DEF lockVars, workerVars, WorkerInv, Executes, Locks, Changing, Candidates
  <2> QED
    BY <1>3, <2>1, <2>2
<1> QED
  BY <1>6, <1>7, <1>8, <1>9, <1>10, <1>11, <1>12, <1>13, <1>14, <1>15, CapacityAssumption, Zenon DEF Next

(* The inductive invariant holds in an empty database. *)
LEMMA CapacityInit ==
  ASSUME Init
  PROVE  CapacityInv
<1>1. \A n \in Nodes, states \in SUBSET {"reserved", "committed"} :
        Ledger!Holders(n, states) = {}
  BY DEF Init, Ledger!Holders
<1>2. ASSUME NEW n \in Nodes, NEW r \in Resources,
             NEW states \in SUBSET {"reserved", "committed"}
      PROVE  Cardinality(Ledger!Held(n, r, states)) = 0
  BY <1>1, UnitsOfNone, Zenon DEF Ledger!Held
<1>3. CountersExact
  <2>1. \A n \in Nodes, r \in Resources : reserved[n][r] = 0 /\ allocated[n][r] = 0
    BY DEF Init
  <2>2. {"reserved"} \in SUBSET {"reserved", "committed"}
        /\ {"committed"} \in SUBSET {"reserved", "committed"}
    OBVIOUS
  <2> QED
    BY <1>2, <2>1, <2>2, Zenon DEF CountersExact
<1>4. TypeOK
  BY CapacityAssumption, SMT, SMTT(30) DEF Init, TypeOK, Statuses
<1>5. Rows
  BY DEF Init, Rows
<1>6. WorkerInv
  BY CapacityAssumption, Zenon DEF Init, WorkerInv, Executes, Locks, Changing, Candidates
<1>7. Within
  <2> SUFFICES ASSUME NEW n \in Nodes, NEW r \in Resources
               PROVE  allocated[n][r] + reserved[n][r] <= total[n][r]
    BY DEF Within
  <2>1. allocated[n][r] = 0 /\ reserved[n][r] = 0 /\ total[n][r] = FirstTotal[n][r]
    BY DEF Init
  <2>2. FirstTotal[n][r] \in Nat
    BY CapacityAssumption
  <2> QED
    BY <2>1, <2>2, SMT, SMTT(30)
<1> QED
  BY <1>3, <1>4, <1>5, <1>6, <1>7, SMT, SMTT(30) DEF CapacityInv

(* So it always holds. *)
LEMMA CapacityInductive == Spec => []CapacityInv
  BY CapacityInit, CapacityStep, PTL DEF Spec

-----------------------------------------------------------------------------
(* The reservation rows change only by steps of the ledger                  *)

(* Place makes a reservation where the ledger has room for it. *)
LEMMA PlaceIsReserve ==
  ASSUME CapacityInv, NEW w \in Workers, Place(w)
  PROVE  \E o \in Ops, n \in Nodes : Ledger!Reserve(o, n)
<1> DEFINE o == op[w]
           n == Head(cands[w])
<1>1. TypeOK /\ WorkerInv /\ CountersExact
  BY DEF CapacityInv
<1>2. /\ o \in Ops /\ n \in Nodes /\ res[o].status = "none" /\ Fits(n, o)
      /\ n \in Suitable[o]
  <2>1. /\ cands[w] \in Seq(Nodes) /\ cands[w] # <<>> /\ op[w] \in Ops
        /\ \A i \in 1..Len(cands[w]) : cands[w][i] \in Suitable[op[w]]
    BY <1>1, ZenonT(30) DEF Place, TypeOK, WorkerInv, Executes, Candidates
  <2>2. res[o].status = "none" /\ Fits(n, o)
    BY ZenonT(30) DEF Place
  <2>3. 1 \in 1..Len(cands[w]) /\ n = cands[w][1] /\ n \in Nodes
    BY <2>1, SMT, SMTT(30)
  <2>4. o \in Ops /\ n \in Suitable[o]
    BY <2>1, <2>3, ZenonT(30)
  <2> QED
    BY <2>2, <2>3, <2>4, ZenonT(30)
<1>3. /\ res' = [res EXCEPT ![o] = [status |-> "reserved", node |-> n]]
      /\ total' = total /\ terminal' = terminal
  BY Zenon DEF Place
<1> HIDE DEF o, n
<1>4. ASSUME NEW r \in Resources PROVE Ledger!Load(n, r) + Demand[o][r] <= total[n][r]
  <2>1. Ledger!Load(n, r) = allocated[n][r] + reserved[n][r]
        /\ reserved[n][r] \in Nat /\ allocated[n][r] \in Nat
    BY <1>1, <1>2, LoadIsCounted, Zenon
  <2>2. total[n][r] \in Nat /\ Demand[o][r] \in Nat
    BY <1>1, <1>2, CapacityAssumption, SMT, SMTT(30) DEF TypeOK
  <2>3. total[n][r] - allocated[n][r] - reserved[n][r] >= Demand[o][r]
    BY <1>2 DEF Fits
  <2> QED
    BY <2>1, <2>2, <2>3, SMT, SMTT(30)
<1> QED
  BY <1>2, <1>3, <1>4, ZenonT(40) DEF Ledger!Reserve

(* The row a worker changes is locked by it, so it is still reserved. *)
LEMMA ChangeStatusIsChange ==
  ASSUME CapacityInv, NEW w \in Workers, ChangeStatus(w)
  PROVE  \E o \in Ops, status \in {"committed", "released"} : Ledger!Change(o, status)
<1>1. op[w] \in Ops /\ rowLock[op[w]] = w /\ pc[w] \in {"committed", "released"}
  BY ZenonT(40) DEF CapacityInv, ChangeStatus, WorkerInv, Executes, Changing
<1>2. res[op[w]].status = "reserved"
  BY <1>1, Zenon DEF CapacityInv, WorkerInv, Locks
<1>3. Ledger!Settle({op[w]}, pc[w]) /\ total' = total /\ terminal' = terminal
  BY ZenonT(30) DEF ChangeStatus
<1> QED
  BY <1>1, <1>2, <1>3, ZenonT(30) DEF Ledger!Change

(* The rows the reconciler expires are reserved and their operations terminal. *)
LEMMA ExpireIsExpire ==
  ASSUME CapacityInv, NEW w \in Workers, ExpireReservations(w)
  PROVE  \E S \in SUBSET Ops : Ledger!Expire(S)
<1> DEFINE S == {o \in Ops : rowLock[o] = w}
<1>1. S \in SUBSET Ops /\ pc[w] = "expiring"
  BY DEF ExpireReservations
<1>2. \A o \in S : res[o].status = "reserved" /\ o \in terminal
  BY <1>1, Zenon DEF CapacityInv, WorkerInv, Locks
<1>3. Ledger!Settle(S, "expired") /\ total' = total /\ terminal' = terminal
  BY DEF ExpireReservations
<1> HIDE DEF S
<1>4. Ledger!Expire(S)
  BY <1>2, <1>3 DEF Ledger!Expire
<1> QED
  BY <1>1, <1>4, SMT, SMTT(30)

(* A heartbeat resizes the node. *)
LEMMA HeartbeatIsResize ==
  ASSUME CapacityInv, TypeOK', NEW n \in Nodes, Heartbeat(n)
  PROVE  Ledger!Resize(n)
<1>1. TypeOK /\ CountersExact
  BY DEF CapacityInv
<1>2. PICK t :
        /\ \A r \in Resources : allocated[n][r] + reserved[n][r] <= t[r]
        /\ total' = [total EXCEPT ![n] = t]
  BY ZenonT(40) DEF Heartbeat
<1>3. total'[n] = t /\ total'[n] \in [Resources -> Nat]
  BY <1>1, <1>2, Zenon DEF TypeOK
<1>4. \A r \in Resources : Ledger!Load(n, r) <= total'[n][r]
  BY <1>1, <1>2, <1>3, LoadIsCounted, Zenon
<1>5. res' = res /\ terminal' = terminal
  BY DEF Heartbeat
<1> QED
  BY <1>2, <1>3, <1>4, <1>5, ZenonT(40) DEF Ledger!Resize

(* Every step of the transactions is a step of the ledger, or leaves the      *)
(* ledger's variables alone.                                                  *)
LEMMA LedgerStep ==
  ASSUME CapacityInv, [Next]_vars
  PROVE  [Ledger!LedgerNext]_(Ledger!ledgerVars)
<1>1. TypeOK'
  BY TypeStep DEF CapacityInv, WorkerInv
<1>2. ASSUME UNCHANGED <<res, total, terminal>> PROVE UNCHANGED Ledger!ledgerVars
  BY <1>2 DEF Ledger!ledgerVars
<1>3. CASE UNCHANGED vars
  BY <1>2, <1>3 DEF vars, dbVars
<1>4. ASSUME NEW w \in Workers,
             \/ \E o \in Ops : Start(w, o)
             \/ Find(w) \/ Select(w) \/ LockNode(w) \/ Exhausted(w) \/ Conflict(w)
             \/ \E status \in {"committed", "released"} : LockReservation(w, status)
             \/ Leave(w) \/ SelectExpired(w) \/ DeadlockVictim(w) \/ Fault(w)
      PROVE  UNCHANGED Ledger!ledgerVars
  <2>1. dbVars' = dbVars
    BY <1>4, ZenonT(40) DEF Start, Find, Select, LockNode, Exhausted, Conflict, LockReservation, Leave,
                SelectExpired, DeadlockVictim, Fault
  <2> QED
    BY <1>2, <2>1, SMT, SMTT(30) DEF dbVars
<1>5. ASSUME NEW w \in Workers, Place(w) \/ ChangeStatus(w) \/ ExpireReservations(w)
      PROVE  Ledger!LedgerNext
  BY <1>5, PlaceIsReserve, ChangeStatusIsChange, ExpireIsExpire DEF Ledger!LedgerNext
<1>6. ASSUME NEW o \in Ops, Finish(o) PROVE Ledger!LedgerNext
  <2>1. Ledger!Finish(o)
    BY <1>6 DEF Finish, Ledger!Finish
  <2> QED
    BY <2>1 DEF Ledger!LedgerNext
<1>7. ASSUME NEW o \in Ops, Elapse(o) PROVE UNCHANGED Ledger!ledgerVars
  BY <1>2, <1>7 DEF Elapse
<1>8. ASSUME NEW n \in Agents, Heartbeat(n) PROVE Ledger!LedgerNext
  <2>1. n \in Nodes
    BY CapacityAssumption
  <2>2. Ledger!Resize(n)
    BY <1>1, <1>8, <2>1, HeartbeatIsResize, SMT, SMTT(30)
  <2> QED
    BY <2>1, <2>2 DEF Ledger!LedgerNext
<1>9. ASSUME NEW n \in Agents, GoOffline(n) PROVE UNCHANGED Ledger!ledgerVars
  BY <1>2, <1>9 DEF GoOffline
<1> QED
  BY <1>3, <1>4, <1>5, <1>6, <1>7, <1>8, <1>9, Zenon DEF Next

(* What a step of the ledger does to one row. *)
LEMMA LedgerStepSettles ==
  ASSUME TypeOK, [Ledger!LedgerNext]_(Ledger!ledgerVars), NEW o \in Ops
  PROVE  /\ res[o].status \in {"committed", "released", "expired"} => res'[o] = res[o]
         /\ res[o].status = "reserved" => res'[o].node = res[o].node
<1>0. res[o] \in [status : Statuses, node : Nodes \union {NoNode}]
  BY DEF TypeOK
<1>1. CASE res' = res
  BY <1>1, ZenonT(40)
<1>2. ASSUME NEW x \in Ops, NEW n \in Nodes, Ledger!Reserve(x, n)
      PROVE  res[o].status # "none" => res'[o] = res[o]
  BY <1>2, ZenonT(30) DEF Ledger!Reserve, TypeOK
<1>3. ASSUME NEW S \in SUBSET Ops, NEW status, Ledger!Settle(S, status),
             \A x \in S : res[x].status = "reserved"
      PROVE  res'[o].node = res[o].node /\ (res[o].status # "reserved" => res'[o] = res[o])
  <2>1. res'[o] = IF o \in S THEN [res[o] EXCEPT !.status = status] ELSE res[o]
    BY <1>3 DEF Ledger!Settle
  <2> QED
    BY <1>0, <1>3, <2>1
<1>4. ASSUME NEW x \in Ops, NEW status \in {"committed", "released"}, Ledger!Change(x, status)
      PROVE  res'[o].node = res[o].node /\ (res[o].status # "reserved" => res'[o] = res[o])
  <2>1. Ledger!Settle({x}, status) /\ \A y \in {x} : res[y].status = "reserved"
    BY <1>4 DEF Ledger!Change
  <2> QED
    BY <1>3, <2>1, SMT, SMTT(30)
<1>5. ASSUME NEW S \in SUBSET Ops, Ledger!Expire(S)
      PROVE  res'[o].node = res[o].node /\ (res[o].status # "reserved" => res'[o] = res[o])
  BY <1>3, <1>5 DEF Ledger!Expire
<1>6. CASE \E n \in Nodes : Ledger!Resize(n)
  BY <1>1, <1>6 DEF Ledger!Resize
<1>7. CASE \E x \in Ops : Ledger!Finish(x)
  BY <1>1, <1>7 DEF Ledger!Finish
<1>8. CASE UNCHANGED Ledger!ledgerVars
  BY <1>1, <1>8 DEF Ledger!ledgerVars
<1> QED
  BY <1>2, <1>4, <1>5, <1>6, <1>7, <1>8, ZenonT(30) DEF Ledger!LedgerNext

-----------------------------------------------------------------------------
(* Theorems                                                                 *)

(* Every variable keeps its type, whatever the workers, the reconciler and    *)
(* the agents do.                                                             *)
THEOREM ReservationTypes == Spec => []TypeOK
<1>1. CapacityInv => TypeOK
  BY DEF CapacityInv
<1> QED
  BY <1>1, CapacityInductive, PTL

(* The counters of a node row are exactly what its reservation rows hold,     *)
(* for any number of concurrent schedulers, stale workers and reconcilers.    *)
THEOREM CountersAreExact == Spec => []CountersExact
<1>1. CapacityInv => CountersExact
  BY DEF CapacityInv
<1> QED
  BY <1>1, CapacityInductive, PTL

(* Concurrent schedulers do not oversell: AddNodeReservation re-checks under  *)
(* the lock on the node row, and a heartbeat cannot shrink a node below what  *)
(* it holds.                                                                  *)
THEOREM NothingOversold == Spec => []NoOversell
<1>1. ASSUME CapacityInv PROVE NoOversell
  <2>1. TypeOK /\ CountersExact /\ Within
    BY <1>1 DEF CapacityInv
  <2> SUFFICES ASSUME NEW n \in Nodes, NEW r \in Resources
               PROVE  /\ reserved[n][r] >= 0 /\ allocated[n][r] >= 0
                      /\ allocated[n][r] + reserved[n][r] <= total[n][r]
    BY DEF NoOversell
  <2>2. reserved[n][r] \in Nat /\ allocated[n][r] \in Nat
    BY <2>1, LoadIsCounted
  <2> QED
    BY <2>1, <2>2, SMT, SMTT(30) DEF Within
<1> QED
  BY <1>1, CapacityInductive, PTL

(* The transactions implement the ledger: only an unreserved operation is     *)
(* placed, only where there is room, only a reserved row is settled, and only *)
(* a terminal operation's reservation expires (scheduler.go, reconciler.go).  *)
THEOREM TransactionsImplementLedger == Spec => ImplementsLedger
<1>1. Init => Ledger!LedgerInit
  BY CapacityAssumption DEF Init, Ledger!LedgerInit
<1>2. CapacityInv /\ [Next]_vars => [Ledger!LedgerNext]_(Ledger!ledgerVars)
  BY LedgerStep
<1> QED
  BY <1>1, <1>2, CapacityInductive, PTL DEF Spec, ImplementsLedger, Ledger!LedgerSpec

(* The first of a worker's commit, its release and the reconciler's expiry    *)
(* wins, and no reservation moves to another node.                            *)
THEOREM ReservationsSettleOnce == Spec => SettledOnce
<1>1. ASSUME CapacityInv, [Next]_vars
      PROVE  [\A o \in Ops :
                /\ res[o].status \in {"committed", "released", "expired"} => res'[o] = res[o]
                /\ res[o].status = "reserved" => res'[o].node = res[o].node]_vars
  <2>1. TypeOK /\ [Ledger!LedgerNext]_(Ledger!ledgerVars)
    BY <1>1, LedgerStep DEF CapacityInv
  <2> QED
    BY <2>1, LedgerStepSettles
<1> QED
  BY <1>1, CapacityInductive, PTL DEF Spec, SettledOnce
==============================================================================
