---------------------------- MODULE Reservations ----------------------------
(***************************************************************************)
(* The scheduler's PostgreSQL transactions: Reserve, Commit and Release    *)
(* (infrastructure/scheduler.go, and the commit that provision Finalize    *)
(* makes), the reconciler's expiry of reservations that terminal           *)
(* operations left behind, and the agent heartbeats that change a node.    *)
(* A transaction takes its row locks one statement at a time and its       *)
(* writes become visible when it commits; at any point before that it can  *)
(* be rolled back, by a crash, an error or the deadlock detector.          *)
(***************************************************************************)
EXTENDS Integers, Sequences, FiniteSets

CONSTANTS
  Nodes, Ops, Resources, Demand, Suitable, NoNode,  \* as in CapacityLedger
  Workers,    \* worker processes
  Measured,   \* cpu, memory and disk: ranked by the scheduler, sent by agents
  Rank,       \* Rank[n]: place of n by descending weight, then id
  FirstTotal, \* FirstTotal[n]: capacity the node was registered with
  Reports,    \* what a heartbeat may report for a measured resource; 0: nothing
  Agents,     \* nodes run by an agent that sends heartbeats
  MaxFaults,  \* bound on rollbacks other than the deadlock detector's
  NoWorker,   \* nobody holds the lock
  NoOp        \* the worker executes no operation

VARIABLES
  res, total, terminal,  \* as in CapacityLedger
  reserved,   \* reserved[n][r], allocated[n][r]: the counters of the node row
  allocated,
  online,     \* nodes with status online
  elapsed,    \* operations whose reservation is past expires_at
  nodeLock,   \* nodeLock[n]: the worker whose transaction holds the node row
  rowLock,    \* rowLock[o]: ... and the reservation row of o
  pc,         \* where each worker is; in changeStatus, the status it sets
  op,         \* the operation it executes
  queue,      \* node rows its transaction still has to lock, in this order
  cands,      \* candidates its SELECT ... FOR UPDATE returned so far
  faults

dbVars == <<res, total, terminal, reserved, allocated, online, elapsed>>
lockVars == <<nodeLock, rowLock>>
workerVars == <<pc, op, queue, cands>>
vars == <<dbVars, lockVars, workerVars, faults>>

Ledger == INSTANCE CapacityLedger

ASSUME CapacityAssumption ==
  /\ IsFiniteSet(Nodes) /\ IsFiniteSet(Ops)
  /\ Demand \in [Ops -> [Resources -> Nat]]
  /\ Suitable \in [Ops -> SUBSET Nodes]
  /\ Measured \subseteq Resources
  /\ \A o \in Ops, r \in Measured : Demand[o][r] > 0  \* validCapacityRequest
  /\ FirstTotal \in [Nodes -> [Resources -> Nat]]
  /\ Reports \subseteq Nat
  /\ MaxFaults \in Nat
  /\ NoNode \notin Nodes
  /\ NoWorker \notin Workers
  /\ NoOp \notin Ops
  /\ Agents \subseteq Nodes

Statuses == {"none", "reserved", "committed", "released", "expired"}

-----------------------------------------------------------------------------
Init ==
  /\ res = [o \in Ops |-> [status |-> "none", node |-> NoNode]]
  /\ total = FirstTotal
  /\ terminal = {}
  /\ reserved = [n \in Nodes |-> [r \in Resources |-> 0]]
  /\ allocated = [n \in Nodes |-> [r \in Resources |-> 0]]
  /\ online = Nodes
  /\ elapsed = {}
  /\ nodeLock = [n \in Nodes |-> NoWorker]
  /\ rowLock = [o \in Ops |-> NoWorker]
  /\ pc = [w \in Workers |-> "idle"]
  /\ op = [w \in Workers |-> NoOp]
  /\ queue = [w \in Workers |-> <<>>]
  /\ cands = [w \in Workers |-> <<>>]
  /\ faults = 0

-----------------------------------------------------------------------------
(* Mutant: capacity that is reserved and not yet allocated counts as free. *)
FitsBesideAllocated(n, o) ==
  \A r \in Resources : total[n][r] - allocated[n][r] >= Demand[o][r]

(* The capacity conditions of SelectCandidateNodesForUpdate, which          *)
(* AddNodeReservation repeats in its WHERE clause.                          *)
Fits(n, o) ==
  \A r \in Resources : total[n][r] - allocated[n][r] - reserved[n][r] >= Demand[o][r]

Eligible(n, o) == n \in Suitable[o] /\ n \in online /\ Fits(n, o)

Projected(n, o, r) == allocated[n][r] + reserved[n][r] + Demand[o][r]

(* The greatest projected utilisation of m is at most that of n; the        *)
(* fractions are compared by their cross products.                          *)
NoFuller(m, n, o) ==
  \A r \in Measured : \E q \in Measured :
    Projected(m, o, r) * total[n][q] <= Projected(n, o, q) * total[m][r]

Before(m, n, o) ==
  /\ NoFuller(m, n, o)
  /\ NoFuller(n, m, o) => Rank[m] < Rank[n]

(* The ORDER BY of the candidates, as of the statement's snapshot. *)
Ordered(list, o) ==
  \A i, j \in DOMAIN list : i < j => Before(list[i], list[j], o)

Lists(S) == [1..Cardinality(S) -> S]

(* What a transaction of w locks is free again once it ends. *)
Unlocked(lock, w) == [x \in DOMAIN lock |-> IF lock[x] = w THEN NoWorker ELSE lock[x]]

EndTransaction(w, next) ==
  /\ pc' = [pc EXCEPT ![w] = next]
  /\ op' = [op EXCEPT ![w] = IF next = "idle" THEN NoOp ELSE @]
  /\ nodeLock' = Unlocked(nodeLock, w)
  /\ rowLock' = Unlocked(rowLock, w)
  /\ queue' = [queue EXCEPT ![w] = <<>>]
  /\ cands' = [cands EXCEPT ![w] = <<>>]

(* A counter of node n after the reservations S gave back what they hold. *)
Minus(counter, S) ==
  [n \in Nodes |-> [r \in Resources |->
     counter[n][r] - Cardinality(Ledger!UnitsOf({o \in S : res[o].node = n}, r))]]

Plus(counter, o, n) ==
  [counter EXCEPT ![n] = [r \in Resources |-> counter[n][r] + Demand[o][r]]]

-----------------------------------------------------------------------------
(* A worker claims operation o and runs the provision workflow up to the    *)
(* call of Reserve; only operations that are not terminal can be claimed.   *)
Start(w, o) ==
  /\ pc[w] = "idle"
  /\ o \notin terminal
  /\ pc' = [pc EXCEPT ![w] = "finding"]
  /\ op' = [op EXCEPT ![w] = o]
  /\ UNCHANGED <<dbVars, lockVars, queue, cands, faults>>

(* GetResourceReservationByOperation: an existing reservation is returned,  *)
(* whatever its status.                                                     *)
Find(w) ==
  /\ pc[w] = "finding"
  /\ pc' = [pc EXCEPT ![w] = IF res[op[w]].status = "none" THEN "selecting" ELSE "placed"]
  /\ UNCHANGED <<dbVars, lockVars, op, queue, cands, faults>>

(* The snapshot of SelectCandidateNodesForUpdate. *)
Select(w) ==
  /\ pc[w] = "selecting"
  /\ pc' = [pc EXCEPT ![w] = "locking"]
  /\ \E list \in Lists({n \in Nodes : Eligible(n, op[w])}) :
       /\ Ordered(list, op[w])
       /\ queue' = [queue EXCEPT ![w] = list]
  /\ UNCHANGED <<dbVars, lockVars, op, cands, faults>>

(* The lock on the next node row; a candidate that no longer satisfies the  *)
(* conditions once it is locked is left out of the result.                  *)
LockNode(w) ==
  /\ pc[w] \in {"locking", "expiring"}
  /\ queue[w] # <<>>
  /\ LET n == Head(queue[w]) IN
       /\ nodeLock[n] \in {NoWorker, w}
       /\ nodeLock' = [nodeLock EXCEPT ![n] = w]
       /\ cands' = IF pc[w] = "locking" /\ Eligible(n, op[w])
                     THEN [cands EXCEPT ![w] = Append(@, n)]
                     ELSE cands
  /\ queue' = [queue EXCEPT ![w] = Tail(@)]
  /\ UNCHANGED <<dbVars, rowLock, pc, op, faults>>

(* Mutant: the transaction is not rolled back when no candidate is left. *)
ExhaustedHoldingLocks(w) ==
  /\ pc[w] = "locking"
  /\ queue[w] = <<>>
  /\ cands[w] # <<>> => ~Fits(Head(cands[w]), op[w])
  /\ pc' = [pc EXCEPT ![w] = "idle"]
  /\ op' = [op EXCEPT ![w] = NoOp]
  /\ UNCHANGED <<dbVars, lockVars, queue, cands, faults>>

(* ErrResourceExhausted: no candidate, or the update finds no room. *)
Exhausted(w) ==
  /\ pc[w] = "locking"
  /\ queue[w] = <<>>
  /\ cands[w] # <<>> => ~Fits(Head(cands[w]), op[w])
  /\ EndTransaction(w, "idle")
  /\ UNCHANGED <<dbVars, faults>>

(* AddNodeReservation on the first candidate, CreateResourceReservation and *)
(* the commit.                                                              *)
Place(w) ==
  /\ pc[w] = "locking"
  /\ queue[w] = <<>>
  /\ cands[w] # <<>>
  /\ LET o == op[w]
         n == Head(cands[w]) IN
       /\ Fits(n, o)
       /\ res[o].status = "none"
       /\ reserved' = Plus(reserved, o, n)
       /\ res' = [res EXCEPT ![o] = [status |-> "reserved", node |-> n]]
  /\ EndTransaction(w, "placed")
  /\ UNCHANGED <<total, terminal, allocated, online, elapsed, faults>>

(* The insert violates the unique operation_id: another worker reserved for *)
(* the same operation.  The transaction is rolled back and the other        *)
(* worker's reservation returned.                                           *)
Conflict(w) ==
  /\ pc[w] = "locking"
  /\ queue[w] = <<>>
  /\ cands[w] # <<>>
  /\ Fits(Head(cands[w]), op[w])
  /\ res[op[w]].status # "none"
  /\ EndTransaction(w, "placed")
  /\ UNCHANGED <<dbVars, faults>>

(* Mutant: only a repeated call is recognised, not a reservation that was     *)
(* settled otherwise.                                                         *)
NotYetChanged(o, status) == res[o].status # status

(* A reservation that is settled already is not settled again. *)
Changeable(o, status) == res[o].status = "reserved"

(* LockResourceReservation in changeStatus or Finalize: nothing to do when   *)
(* the reservation has the wanted status, an error when it is settled        *)
(* otherwise.                                                                *)
LockReservation(w, status) ==
  /\ pc[w] = "placed"
  /\ rowLock[op[w]] = NoWorker
  /\ IF Changeable(op[w], status)
       THEN /\ pc' = [pc EXCEPT ![w] = status]
            /\ rowLock' = [rowLock EXCEPT ![op[w]] = w]
            /\ UNCHANGED <<nodeLock, op, queue, cands>>
       ELSE EndTransaction(w, "idle")
  /\ UNCHANGED <<dbVars, faults>>

(* CommitNodeReservation or ReleaseNodeReservation, then                     *)
(* SetResourceReservationStatus and the commit.                              *)
ChangeStatus(w) ==
  /\ pc[w] \in {"committed", "released"}
  /\ LET o == op[w]
         n == res[o].node IN
       /\ nodeLock[n] = NoWorker
       /\ reserved' = Minus(reserved, {o})
       /\ allocated' = IF pc[w] = "committed" THEN Plus(allocated, o, n) ELSE allocated
       /\ Ledger!Settle({o}, pc[w])
  /\ EndTransaction(w, "idle")
  /\ UNCHANGED <<total, terminal, online, elapsed, faults>>

(* The workflow stops before it settles the reservation: a retryable error. *)
Leave(w) ==
  /\ pc[w] = "placed"
  /\ EndTransaction(w, "idle")
  /\ UNCHANGED <<dbVars, faults>>

-----------------------------------------------------------------------------
(* Mutants: operations need not be terminal; the comparison with expires_at  *)
(* is reversed.                                                              *)
OrphansOfAnyOperation == {o \in elapsed : res[o].status = "reserved" /\ rowLock[o] = NoWorker}

OrphansNotYetElapsed == {o \in terminal \ elapsed :
                           res[o].status = "reserved" /\ rowLock[o] = NoWorker}

(* The rows expireReservations selects. *)
Orphans == {o \in terminal \intersect elapsed :
              res[o].status = "reserved" /\ rowLock[o] = NoWorker}

(* expireReservations selects and locks the orphaned reservations, skipping *)
(* the locked ones; their nodes are updated one by one, by expires_at.      *)
SelectExpired(w) ==
  /\ pc[w] = "idle"
  /\ Orphans # {}
  /\ rowLock' = [o \in Ops |-> IF o \in Orphans THEN w ELSE rowLock[o]]
  /\ pc' = [pc EXCEPT ![w] = "expiring"]
  /\ LET hosts == {res[o].node : o \in Orphans} IN
       \E list \in Lists(hosts) :
         /\ \A n \in hosts : \E i \in DOMAIN list : list[i] = n
         /\ queue' = [queue EXCEPT ![w] = list]
  /\ UNCHANGED <<dbVars, nodeLock, op, cands, faults>>

(* Mutant: a status that resource_reservations_status_valid does not know. *)
ExpireAsCancelled(w) ==
  /\ pc[w] = "expiring"
  /\ queue[w] = <<>>
  /\ LET items == {o \in Ops : rowLock[o] = w} IN
       /\ reserved' = Minus(reserved, items)
       /\ Ledger!Settle(items, "cancelled")
  /\ EndTransaction(w, "idle")
  /\ UNCHANGED <<total, terminal, allocated, online, elapsed, faults>>

(* The updates of expireReservations and its commit. *)
ExpireReservations(w) ==
  /\ pc[w] = "expiring"
  /\ queue[w] = <<>>
  /\ LET items == {o \in Ops : rowLock[o] = w} IN
       /\ reserved' = Minus(reserved, items)
       /\ Ledger!Settle(items, "expired")
  /\ EndTransaction(w, "idle")
  /\ UNCHANGED <<total, terminal, allocated, online, elapsed, faults>>

-----------------------------------------------------------------------------
(* The lock on which the transaction of w waits, if it waits. *)
WaitsFor(w, u) ==
  /\ u # w
  /\ \/ pc[w] \in {"locking", "expiring"} /\ queue[w] # <<>> /\ nodeLock[Head(queue[w])] = u
     \/ pc[w] \in {"committed", "released"} /\ nodeLock[res[op[w]].node] = u

Deadlocked(w) ==
  \E S \in SUBSET Workers :
    w \in S /\ \A u \in S : (\E v \in S : WaitsFor(u, v)) /\ (\E v \in S : WaitsFor(v, u))

(* PostgreSQL's deadlock detector rolls one of the waiting transactions back; *)
(* the call fails and the operation is retried later.                         *)
DeadlockVictim(w) ==
  /\ Deadlocked(w)
  /\ EndTransaction(w, "idle")
  /\ UNCHANGED <<dbVars, faults>>

(* A crash of the worker, or an error of the database: what was not committed *)
(* is rolled back.                                                            *)
Fault(w) ==
  /\ pc[w] # "idle"
  /\ faults < MaxFaults
  /\ faults' = faults + 1
  /\ EndTransaction(w, "idle")
  /\ UNCHANGED dbVars

-----------------------------------------------------------------------------
(* An operation becomes terminal: another worker's result, or a recovery that *)
(* finds its retries used up.                                                 *)
Finish(o) ==
  /\ o \notin terminal
  /\ terminal' = terminal \union {o}
  /\ UNCHANGED <<res, total, reserved, allocated, online, elapsed, lockVars, workerVars, faults>>

(* The 30 minutes of the reservation pass. *)
Elapse(o) ==
  /\ res[o].status = "reserved"
  /\ o \notin elapsed
  /\ elapsed' = elapsed \union {o}
  /\ UNCHANGED <<res, total, terminal, reserved, allocated, online, lockVars, workerVars, faults>>

(* Heartbeat stores the totals the agent measured, unless it measured none;   *)
(* the check nodes_capacity_not_oversubscribed refuses a heartbeat that would *)
(* leave less than is reserved and allocated.                                 *)
Heartbeat(n) ==
  /\ nodeLock[n] = NoWorker
  /\ \E report \in [Measured -> Reports] :
       LET t == [r \in Resources |-> IF r \in Measured /\ report[r] > 0
                                       THEN report[r] ELSE total[n][r]] IN
         /\ \A r \in Resources : allocated[n][r] + reserved[n][r] <= t[r]
         /\ total' = [total EXCEPT ![n] = t]
  /\ online' = online \union {n}
  /\ UNCHANGED <<res, terminal, reserved, allocated, elapsed, lockVars, workerVars, faults>>

(* expireNodeHeartbeats: the agent was silent for 90 seconds. *)
GoOffline(n) ==
  /\ n \in online
  /\ nodeLock[n] = NoWorker
  /\ online' = online \ {n}
  /\ UNCHANGED <<res, total, terminal, reserved, allocated, elapsed, lockVars, workerVars, faults>>

-----------------------------------------------------------------------------
Next ==
  \/ \E w \in Workers :
       \/ \E o \in Ops : Start(w, o)
       \/ Find(w) \/ Select(w) \/ LockNode(w) \/ Exhausted(w) \/ Place(w) \/ Conflict(w)
       \/ \E status \in {"committed", "released"} : LockReservation(w, status)
       \/ ChangeStatus(w) \/ Leave(w)
       \/ SelectExpired(w) \/ ExpireReservations(w)
       \/ DeadlockVictim(w) \/ Fault(w)
  \/ \E o \in Ops : Finish(o) \/ Elapse(o)
  \/ \E n \in Agents : Heartbeat(n) \/ GoOffline(n)

Spec == Init /\ [][Next]_vars

(* The steps of a worker that wait for no lock. *)
FreeStep(w) ==
  \/ Find(w) \/ Select(w) \/ Exhausted(w) \/ Place(w) \/ Conflict(w)
  \/ Leave(w) \/ ExpireReservations(w)

(* Workers keep executing.  Lock queues are first come, first served, so a   *)
(* transaction that waits for a lock which is released again and again gets  *)
(* it.  Every worker runs the reconciler between two executions.             *)
Fairness ==
  /\ \A w \in Workers :
       /\ WF_vars(FreeStep(w))
       /\ SF_vars(LockNode(w) \/ ChangeStatus(w))
       /\ SF_vars(SelectExpired(w))
  /\ WF_vars(\E w \in Workers : DeadlockVictim(w))
  /\ \A o \in Ops : WF_vars(Elapse(o))

FairSpec == Spec /\ Fairness

-----------------------------------------------------------------------------
(* Every variable holds a value of its type: a row of the table it models,   *)
(* or the state of a worker's transaction.                                   *)
TypeOK ==
  /\ res \in [Ops -> [status : Statuses, node : Nodes \union {NoNode}]]
  /\ total \in [Nodes -> [Resources -> Nat]]
  /\ terminal \subseteq Ops
  /\ reserved \in [Nodes -> [Resources -> Int]]
  /\ allocated \in [Nodes -> [Resources -> Int]]
  /\ online \subseteq Nodes
  /\ elapsed \subseteq Ops
  /\ nodeLock \in [Nodes -> Workers \union {NoWorker}]
  /\ rowLock \in [Ops -> Workers \union {NoWorker}]
  /\ pc \in [Workers -> {"idle", "finding", "selecting", "locking", "placed",
                       "committed", "released", "expiring"}]
  /\ op \in [Workers -> Ops \union {NoOp}]
  /\ queue \in [Workers -> Seq(Nodes)]
  /\ cands \in [Workers -> Seq(Nodes)]
  /\ faults \in 0..MaxFaults

(* The counters of a node row say exactly what the reservation rows on that   *)
(* node hold: however transactions interleave, roll back or run twice, every  *)
(* change of a reservation in scheduler.go, Finalize and expireReservations   *)
(* moves the counters by the same amount.                                     *)
CountersExact ==
  \A n \in Nodes, r \in Resources :
    /\ reserved[n][r] = Cardinality(Ledger!Held(n, r, {"reserved"}))
    /\ allocated[n][r] = Cardinality(Ledger!Held(n, r, {"committed"}))

(* Concurrent schedulers do not oversell a node, and no transaction of the    *)
(* scheduler or the reconciler ever runs into the checks of the nodes table:  *)
(* nodes_capacity_nonnegative and nodes_capacity_not_oversubscribed.          *)
NoOversell ==
  \A n \in Nodes, r \in Resources :
    /\ reserved[n][r] >= 0
    /\ allocated[n][r] >= 0
    /\ allocated[n][r] + reserved[n][r] <= total[n][r]

(* A committed, released or expired reservation never changes again, and none *)
(* is moved to another node: stale workers and the reconciler race for it     *)
(* (changeStatus, Finalize and expireReservations), and the first one wins.   *)
SettledOnce ==
  [][\A o \in Ops :
       /\ res[o].status \in {"committed", "released", "expired"} => res'[o] = res[o]
       /\ res[o].status = "reserved" => res'[o].node = res[o].node]_vars

(* The reservations the rows describe behave as the ledger promises. *)
ImplementsLedger == Ledger!LedgerSpec

(* Transactions that lock several nodes in different orders can wait for each *)
(* other, but every call of Reserve, changeStatus or expireReservations ends. *)
CallsEnd == \A w \in Workers : pc[w] # "idle" ~> pc[w] = "idle"

(* Capacity that a terminal operation left reserved is given back: the        *)
(* reservation is released by the worker that still has it, or expired.       *)
OrphansSettle ==
  \A o \in Ops :
    o \in terminal /\ res[o].status = "reserved" ~> res[o].status # "reserved"
=============================================================================
