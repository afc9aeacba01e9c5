--------------------------- MODULE CapacityLedger ---------------------------
(***************************************************************************)
(* What the scheduler and its reservations promise, without transactions,  *)
(* locks or counters: an operation holds capacity on at most one node, for *)
(* as long as its reservation is reserved or committed; a reservation is   *)
(* made only where the capacity held leaves room for it, and is settled    *)
(* once.  Reservations.tla implements this specification.                  *)
(***************************************************************************)
EXTENDS Integers, FiniteSets

CONSTANTS
  Nodes,      \* rows of nodes
  Ops,        \* provision operations
  Resources,  \* capacity dimensions: cpu, memory, disk, ipv4, ipv6, nat ports
  Demand,     \* Demand[o][r]: what the plan of operation o asks of r
  Suitable,   \* Suitable[o]: nodes of the plan's group with its capabilities
  NoNode      \* the node of an operation without a reservation

VARIABLES
  res,        \* res[o]: the resource_reservations row of operation o
  total,      \* total[n][r]: what the node offers
  terminal    \* operations that are succeeded, failed or cancelled

ledgerVars == <<res, total, terminal>>

-----------------------------------------------------------------------------
(* The units of r operation o holds when it holds any: as many as it       *)
(* demands, told apart from the units of every other operation.            *)
Units(o, r) == {o} \X (1..Demand[o][r])

Holders(n, states) == {o \in Ops : res[o].node = n /\ res[o].status \in states}

UnitsOf(S, r) == UNION {Units(o, r) : o \in S}

Held(n, r, states) == UnitsOf(Holders(n, states), r)

Load(n, r) == Cardinality(Held(n, r, {"reserved", "committed"}))

Settle(S, status) ==
  res' = [o \in Ops |-> IF o \in S THEN [res[o] EXCEPT !.status = status] ELSE res[o]]

-----------------------------------------------------------------------------
LedgerInit ==
  /\ res = [o \in Ops |-> [status |-> "none", node |-> NoNode]]
  /\ total \in [Nodes -> [Resources -> Nat]]
  /\ terminal = {}

Reserve(o, n) ==
  /\ res[o].status = "none"
  /\ n \in Suitable[o]
  /\ \A r \in Resources : Load(n, r) + Demand[o][r] <= total[n][r]
  /\ res' = [res EXCEPT ![o] = [status |-> "reserved", node |-> n]]
  /\ UNCHANGED <<total, terminal>>

(* Commit or Release of one reservation. *)
Change(o, status) ==
  /\ res[o].status = "reserved"
  /\ Settle({o}, status)
  /\ UNCHANGED <<total, terminal>>

(* Only reservations of terminal operations expire, several at a time. *)
Expire(S) ==
  /\ \A o \in S : res[o].status = "reserved"
  /\ S \subseteq terminal
  /\ Settle(S, "expired")
  /\ UNCHANGED <<total, terminal>>

(* A node never shrinks below what is held on it. *)
Resize(n) ==
  /\ total'[n] \in [Resources -> Nat]
  /\ \A r \in Resources : Load(n, r) <= total'[n][r]
  /\ total' = [total EXCEPT ![n] = total'[n]]
  /\ UNCHANGED <<res, terminal>>

Finish(o) ==
  /\ terminal' = terminal \union {o}
  /\ UNCHANGED <<res, total>>

LedgerNext ==
  \/ \E o \in Ops, n \in Nodes : Reserve(o, n)
  \/ \E o \in Ops, status \in {"committed", "released"} : Change(o, status)
  \/ \E S \in SUBSET Ops : Expire(S)
  \/ \E n \in Nodes : Resize(n)
  \/ \E o \in Ops : Finish(o)

LedgerSpec == LedgerInit /\ [][LedgerNext]_ledgerVars
=============================================================================
