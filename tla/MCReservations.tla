--------------------------- MODULE MCReservations ---------------------------
(* Instances of Reservations for TLC. *)
EXTENDS Reservations, TLC

CONSTANTS n1, n2, o1, o2, w1, w2

MCResources == {"cpu", "ipv4"}
MCMeasured == {"cpu"}

(* Two operations fit on one node by cpu only when the node has grown, and    *)
(* never by ipv4; the second one fits only on an unused node.                 *)
MCDemand == [o \in Ops |-> IF o = o1 THEN [cpu |-> 1, ipv4 |-> 1]
                                     ELSE [cpu |-> 2, ipv4 |-> 0]]
MCSuitable == [o \in Ops |-> Nodes]
(* The second operation has only the second node to go to. *)
MCSuitableApart == [o \in Ops |-> IF o = o1 THEN Nodes ELSE {n2}]
MCRank == [n \in Nodes |-> IF n = n1 THEN 1 ELSE 2]
MCFirstTotal == [n \in Nodes |-> [cpu |-> 2, ipv4 |-> 1]]

WorkerSymmetry == Permutations(Workers)
=============================================================================
