-------------------------- MODULE MCRunmanCommands --------------------------
(* Instances of RunmanCommands for TLC. *)
EXTENDS RunmanCommands, TLC

CONSTANTS create, stop, list, bad

AllKinds ==
  (create :> "create") @@ (stop :> "stop") @@ (list :> "list_ports") @@ (bad :> "oversized")
MCKind == [k \in Keys |-> AllKinds[k]]
=============================================================================
