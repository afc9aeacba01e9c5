----------------------------- MODULE MCProvision -----------------------------
(* Instances of Provision for TLC. *)
EXTENDS Provision, TLC

Symmetry ==
  Permutations(Workers) \union Permutations(Items)
  \union Permutations(Nodes) \union Permutations(Entries)
=============================================================================
