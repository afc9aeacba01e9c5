---------------------------- MODULE MCBackoffice ----------------------------
(* Two administrators and two requests at a time. *)
EXTENDS Backoffice, TLC

MCSymmetry == Permutations(Admins) \cup Permutations(Requests)
=============================================================================
