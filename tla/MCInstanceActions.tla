--------------------------- MODULE MCInstanceActions ---------------------------
(* Instances of InstanceActions for TLC. *)
EXTENDS InstanceActions

CONSTANTS w1, w2

MCSlots == 1 .. 2
================================================================================
