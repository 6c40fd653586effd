--------------------------- MODULE MCDistillation ---------------------------
(* Instances of Distillation for TLC. *)
EXTENDS Distillation

CONSTANTS u1, u2, p1, p2

\* One project of each user.
MCOwnerOf == [p \in Projects |-> IF p = p1 THEN u1 ELSE u2]
=============================================================================
