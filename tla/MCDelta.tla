------------------------------ MODULE MCDelta ------------------------------
(* All files of two bytes up to a length. *)
EXTENDS Delta

CONSTANT MaxLen

MCFile == UNION {[1..n -> {0, 1}] : n \in 0..MaxLen}
=============================================================================
