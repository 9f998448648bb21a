------------------------------ MODULE MCRelay ------------------------------
(* Three clients that name the same session. *)
EXTENDS Relay

CONSTANTS s

MCIdOf == [c \in Conn |-> s]
=============================================================================
