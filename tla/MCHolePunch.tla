---------------------------- MODULE MCHolePunch ----------------------------
(* Two peers, each of which may draw the other's session ID or its own. *)
EXTENDS HolePunch, TLC

CONSTANTS a, b

MCOther == a :> b @@ b :> a
=============================================================================
