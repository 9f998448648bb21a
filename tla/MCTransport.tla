---------------------------- MODULE MCTransport ----------------------------
(* Two transports that dial each other at the same time. *)
EXTENDS Transport, TLC

CONSTANTS a, b, ab, ba

MCDialer == ab :> a @@ ba :> b
MCAcceptor == ab :> b @@ ba :> a
=============================================================================
