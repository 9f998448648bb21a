---------------------------- MODULE MCDiscovery ----------------------------
(* Two STUN servers, two sockets, one client that looks the peer up. *)
EXTENDS Discovery, Bitwise

CONSTANT Cookie   \* StunMagicCookie, as far as it is XORed with a port

MCXorPort(port) == port ^^ Cookie

\* An answer with each attribute the client knows, one behind an attribute it
\* skips, and one without any.
MCLayouts == {<<"xor">>, <<"other", "plain">>, <<"xor6">>, <<"other">>}
=============================================================================
