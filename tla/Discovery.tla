------------------------------ MODULE Discovery ------------------------------
(***************************************************************************)
(* HolePuncher.Initialize (internal/nat/holepunch.go): a peer discovers    *)
(* its public address with STUN (module Stun) and registers it with the    *)
(* signaling server (module Signaling), where others look it up.           *)
(***************************************************************************)
EXTENDS Stun, Signaling

VARIABLES
  puncher,  \* the peer: "idle", "discovering", "detecting", "registering", "ready"
  posted    \* registrations on their way to the server

vars == <<stunVars, signalVars, puncher, posted>>

Init == StunInit /\ SignalInit /\ puncher = "idle" /\ posted = {}

\* Initialize may be called again; the old socket is simply replaced.
InitializeStarts ==
  /\ puncher \in {"idle", "ready"}
  /\ Discover("initialize")
  /\ puncher' = "discovering"
  /\ UNCHANGED <<signalVars, posted>>

DetectNATType ==
  /\ puncher = "idle"
  /\ Discover("detect")
  /\ puncher' = "detecting"
  /\ UNCHANGED <<signalVars, posted>>

\* Once Discover has returned, the address is registered with the server.
StunStep ==
  /\ ReadAnswer \/ QueryTimeout
  /\ LET done == asking' = 0
         registers == done /\ puncher = "discovering" /\ mapped' # 0 IN
       /\ puncher' = CASE registers -> "registering"
                       [] done /\ ~registers -> "idle"
                       [] OTHER -> puncher
       /\ posted' = posted \cup (IF registers THEN {[pub |-> mapped', local |-> socket]} ELSE {})
  /\ UNCHANGED signalVars

\* The server handles a registration.  The peer is acknowledged if it still
\* waits for this one and the answer is not lost.
Register ==
  \E r \in posted :
    /\ HandleRegister(r.pub, r.local)
    /\ posted' = posted \ {r}
    /\ \/ puncher = "registering" /\ r.local = socket /\ puncher' = "ready"
       \/ UNCHANGED puncher
    /\ UNCHANGED stunVars

\* Register fails or times out, and Initialize closes the socket.  The server may
\* have handled it all the same, may still handle it later, or never get it.
RegisterFails ==
  /\ puncher = "registering"
  /\ puncher' = "idle"
  /\ posted' \in {posted, posted \ {[pub |-> mapped, local |-> socket]}}
  /\ UNCHANGED <<stunVars, signalVars>>

\* LookupPeer of a client: its request, then the response or an error.
LookupPeer ==
  /\ \E l \in Looker : HandlePeerRequest(l) \/ SendPeerResponse(l)
  /\ UNCHANGED <<stunVars, puncher, posted>>

ServerStep ==
  /\ Tick \/ Restart
  /\ UNCHANGED <<stunVars, puncher, posted>>

Next ==
  \/ InitializeStarts \/ DetectNATType \/ StunStep
  \/ Register \/ RegisterFails \/ LookupPeer \/ ServerStep

Spec == Init /\ [][Next]_vars

-----------------------------------------------------------------------------

\* What a lookup returns was once true: the two addresses belong to the same
\* socket of the peer, and the public one is what its NAT really mapped this
\* socket to, whatever answers were lost, late or to another query.
FoundIsGenuine ==
  \A l \in Looker : lookup[l] = "found" =>
    \E i \in 1..Servers : found[l].pub = Port(found[l].local, i)
=============================================================================
