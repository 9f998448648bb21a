------------------------------ MODULE HolePunch ------------------------------
(***************************************************************************)
(* UDP hole punching (internal/nat/holepunch.go) between two peers, with   *)
(* the relay to fall back to (FallbackStrategy in relay.go).               *)
(*                                                                         *)
(* Each peer finds out its public address, registers with the signaling    *)
(* server, looks the other one up, draws a session ID and sends SYN by a   *)
(* ticker, while a listener goroutine of its own answers SYN by SYN-ACK    *)
(* and SYN-ACK by ACK.  The network loses, repeats and reorders packets,   *)
(* and a peer's NAT lets nothing in before the peer has sent something     *)
(* itself.                                                                 *)
(***************************************************************************)
EXTENDS Naturals

CONSTANTS
  Peer,        \* the two peers
  Other,       \* for each, the one it wants to reach
  SID,         \* session IDs: random numbers, drawn by each peer on its own
  NoSID,
  MaxPunchAttempts, \* SYNs that Connect sends (5 in the code)
  MaxRetries   \* bound on the calls that programs repeat

ASSUME PunchAssumption ==
  /\ Other \in [Peer -> Peer] /\ \A p \in Peer : Other[p] # p /\ Other[Other[p]] = p
  /\ NoSID \notin SID
  /\ MaxPunchAttempts \in Nat \ {0} /\ MaxRetries \in Nat

VARIABLES
  call,       \* whom the program calls: "strategy", "helper", "simultaneous"
  pc,         \* how far the call has got, or its result
  registered, \* the peers the signaling server knows
  sid,        \* the session ID of the current attempt
  attempts,   \* result.Attempts
  listeners,  \* the session IDs that running listenForPunch goroutines expect
  success,    \* session IDs whose successCh has been written to
  net,        \* every packet sent so far
  hole,       \* the peer has sent something, so that its NAT lets packets in
  heard,      \* history: session IDs under which something was received
  retries     \* calls repeated so far

punchVars == <<call, pc, registered, sid, attempts, listeners, success, net, hole,
               heard, retries>>

Calls == {"strategy", "helper", "simultaneous"}
Results == {"punched", "relayed", "failed", "relay_needed", "panic"}

PunchInit ==
  /\ call \in [Peer -> Calls]
  /\ pc = [p \in Peer |-> "init"]
  /\ registered = {}
  /\ sid = [p \in Peer |-> NoSID]
  /\ attempts = [p \in Peer |-> 0]
  /\ listeners = [p \in Peer |-> {}] /\ success = [p \in Peer |-> {}]
  /\ net = {} /\ hole = {}
  /\ heard = [p \in Peer |-> {}]
  /\ retries = 0

Packet(type, s, p) == [type |-> type, sid |-> s, from |-> p]

\* sendPunchPacket: the first packet opens the sender's own NAT.
Send(type, s, p) ==
  /\ net' = net \cup {Packet(type, s, p)}
  /\ hole' = hole \cup {p}

Goto(p, s) == pc' = [pc EXCEPT ![p] = s]

-----------------------------------------------------------------------------
(* Before the packets *)

\* STUN discovery and the registration.  If one fails FallbackStrategy goes
\* straight to the relay; the others have nothing to go on with.
Initialize(p) ==
  /\ pc[p] = "init"
  /\ \/ registered' = registered \cup {p} /\ Goto(p, "lookup")
     \/ UNCHANGED registered /\ Goto(p, IF call[p] = "strategy" THEN "relay" ELSE "failed")
  /\ UNCHANGED <<call, sid, attempts, listeners, success, net, hole, heard, retries>>

\* Connect looks the other peer up.  SimultaneousOpen was given its address.
Lookup(p) ==
  /\ pc[p] = "lookup"
  /\ call[p] # "simultaneous" => Other[p] \in registered
  /\ Goto(p, "punch")
  /\ \E s \in SID :
       /\ sid' = [sid EXCEPT ![p] = s]
       /\ listeners' = [listeners EXCEPT ![p] = @ \cup {s}]
       /\ success' = [success EXCEPT ![p] = @ \ {s}]
  /\ attempts' = [attempts EXCEPT ![p] = 0]
  /\ UNCHANGED <<call, registered, net, hole, heard, retries>>

\* A bug to avoid: nobody answers for a peer that is not known, and the client
\* has no deadline.
LookupFailsIfKnown(p) ==
  /\ pc[p] = "lookup" /\ call[p] # "simultaneous" /\ Other[p] \in registered
  /\ Goto(p, IF call[p] = "strategy" THEN "panic" ELSE "failed")
  /\ UNCHANGED <<call, registered, sid, attempts, listeners, success, net, hole,
                 heard, retries>>

\* The lookup fails and Connect returns no result.  FallbackStrategy reads the
\* number of attempts from that result all the same.
LookupFails(p) ==
  /\ pc[p] = "lookup" /\ call[p] # "simultaneous"
  /\ Goto(p, IF call[p] = "strategy" THEN "panic" ELSE "failed")
  /\ UNCHANGED <<call, registered, sid, attempts, listeners, success, net, hole,
                 heard, retries>>

-----------------------------------------------------------------------------
(* attemptHolePunch and ScheduleAndPunch *)

\* SimultaneousOpen makes twice as many attempts.
Limit(p) == IF call[p] = "simultaneous" THEN 2 * MaxPunchAttempts ELSE MaxPunchAttempts

\* A bug to avoid: whoever fails to punch is given what there is not.
UnpunchedNil(p) ==
  CASE call[p] = "strategy" -> "panic"
    [] call[p] = "helper" -> "relay_needed"
    [] OTHER -> "failed"

\* What an attempt without success is to the caller.
Unpunched(p) ==
  CASE call[p] = "strategy" -> "relay"
    [] call[p] = "helper" -> "relay_needed"
    [] OTHER -> "failed"

\* The ticker: one more SYN.  After the last one the loop ends at once.
PunchTick(p) ==
  /\ pc[p] = "punch"
  /\ attempts' = [attempts EXCEPT ![p] = @ + 1]
  /\ Send("SYN", sid[p], p)
  /\ Goto(p, IF attempts'[p] < Limit(p) THEN "punch" ELSE Unpunched(p))
  /\ UNCHANGED <<call, registered, sid, listeners, success, heard, retries>>

PunchSucceeds(p) ==
  /\ pc[p] = "punch" /\ sid[p] \in success[p]
  /\ Goto(p, "punched")
  /\ UNCHANGED <<call, registered, sid, attempts, listeners, success, net, hole,
                 heard, retries>>

\* The context is done.
PunchCancelled(p) ==
  /\ pc[p] = "punch"
  /\ Goto(p, Unpunched(p))
  /\ UNCHANGED <<call, registered, sid, attempts, listeners, success, net, hole,
                 heard, retries>>

-----------------------------------------------------------------------------
(* listenForPunch *)

Hear(p, s) == heard' = [heard EXCEPT ![p] = @ \cup {s}]
Report(p, s) ==
  /\ success' = [success EXCEPT ![p] = @ \cup {s}]
  /\ listeners' = [listeners EXCEPT ![p] = @ \ {s}]

\* A bug to avoid: a SYN is proof enough.
ListenOneWay(p, s) ==
  /\ s \in listeners[p] /\ p \in hole
  /\ \E m \in net :
       /\ m.from = Other[p] /\ m.sid = s
       /\ \/ m.type = "SYN" /\ Send("SYNACK", s, p) /\ Report(p, s)
          \/ m.type = "SYNACK" /\ Send("ACK", s, p) /\ Report(p, s)
          \/ m.type = "ACK" /\ Report(p, s) /\ UNCHANGED <<net, hole>>
  /\ Hear(p, s)
  /\ UNCHANGED <<call, pc, registered, sid, attempts, retries>>

\* A packet of the listener's session arrives; packets of others are dropped.
\* The listener may be that of an attempt that is over, until it notices.
Listen(p, s) ==
  /\ s \in listeners[p] /\ p \in hole
  /\ \E m \in net :
       /\ m.from = Other[p] /\ m.sid = s
       /\ \/ m.type = "SYN" /\ Send("SYNACK", s, p) /\ UNCHANGED <<listeners, success>>
          \/ m.type = "SYNACK" /\ Send("ACK", s, p) /\ Report(p, s)
          \/ m.type = "ACK" /\ Report(p, s) /\ UNCHANGED <<net, hole>>
  /\ Hear(p, s)
  /\ UNCHANGED <<call, pc, registered, sid, attempts, retries>>

\* The attempt is over, or it is another one now.
ListenerStops(p, s) ==
  /\ s \in listeners[p]
  /\ pc[p] # "punch" \/ s # sid[p]
  /\ listeners' = [listeners EXCEPT ![p] = @ \ {s}]
  /\ UNCHANGED <<call, pc, registered, sid, attempts, success, net, hole, heard, retries>>

-----------------------------------------------------------------------------
(* After the packets *)

\* connectViaRelay: the other peer comes to the relay too, or it does not.
ConnectViaRelay(p) ==
  /\ pc[p] = "relay"
  /\ \/ pc[Other[p]] \in {"relay", "relayed"} /\ Goto(p, "relayed")
     \/ Goto(p, "failed")
  /\ UNCHANGED <<call, registered, sid, attempts, listeners, success, net, hole,
                 heard, retries>>

\* The program calls again, on the same socket.
TryAgain(p) ==
  /\ call[p] # "strategy" /\ p \in registered
  /\ pc[p] \in {"failed", "relay_needed"}
  /\ retries < MaxRetries /\ retries' = retries + 1
  /\ Goto(p, "lookup")
  /\ UNCHANGED <<call, registered, sid, attempts, listeners, success, net, hole, heard>>

-----------------------------------------------------------------------------

Run(p) ==
  \/ Initialize(p) \/ Lookup(p) \/ LookupFails(p)
  \/ PunchTick(p) \/ PunchSucceeds(p) \/ PunchCancelled(p) \/ ConnectViaRelay(p)

PunchNext ==
  \E p \in Peer :
    \/ Run(p) \/ TryAgain(p)
    \/ \E s \in SID : Listen(p, s) \/ ListenerStops(p, s)

PunchSpec == PunchInit /\ [][PunchNext]_punchVars

\* The calling goroutine runs.  Packets need not arrive.
FairSpec == PunchSpec /\ \A p \in Peer : WF_punchVars(Run(p))

-----------------------------------------------------------------------------
(* Properties *)

TypeOK ==
  /\ call \in [Peer -> Calls]
  /\ pc \in [Peer -> {"init", "lookup", "punch", "relay"} \cup Results]
  /\ registered \subseteq Peer /\ hole \subseteq Peer
  /\ sid \in [Peer -> SID \cup {NoSID}]
  /\ attempts \in [Peer -> 0 .. 2 * MaxPunchAttempts]
  /\ listeners \in [Peer -> SUBSET SID] /\ success \in [Peer -> SUBSET SID]
  /\ net \subseteq [type : {"SYN", "SYNACK", "ACK"}, sid : SID, from : Peer]
  /\ heard \in [Peer -> SUBSET SID]
  /\ retries \in 0..MaxRetries

\* A punched hole works in both directions: whoever reports one has received a
\* packet of the other peer and had one received by it, in whatever order packets
\* arrive.  And only peers that happen to draw the same session ID get through:
\* IDs are drawn by each peer on its own and are not exchanged, so in practice
\* they differ and every call ends without a hole.
PunchedBothWays ==
  \A p \in Peer : pc[p] = "punched" =>
    /\ sid[p] \in heard[p] /\ sid[p] \in heard[Other[p]]
    /\ \E m \in net : m.from = Other[p] /\ m.sid = sid[p]

\* FallbackStrategy does fall back: once it sends packets it ends with a hole,
\* with the relay or with the relay's error.  Only a failed lookup ends it
\* otherwise.
StrategyFallsBack ==
  [][\A p \in Peer :
       pc[p] = "punch" /\ pc'[p] # "punch" /\ call[p] = "strategy" =>
         pc'[p] \in {"punched", "relay"}]_punchVars

\* A strategy whose lookup fails goes to the relay, as NewFallbackStrategy says
\* (relay.go:445).  It does not: it reads a field of the missing result.
FailedLookupFallsBack ==
  [][\A p \in Peer :
       pc[p] = "lookup" /\ pc'[p] # "lookup" /\ call[p] = "strategy" =>
         pc'[p] \in {"punch", "relay"}]_punchVars

\* Every call ends: no peer stays in one for ever.  A panic is an end too.
CallsEnd == \A p \in Peer : []<>(pc[p] \in Results)
=============================================================================
