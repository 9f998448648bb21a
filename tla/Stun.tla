-------------------------------- MODULE Stun --------------------------------
(***************************************************************************)
(* The STUN client (internal/nat/stun.go): a peer behind a NAT asks        *)
(* servers which public port its UDP socket has.                           *)
(*                                                                         *)
(* Servers are asked one after the other on the same socket.  Each query   *)
(* reads one datagram, whatever it is, or times out; answers may be lost   *)
(* or arrive during a later query.                                         *)
(***************************************************************************)
EXTENDS Naturals, Sequences, FiniteSetsExt

CONSTANTS
  Servers,    \* number of STUN servers (2 by default)
  Layouts,    \* the attributes that answers come with
  XorPort(_), \* a port XORed with the first 16 bits of StunMagicCookie
  MaxSockets  \* bound on the sockets opened

\* The public port of socket k towards server i, for a NAT of either kind.
MappedTo(kind, k, i) == (Servers + 1) * k + (IF kind = "symmetric" THEN i ELSE 0)

NATKind == {"cone", "symmetric"}

\* XORing twice gives the port back.
ASSUME StunAssumption ==
  /\ Servers \in Nat \ {0, 1} /\ MaxSockets \in Nat
  /\ Layouts \subseteq Seq({"xor", "plain", "xor6", "other"})
  /\ \A kind \in NATKind, k \in 1..MaxSockets, i \in 1..Servers :
       XorPort(XorPort(MappedTo(kind, k, i))) = MappedTo(kind, k, i)

VARIABLES
  nat,      \* the NAT maps a socket to one port, or to one per destination
  socket,   \* the socket in use: sockets are numbered from 1
  purpose,  \* whom Discover works for: "initialize" or "detect"
  asking,   \* the server being asked, 0 for none
  second,   \* DetectNATType is at its second query
  tx,       \* transaction ID of the query
  flying,   \* answers on their way to the socket
  mapped,   \* the address Discover returned, 0 for none
  source,   \* history: the server it was asked from
  verdict   \* what DetectNATType returned last

stunVars == <<nat, socket, purpose, asking, second, tx, flying, mapped, source, verdict>>

Port(k, i) == MappedTo(nat, k, i)

\* What server i answers socket k: its port, in the attributes it likes.
Answer(k, i, t, layout) ==
  [tx |-> t,
   attrs |-> [j \in DOMAIN layout |->
     [type |-> layout[j],
      value |-> IF layout[j] = "xor" THEN XorPort(Port(k, i)) ELSE Port(k, i)]]]

\* An address that is not of IPv4 is an error, which is 0 here.
ParseXorMappedAddress(a) == IF a.type = "xor" THEN XorPort(a.value) ELSE 0
ParseMappedAddress(a) == a.value

\* The first address attribute decides, others are skipped.
AddressIn(attrs) ==
  LET addresses == {j \in DOMAIN attrs : attrs[j].type # "other"}
      first == attrs[Min(addresses)] IN
  CASE addresses = {} -> 0
    [] addresses # {} /\ first.type = "plain" -> ParseMappedAddress(first)
    [] OTHER -> ParseXorMappedAddress(first)

\* A bug to avoid: the transaction ID is not compared, so that a late answer
\* counts for the server asked after it.
ParseAnyStunResponse(m) == AddressIn(m.attrs)

ParseStunResponse(m) == IF m.tx = tx THEN AddressIn(m.attrs) ELSE 0

StunInit ==
  /\ nat \in NATKind
  /\ socket = 0 /\ purpose = "none" /\ asking = 0 /\ second = FALSE
  /\ tx = 0 /\ flying = {} /\ mapped = 0 /\ source = 0 /\ verdict = "none"

-----------------------------------------------------------------------------

\* queryServer sends its request on socket k, with older answers still on their
\* way.  The request or its answer may be lost.
Query(k, i, older) ==
  /\ asking' = i
  /\ tx' = tx + 1
  /\ \/ flying' = older
     \/ \E layout \in Layouts : flying' = older \cup {Answer(k, i, tx', layout)}

\* DiscoverWithNewConn: a new socket, to which nothing was ever sent.
Discover(why) ==
  /\ asking = 0 /\ socket < MaxSockets
  /\ socket' = socket + 1
  /\ purpose' = why /\ second' = FALSE
  /\ mapped' = 0 /\ source' = 0 /\ verdict' = "none"
  /\ Query(socket', 1, {})
  /\ UNCHANGED nat

\* A query failed.  Discover goes on to the next server and fails after the
\* last; the second query of DetectNATType has no other server to go to.
QueryFails(rest) ==
  /\ IF ~second /\ asking < Servers
       THEN Query(socket, asking + 1, rest) /\ UNCHANGED verdict
       ELSE /\ asking' = 0 /\ flying' = {} /\ UNCHANGED tx
            /\ verdict' = IF purpose = "detect" THEN "Unknown" ELSE verdict
  /\ UNCHANGED <<nat, socket, purpose, second, mapped, source>>

\* DetectNATType asks the second server, on the same socket, and compares.
QuerySucceeds(addr, rest) ==
  CASE purpose = "initialize" ->
         /\ asking' = 0 /\ flying' = {}
         /\ mapped' = addr /\ source' = asking
         /\ UNCHANGED <<nat, socket, purpose, second, tx, verdict>>
    [] purpose = "detect" /\ ~second ->
         /\ mapped' = addr /\ source' = asking /\ second' = TRUE
         /\ Query(socket, 2, rest)
         /\ UNCHANGED <<nat, socket, purpose, verdict>>
    [] OTHER ->
         /\ asking' = 0 /\ flying' = {}
         /\ verdict' = IF addr = mapped THEN "Cone NAT" ELSE "Symmetric NAT"
         /\ UNCHANGED <<nat, socket, purpose, second, tx, mapped, source>>

\* ReadFromUDP returns the next datagram: the answer, one to an earlier query,
\* or an error.
ReadAnswer ==
  /\ asking # 0
  /\ \E m \in flying :
       LET addr == ParseStunResponse(m)  rest == flying \ {m} IN
         IF addr = 0 THEN QueryFails(rest) ELSE QuerySucceeds(addr, rest)

QueryTimeout == asking # 0 /\ QueryFails(flying)

-----------------------------------------------------------------------------

\* What DetectNATType concludes: behind a cone, "Cone NAT"; behind a symmetric NAT,
\* "Symmetric NAT", except when the first server failed, for then the second one is
\* asked twice and gives the same address.  Answers that come late, to a query
\* that timed out, never mix the addresses of the two servers up.
VerdictIsRight ==
  verdict \in {"Cone NAT", "Symmetric NAT"} =>
    (verdict = "Cone NAT" <=> (nat = "cone" \/ source = 2))
=============================================================================
