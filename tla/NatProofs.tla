----------------------------- MODULE NatProofs -----------------------------
(***************************************************************************)
(* NAT traversal (internal/nat): what the STUN client concludes and what   *)
(* the signaling server hands out (module Discovery), for any number of    *)
(* servers and clients and any attributes of the answers; and what a       *)
(* reported hole means (module HolePunch), for any number of pairs of      *)
(* peers and any session IDs.                                              *)
(***************************************************************************)
EXTENDS Discovery, HolePunch, WellFoundedInduction, TLAPS

\* A set of naturals that is not empty has a least element.
LEMMA NatMin ==
  ASSUME NEW S \in SUBSET Nat, S # {}
  PROVE  Min(S) \in S /\ \A y \in S : Min(S) <= y
<1> DEFINE R == {ss \in Nat \X Nat : ss[1] < ss[2]}
<1>1. IsWellFoundedOn(R, Nat)
  BY NatLessThanWellFounded, Zenon DEF OpToRel
<1> HIDE DEF R
<1>2. PICK x \in S : \A y \in S : <<y, x>> \notin R
  BY <1>1, WFMin, Zenon
<1>3. \A y \in S : x <= y
  <2> SUFFICES ASSUME NEW y \in S, ~(x <= y)  PROVE FALSE
    OBVIOUS
  <2>1. y \in Nat /\ x \in Nat /\ y < x
    OBVIOUS
  <2>2. <<y, x>> \in Nat \X Nat /\ <<y, x>>[1] < <<y, x>>[2]
    BY <2>1
  <2>3. <<y, x>> \in R
    BY <2>2, Zenon DEF R
  <2> QED  BY <1>2, <2>3
<1> QED  BY <1>3, Zenon DEF Min

-----------------------------------------------------------------------------
(* The signaling server. *)

\* The start of the cleanup period.
LastCleanup == now - (now % Period)

\* What survived the last cleanup, or was registered since.
Fresh(e) == e # NoEntry => e.seen \in Nat /\ LastCleanup - e.seen <= PeerEntryExpiry

\* What was read was less than a period older when it was read.
SignalInv ==
  /\ now \in Nat
  /\ lookup \in [Looker -> {"none", "read", "found", "failed"}]
  /\ readAt \in [Looker -> Nat] /\ DOMAIN found = Looker
  /\ Fresh(entry)
  /\ \A l \in Looker : found[l] # NoEntry =>
       found[l].seen \in Nat /\ readAt[l] - found[l].seen < PeerEntryExpiry + Period
  /\ \A l \in Looker : lookup[l] = "found" => found[l] # NoEntry

LEMMA ModStep ==
  ASSUME NEW n \in Nat, NEW p \in Nat \ {0}
  PROVE  /\ n % p \in 0..(p - 1)
         /\ (n + 1) % p # 0 => (n + 1) % p = (n % p) + 1
OBVIOUS

\* One step per handler of the server.
LEMMA SignalNext ==
  ASSUME SignalInv,
         \/ \E pub, local : HandleRegister(pub, local)
         \/ \E l \in Looker : HandlePeerRequest(l) \/ SendPeerResponse(l)
         \/ Tick \/ Restart
         \/ UNCHANGED signalVars
  PROVE  SignalInv'
<1> USE SignalingAssumption DEF PeerEntryExpiry
<1>0. now % Period \in 0..(Period - 1)
  BY ModStep DEF SignalInv
<1>1. ASSUME NEW pub, NEW local, HandleRegister(pub, local)  PROVE SignalInv'
  BY <1>0, <1>1 DEF HandleRegister, SignalInv, Fresh, LastCleanup
<1>2. ASSUME NEW l \in Looker, HandlePeerRequest(l)  PROVE SignalInv'
  <2>1. entry # NoEntry => entry.seen \in Nat /\ now - entry.seen < PeerEntryExpiry + Period
    BY <1>0 DEF SignalInv, Fresh, LastCleanup
  <2> QED  BY <1>2, <2>1 DEF HandlePeerRequest, SignalInv, Fresh, LastCleanup
<1>3. ASSUME NEW l \in Looker, SendPeerResponse(l)  PROVE SignalInv'
  BY <1>3 DEF SendPeerResponse, SignalInv, Fresh, LastCleanup
<1>4. ASSUME Tick  PROVE SignalInv'
  <2>1. now' % Period # 0 => LastCleanup' = LastCleanup
    <3>1. now \in Nat /\ now' = now + 1
      BY <1>4 DEF Tick, SignalInv
    <3>2. (now + 1) % Period # 0 => (now + 1) % Period = (now % Period) + 1
      BY <3>1, ModStep, Zenon
    <3> QED  BY <1>0, <3>1, <3>2 DEF LastCleanup
  <2>2. now' % Period = 0 => LastCleanup' = now'
    BY <1>4 DEF Tick, LastCleanup, SignalInv
  <2>3. Fresh(entry)'
    BY <1>4, <2>1, <2>2 DEF Tick, Cleanup, SignalInv, Fresh
  <2> QED  BY <1>4, <2>3 DEF Tick, SignalInv
<1>5. ASSUME Restart  PROVE SignalInv'
  BY <1>5 DEF Restart, SignalInv, Fresh, LastCleanup
<1>6. ASSUME UNCHANGED signalVars  PROVE SignalInv'
  BY <1>6 DEF signalVars, SignalInv, Fresh, LastCleanup
<1> QED  BY <1>1, <1>2, <1>3, <1>4, <1>5, <1>6

LEMMA SignalInvInit == Init => SignalInv
BY SignalingAssumption DEF Init, SignalInit, SignalInv, Fresh

LEMMA SignalInvNext ==
  ASSUME SignalInv, [Next]_vars
  PROVE  SignalInv'
BY SignalNext DEF Next, vars, InitializeStarts, DetectNATType, StunStep, Register,
   RegisterFails, LookupPeer, ServerStep

\* What a client is given was registered less than a cleanup period before the
\* expiry, or more recently, as lookups only rely on the ticker.
THEOREM LookupsAreRecent == Spec => []FoundIsRecent
<1>1. SignalInv => FoundIsRecent
  BY DEF SignalInv, FoundIsRecent
<1> QED  BY <1>1, SignalInvInit, SignalInvNext, PTL DEF Spec

-----------------------------------------------------------------------------
(* The STUN client. *)

\* The address that is read in an answer is the one the server put there.
LEMMA AnswerParsed ==
  ASSUME nat \in NATKind, NEW k \in 1..MaxSockets, NEW i \in 1..Servers, NEW t,
         NEW layout \in Layouts
  PROVE  AddressIn(Answer(k, i, t, layout).attrs) \in {0, Port(k, i)}
<1> DEFINE attrs == Answer(k, i, t, layout).attrs
           addresses == {j \in DOMAIN attrs : attrs[j].type # "other"}
           first == attrs[Min(addresses)]
<1>1. DOMAIN attrs = DOMAIN layout /\ DOMAIN layout \subseteq Nat
  BY StunAssumption DEF Answer
<1>2. \A j \in DOMAIN layout :
        /\ attrs[j].type = layout[j]
        /\ attrs[j].value = IF layout[j] = "xor" THEN XorPort(Port(k, i)) ELSE Port(k, i)
  BY DEF Answer
<1>3. addresses # {} => Min(addresses) \in DOMAIN layout
  BY <1>1, NatMin
<1>4. XorPort(XorPort(Port(k, i))) = Port(k, i)
  BY StunAssumption DEF Port
<1>5. addresses # {} /\ first.type = "plain" => ParseMappedAddress(first) = Port(k, i)
  BY <1>2, <1>3, Zenon DEF ParseMappedAddress
<1>6. addresses # {} => ParseXorMappedAddress(first) \in {0, Port(k, i)}
  BY <1>2, <1>3, <1>4, Zenon DEF ParseXorMappedAddress
<1> QED  BY <1>5, <1>6 DEF AddressIn

\* A symmetric NAT maps a socket to different ports, a cone to one.
LEMMA PortsDiffer ==
  ASSUME nat \in NATKind, NEW k \in Nat, NEW i \in Nat, NEW j \in Nat
  PROVE  Port(k, i) = Port(k, j) <=> nat = "cone" \/ i = j
<1>1. Servers + 1 \in Nat /\ (Servers + 1) * k \in Nat
  BY StunAssumption
<1> QED  BY <1>1 DEF Port, MappedTo, NATKind

\* An answer on its way comes from a server that was asked on this socket, and
\* one to the query in progress from the server being asked.
AnswersKnown ==
  \A m \in flying :
    /\ m.tx \in Nat /\ m.tx <= tx
    /\ \E i \in 1..Servers, layout \in Layouts :
         /\ m.attrs = Answer(socket, i, m.tx, layout).attrs
         /\ m.tx = tx => i = asking

\* Discover has not returned while it asks, and DetectNATType has the address of
\* its first query at the second.
QueriesInOrder ==
  /\ asking # 0 => socket # 0 /\ purpose \in {"initialize", "detect"} /\ verdict = "none"
  /\ asking # 0 /\ purpose = "initialize" => mapped = 0 /\ ~second
  /\ second => /\ source \in 1..Servers /\ mapped = Port(socket, source)
               /\ asking # 0 => asking = 2

StunTypes ==
  /\ nat \in NATKind /\ socket \in 0..MaxSockets /\ asking \in 0..Servers
  /\ tx \in Nat

StunInv == StunTypes /\ AnswersKnown /\ QueriesInOrder /\ VerdictIsRight

LEMMA StunInvInit == StunInit => StunInv
<1> SUFFICES ASSUME StunInit  PROVE StunInv
  OBVIOUS
<1>1. VerdictIsRight
  BY Zenon DEF StunInit, VerdictIsRight
<1>2. StunTypes
  BY StunAssumption DEF StunInit, StunTypes
<1>3. AnswersKnown /\ QueriesInOrder
  BY Zenon DEF StunInit, AnswersKnown, QueriesInOrder
<1> QED  BY <1>1, <1>2, <1>3 DEF StunInv

\* What the answer to the query in progress says.
LEMMA ReadIsGenuine ==
  ASSUME StunInv, asking # 0, NEW m \in flying, ParseStunResponse(m) # 0
  PROVE  ParseStunResponse(m) = Port(socket, asking)
<1>1. m.tx = tx /\ ParseStunResponse(m) = AddressIn(m.attrs)
  BY DEF ParseStunResponse
<1>2. PICK layout \in Layouts : m.attrs = Answer(socket, asking, m.tx, layout).attrs
  BY <1>1 DEF StunInv, AnswersKnown
<1>3. nat \in NATKind /\ socket \in 1..MaxSockets /\ asking \in 1..Servers
  BY StunAssumption DEF StunInv, StunTypes, QueriesInOrder
<1> QED  BY <1>1, <1>2, <1>3, AnswerParsed

\* A query leaves the answers to earlier ones behind, on the same socket or on none.
LEMMA QueryKeepsAnswers ==
  ASSUME StunInv, NEW i \in 1..Servers, NEW older \in SUBSET flying, nat' = nat,
         Query(socket', i, older), socket' = socket \/ older = {}
  PROVE  AnswersKnown' /\ tx' \in Nat /\ asking' = i
<1>1. tx \in Nat /\ tx' = tx + 1 /\ asking' = i
  BY DEF Query, StunInv, StunTypes
<1>2. ASSUME NEW m \in older
      PROVE  /\ m.tx \in Nat /\ m.tx <= tx' /\ m.tx # tx'
             /\ \E j \in 1..Servers, layout \in Layouts :
                  m.attrs = Answer(socket, j, m.tx, layout)'.attrs
  <2>1. m.tx \in Nat /\ m.tx <= tx
    BY DEF StunInv, AnswersKnown
  <2>2. PICK j \in 1..Servers, layout \in Layouts :
          m.attrs = Answer(socket, j, m.tx, layout).attrs
    BY DEF StunInv, AnswersKnown
  <2>3. Answer(socket, j, m.tx, layout)' = Answer(socket, j, m.tx, layout)
    BY <1>2 DEF Answer, Port
  <2> QED  BY <1>1, <2>1, <2>2, <2>3
<1>3. flying' = older \/ \E layout \in Layouts :
        flying' = older \cup {Answer(socket', i, tx', layout)}
  BY DEF Query
<1>4. ASSUME NEW m \in flying', m \notin older
      PROVE  /\ m.tx \in Nat /\ m.tx <= tx'
             /\ \E layout \in Layouts : m.attrs = Answer(socket, i, m.tx, layout)'.attrs
  <2>1. PICK layout \in Layouts : m = Answer(socket', i, tx', layout)
    BY <1>3, <1>4
  <2>2. m.tx = tx'
    BY <2>1 DEF Answer
  <2>3. m.attrs = Answer(socket, i, m.tx, layout)'.attrs
    BY <2>1 DEF Answer, Port
  <2> QED  BY <1>1, <2>2, <2>3
<1>5. AnswersKnown'
  BY <1>1, <1>2, <1>4 DEF AnswersKnown
<1> QED  BY <1>1, <1>5

LEMMA StunUnchanged ==
  ASSUME StunInv, UNCHANGED stunVars
  PROVE  StunInv'
<1>1. UNCHANGED <<nat, socket, purpose, asking, second, tx, flying, mapped, source, verdict>>
  BY DEF stunVars
<1>2. AnswersKnown'
  BY <1>1 DEF StunInv, AnswersKnown, Answer, Port
<1>3. VerdictIsRight'
  BY <1>1, Zenon DEF StunInv, VerdictIsRight
<1> QED  BY <1>1, <1>2, <1>3 DEF StunInv, StunTypes, QueriesInOrder, Port

LEMMA DiscoverKeeps ==
  ASSUME StunInv, NEW why \in {"initialize", "detect"}, Discover(why)
  PROVE  StunInv'
<1>1. 1 \in 1..Servers /\ socket' \in 0..MaxSockets /\ socket' # 0
  BY StunAssumption DEF Discover, StunInv, StunTypes
<1>2. AnswersKnown' /\ tx' \in Nat /\ asking' = 1
  BY <1>1, QueryKeepsAnswers DEF Discover
<1>3. VerdictIsRight'
  BY Zenon DEF Discover, VerdictIsRight
<1>4. StunTypes'
  BY <1>1, <1>2, StunAssumption DEF Discover, StunInv, StunTypes
<1>5. QueriesInOrder'
  BY <1>1, Zenon DEF Discover, QueriesInOrder
<1> QED  BY <1>2, <1>3, <1>4, <1>5 DEF StunInv

LEMMA QueryFailsKeeps ==
  ASSUME StunInv, asking # 0, NEW rest \in SUBSET flying, QueryFails(rest)
  PROVE  StunInv'
<1>1. UNCHANGED <<nat, socket, purpose, second, mapped, source>>
  BY DEF QueryFails
<1>2. ASSUME ~second, asking < Servers  PROVE StunInv'
  <2>1. asking + 1 \in 1..Servers /\ Query(socket, asking + 1, rest) /\ verdict' = verdict
    BY <1>2, StunAssumption DEF QueryFails, StunInv, StunTypes
  <2>2. AnswersKnown' /\ tx' \in Nat /\ asking' = asking + 1
    BY <1>1, <2>1, QueryKeepsAnswers
  <2>3. VerdictIsRight'
    BY <1>1, <2>1, Zenon DEF StunInv, VerdictIsRight
  <2>4. StunTypes'
    BY <1>1, <2>1, <2>2 DEF StunInv, StunTypes
  <2>5. QueriesInOrder'
    BY <1>1, <1>2, <2>1, Zenon DEF StunInv, QueriesInOrder, Port
  <2> QED  BY <2>2, <2>3, <2>4, <2>5 DEF StunInv
<1>3. ASSUME ~(~second /\ asking < Servers)  PROVE StunInv'
  <2>1. asking' = 0 /\ flying' = {} /\ tx' = tx /\ verdict' \in {"Unknown", verdict}
    BY <1>3 DEF QueryFails
  <2>2. verdict = "none"
    BY DEF StunInv, QueriesInOrder
  <2>3. VerdictIsRight'
    BY <2>1, <2>2, Zenon DEF VerdictIsRight
  <2>4. StunTypes' /\ AnswersKnown'
    BY <1>1, <2>1, StunAssumption DEF StunInv, StunTypes, AnswersKnown
  <2>5. QueriesInOrder'
    BY <1>1, <2>1, Zenon DEF StunInv, QueriesInOrder, Port
  <2> QED  BY <2>3, <2>4, <2>5 DEF StunInv
<1> QED  BY <1>2, <1>3

LEMMA QuerySucceedsKeeps ==
  ASSUME StunInv, asking # 0, NEW rest \in SUBSET flying,
         QuerySucceeds(Port(socket, asking), rest)
  PROVE  StunInv'
<1>0. /\ nat \in NATKind /\ socket \in Nat /\ asking \in 1..Servers /\ asking \in Nat
      /\ verdict = "none" /\ purpose \in {"initialize", "detect"}
  BY StunAssumption DEF StunInv, StunTypes, QueriesInOrder
<1>1. ASSUME purpose = "initialize"  PROVE StunInv'
  <2>1. /\ asking' = 0 /\ flying' = {}
        /\ UNCHANGED <<nat, socket, purpose, second, tx, verdict>>
    BY <1>1 DEF QuerySucceeds
  <2>2. ~second
    BY <1>1 DEF StunInv, QueriesInOrder
  <2>3. VerdictIsRight'
    BY <1>0, <2>1, Zenon DEF VerdictIsRight
  <2>4. StunTypes' /\ AnswersKnown'
    BY <2>1, StunAssumption DEF StunInv, StunTypes, AnswersKnown
  <2>5. QueriesInOrder'
    BY <2>1, <2>2, Zenon DEF QueriesInOrder
  <2> QED  BY <2>3, <2>4, <2>5 DEF StunInv
<1>2. ASSUME purpose = "detect", ~second  PROVE StunInv'
  <2>1. /\ mapped' = Port(socket, asking) /\ source' = asking /\ second' = TRUE
        /\ Query(socket, 2, rest) /\ UNCHANGED <<nat, socket, purpose, verdict>>
    BY <1>2 DEF QuerySucceeds
  <2>2. 2 \in 1..Servers
    BY StunAssumption
  <2>3. AnswersKnown' /\ tx' \in Nat /\ asking' = 2
    BY <2>1, <2>2, QueryKeepsAnswers
  <2>4. mapped' = Port(socket, source)'
    BY <2>1 DEF Port
  <2>5. VerdictIsRight'
    BY <1>0, <2>1, Zenon DEF VerdictIsRight
  <2>6. StunTypes'
    BY <2>1, <2>2, <2>3 DEF StunInv, StunTypes
  <2>7. QueriesInOrder'
    BY <1>0, <1>2, <2>1, <2>3, <2>4, Zenon DEF StunInv, QueriesInOrder
  <2> QED  BY <2>3, <2>5, <2>6, <2>7 DEF StunInv
<1>3. ASSUME purpose = "detect", second  PROVE StunInv'
  <2>0. verdict' = IF Port(socket, asking) = mapped THEN "Cone NAT" ELSE "Symmetric NAT"
    BY <1>3, Zenon DEF QuerySucceeds
  <2>1. /\ asking' = 0 /\ flying' = {}
        /\ UNCHANGED <<nat, socket, purpose, second, tx, mapped, source>>
    BY <1>3, Zenon DEF QuerySucceeds
  <2>2. asking = 2 /\ source \in 1..Servers /\ source \in Nat /\ mapped = Port(socket, source)
    BY <1>3, StunAssumption DEF StunInv, QueriesInOrder
  <2>3. Port(socket, 2) = Port(socket, source) <=> nat = "cone" \/ source = 2
    BY <1>0, <2>2, PortsDiffer
  <2>4. VerdictIsRight'
    BY <2>0, <2>1, <2>2, <2>3, Zenon DEF VerdictIsRight
  <2>5. mapped' = Port(socket, source)'
    BY <2>1, <2>2 DEF Port
  <2>6. StunTypes' /\ AnswersKnown'
    BY <2>1, StunAssumption DEF StunInv, StunTypes, AnswersKnown
  <2>7. QueriesInOrder'
    BY <2>1, <2>2, <2>5, Zenon DEF QueriesInOrder
  <2> QED  BY <2>4, <2>6, <2>7 DEF StunInv
<1> QED  BY <1>0, <1>1, <1>2, <1>3 DEF StunInv, StunTypes

LEMMA StunStepKeeps ==
  ASSUME StunInv, ReadAnswer \/ QueryTimeout
  PROVE  /\ StunInv'
         /\ nat' = nat /\ socket' = socket /\ purpose' = purpose
         /\ mapped' \in {mapped, Port(socket, asking)} /\ asking \in 1..Servers
<1>0. asking \in 1..Servers /\ asking # 0
  BY StunAssumption DEF ReadAnswer, QueryTimeout, StunInv, StunTypes
<1>1. (\E rest \in SUBSET flying : QueryFails(rest))
      \/ (\E rest \in SUBSET flying : QuerySucceeds(Port(socket, asking), rest))
  <2>1. ASSUME QueryTimeout  PROVE \E rest \in SUBSET flying : QueryFails(rest)
    BY <2>1 DEF QueryTimeout
  <2>2. ASSUME NEW m \in flying,
               IF ParseStunResponse(m) = 0 THEN QueryFails(flying \ {m})
               ELSE QuerySucceeds(ParseStunResponse(m), flying \ {m})
        PROVE  \/ QueryFails(flying \ {m})
               \/ QuerySucceeds(Port(socket, asking), flying \ {m})
    <3>1. CASE ParseStunResponse(m) = 0
      BY <2>2, <3>1, Zenon
    <3>2. CASE ParseStunResponse(m) # 0
      <4>1. ParseStunResponse(m) = Port(socket, asking)
        BY <1>0, <3>2, ReadIsGenuine
      <4> QED  BY <2>2, <3>2, <4>1, Zenon
    <3> QED  BY <3>1, <3>2
  <2>3. \A m \in flying : flying \ {m} \in SUBSET flying
    OBVIOUS
  <2>4. ASSUME ReadAnswer
        PROVE  \E m \in flying : \/ QueryFails(flying \ {m})
                                 \/ QuerySucceeds(Port(socket, asking), flying \ {m})
    BY <2>2, <2>4, Zenon DEF ReadAnswer
  <2> QED  BY <2>1, <2>3, <2>4, Zenon
<1>2. ASSUME NEW rest \in SUBSET flying, QueryFails(rest)
      PROVE  StunInv' /\ UNCHANGED <<nat, socket, purpose, mapped>>
  BY <1>0, <1>2, QueryFailsKeeps, Zenon DEF QueryFails
<1>3. ASSUME NEW rest \in SUBSET flying, QuerySucceeds(Port(socket, asking), rest)
      PROVE  /\ StunInv' /\ UNCHANGED <<nat, socket, purpose>>
             /\ mapped' \in {mapped, Port(socket, asking)}
  <2>1. StunInv'
    BY <1>0, <1>3, QuerySucceedsKeeps
  <2> QED  BY <1>3, <2>1, Zenon DEF QuerySucceeds
<1> QED  BY <1>0, <1>1, <1>2, <1>3, Zenon

-----------------------------------------------------------------------------
(* Both together: what is registered, stored and found. *)

\* The two addresses belong to the same socket.
Genuine(r) == \E i \in 1..Servers : r.pub = Port(r.local, i)

DiscoveryInv ==
  /\ StunInv
  /\ puncher = "discovering" => asking # 0 /\ purpose = "initialize"
  /\ \A r \in posted : Genuine(r)
  /\ entry # NoEntry => Genuine(entry)
  /\ DOMAIN found = Looker
  /\ \A l \in Looker : found[l] # NoEntry => Genuine(found[l])

LEMMA DiscoveryInit == Init => DiscoveryInv
BY StunInvInit, Zenon DEF Init, SignalInit, DiscoveryInv

LEMMA DiscoveryNext ==
  ASSUME DiscoveryInv, [Next]_vars
  PROVE  DiscoveryInv'
<1> USE DEF DiscoveryInv
<1>1. ASSUME NEW why \in {"initialize", "detect"}, Discover(why), UNCHANGED <<signalVars, posted>>,
             puncher' = IF why = "initialize" THEN "discovering" ELSE "detecting"
      PROVE  DiscoveryInv'
  <2>1. StunInv'
    BY <1>1, DiscoverKeeps
  <2>2. nat' = nat /\ asking' = 1 /\ purpose' = why
    BY <1>1 DEF Discover, Query
  <2> QED  BY <1>1, <2>1, <2>2 DEF signalVars, Genuine, Port
<1>2. CASE StunStep
  <2>1. /\ StunInv' /\ nat' = nat /\ socket' = socket /\ purpose' = purpose
        /\ mapped' \in {mapped, Port(socket, asking)} /\ asking \in 1..Servers
    BY <1>2, StunStepKeeps DEF StunStep
  <2>2. puncher' = "discovering" => asking' # 0 /\ purpose' = "initialize"
    BY <1>2, <2>1 DEF StunStep
  <2>3. \A r \in posted' : Genuine(r)'
    <3>1. ASSUME NEW r \in posted', r \notin posted
          PROVE  r = [pub |-> Port(socket, asking), local |-> socket]
      <4>1. puncher = "discovering" /\ mapped' # 0 /\ r = [pub |-> mapped', local |-> socket]
        BY <1>2, <3>1 DEF StunStep
      <4>2. mapped = 0
        BY <4>1 DEF StunInv, QueriesInOrder
      <4> QED  BY <2>1, <4>1, <4>2
    <3>2. \A r : r = [pub |-> Port(socket, asking), local |-> socket] => Genuine(r)
      BY <2>1 DEF Genuine
    <3> QED  BY <2>1, <3>1, <3>2 DEF Genuine, Port
  <2> QED  BY <1>2, <2>1, <2>2, <2>3 DEF StunStep, signalVars, Genuine, Port
<1>3. ASSUME NEW r \in posted, HandleRegister(r.pub, r.local), UNCHANGED stunVars,
             posted' = posted \ {r}, puncher' \in {puncher, "ready"}
      PROVE  DiscoveryInv'
  <2>1. StunInv' /\ UNCHANGED <<nat, asking, purpose>>
    BY <1>3, StunUnchanged DEF stunVars
  <2>2. entry'.pub = r.pub /\ entry'.local = r.local /\ found' = found
    BY <1>3 DEF HandleRegister
  <2> QED  BY <1>3, <2>1, <2>2 DEF Genuine, Port
<1>4. CASE RegisterFails
  <2>1. StunInv' /\ UNCHANGED <<nat, asking, purpose>>
    BY <1>4, StunUnchanged DEF RegisterFails, stunVars
  <2> QED  BY <1>4, <2>1 DEF RegisterFails, signalVars, Genuine, Port
<1>5. CASE LookupPeer
  <2>1. StunInv' /\ UNCHANGED <<nat, asking, purpose>>
    BY <1>5, StunUnchanged DEF LookupPeer, stunVars
  <2>2. entry' = entry /\ DOMAIN found' = Looker
        /\ \A l \in Looker : found'[l] \in {found[l], entry, NoEntry}
    BY <1>5 DEF LookupPeer, HandlePeerRequest, SendPeerResponse
  <2> QED  BY <1>5, <2>1, <2>2 DEF LookupPeer, Genuine, Port
<1>6. CASE ServerStep
  <2>1. StunInv' /\ UNCHANGED <<nat, asking, purpose>>
    BY <1>6, StunUnchanged DEF ServerStep, stunVars
  <2>2. entry' \in {entry, NoEntry} /\ found' = found
    BY <1>6 DEF ServerStep, Tick, Cleanup, Restart
  <2> QED  BY <1>6, <2>1, <2>2 DEF ServerStep, Genuine, Port
<1>7. CASE UNCHANGED vars
  <2>1. StunInv' /\ UNCHANGED <<nat, asking, purpose>>
    BY <1>7, StunUnchanged DEF vars, stunVars
  <2> QED  BY <1>7, <2>1 DEF vars, signalVars, Genuine, Port
<1>8. CASE InitializeStarts
  BY <1>1, <1>8, Zenon DEF InitializeStarts
<1>9. CASE DetectNATType
  BY <1>1, <1>9 DEF DetectNATType
<1>10. CASE Register
  BY <1>3, <1>10 DEF Register
<1> QED  BY <1>2, <1>4, <1>5, <1>6, <1>7, <1>8, <1>9, <1>10 DEF Next

\* DetectNATType tells the kind of NAT right whenever its first server answered.
THEOREM VerdictsAreRight == Spec => []VerdictIsRight
<1>1. DiscoveryInv => VerdictIsRight
  BY DEF DiscoveryInv, StunInv
<1> QED  BY <1>1, DiscoveryInit, DiscoveryNext, PTL DEF Spec

\* Whatever answers and registrations are lost, late or repeated, a lookup returns
\* two addresses of one socket, as the NAT maps it.
THEOREM LookupsAreGenuine == Spec => []FoundIsGenuine
<1>1. DiscoveryInv /\ SignalInv => FoundIsGenuine
  BY DEF DiscoveryInv, SignalInv, FoundIsGenuine, Genuine
<1> QED  BY <1>1, SignalInvInit, SignalInvNext, DiscoveryInit, DiscoveryNext, PTL DEF Spec

-----------------------------------------------------------------------------
(* Hole punching. *)

\* The variables the argument is about.
PunchTypes ==
  /\ pc \in [Peer -> {"init", "lookup", "punch", "relay"} \cup Results]
  /\ sid \in [Peer -> SID \cup {NoSID}]
  /\ success \in [Peer -> SUBSET SID]
  /\ heard \in [Peer -> SUBSET SID]

\* An answer is only sent by a listener that has heard its session.
AnswersWereHeard ==
  \A m \in net : m.type # "SYN" => m.sid \in heard[m.from]

\* What a listener reports holds in both directions, now and later.
ReportsHold ==
  \A p \in Peer : \A s \in success[p] :
    /\ s \in heard[p] /\ s \in heard[Other[p]]
    /\ \E m \in net : m.from = Other[p] /\ m.sid = s

\* Success is what the attempt's own listener reported.
PunchedWasReported ==
  \A p \in Peer : pc[p] = "punched" => sid[p] \in success[p]

PunchInv == PunchTypes /\ AnswersWereHeard /\ ReportsHold /\ PunchedWasReported

-----------------------------------------------------------------------------

LEMMA PunchInvInit == PunchInit => PunchInv
BY PunchAssumption
DEF PunchInit, PunchInv, PunchTypes, AnswersWereHeard, ReportsHold, PunchedWasReported, Results

LEMMA PunchTypesKept ==
  ASSUME PunchTypes, [PunchNext]_punchVars
  PROVE  PunchTypes'
<1> USE DEF PunchTypes, Results
<1>1. ASSUME NEW p \in Peer, Run(p)  PROVE PunchTypes'
  BY <1>1 DEF Run, Initialize, Lookup, LookupFails, PunchTick, PunchSucceeds,
              PunchCancelled, ConnectViaRelay, Goto, Unpunched
<1>2. ASSUME NEW p \in Peer, TryAgain(p)  PROVE PunchTypes'
  BY <1>2 DEF TryAgain, Goto
<1>3. ASSUME NEW p \in Peer, NEW s \in SID, Listen(p, s)  PROVE PunchTypes'
  BY <1>3 DEF Listen, Hear, Report
<1>4. ASSUME NEW p \in Peer, NEW s \in SID, ListenerStops(p, s)  PROVE PunchTypes'
  BY <1>4 DEF ListenerStops
<1> QED  BY <1>1, <1>2, <1>3, <1>4 DEF PunchNext, punchVars

\* Packets stay in the network and what was heard was heard.
LEMMA HistoryGrows ==
  ASSUME PunchTypes, [PunchNext]_punchVars
  PROVE  net \subseteq net' /\ \A p \in Peer : heard[p] \subseteq heard'[p]
<1>1. ASSUME NEW p \in Peer, NEW s \in SID, Listen(p, s)
      PROVE  net \subseteq net' /\ \A q \in Peer : heard[q] \subseteq heard'[q]
  BY <1>1 DEF PunchTypes, Listen, Send, Hear
<1>2. ASSUME NEW p \in Peer, PunchTick(p)
      PROVE  net \subseteq net' /\ heard' = heard
  BY <1>2 DEF PunchTick, Send
<1>3. (\E p \in Peer, s \in SID : Listen(p, s)) \/ (\E p \in Peer : PunchTick(p))
      \/ UNCHANGED <<net, heard>>
  BY Zenon
  DEF PunchNext, punchVars, Run, Initialize, Lookup, LookupFails, PunchSucceeds,
      PunchCancelled, ConnectViaRelay, TryAgain, ListenerStops
<1> QED  BY <1>1, <1>2, <1>3

LEMMA AnswersKept ==
  ASSUME PunchInv, [PunchNext]_punchVars
  PROVE  AnswersWereHeard'
<1> USE DEF PunchInv
<1>1. net \subseteq net' /\ \A p \in Peer : heard[p] \subseteq heard'[p]
  BY HistoryGrows
<1>2. ASSUME NEW p \in Peer, NEW s \in SID, Listen(p, s)  PROVE AnswersWereHeard'
  <2>1. s \in heard'[p]
    BY <1>2 DEF Listen, Hear, PunchTypes
  <2>2. \A m \in net' : m \in net \/ (m.sid = s /\ m.from = p)
    BY <1>2 DEF Listen, Send, Packet
  <2>3. \A m \in net : m.type # "SYN" => m.sid \in heard'[m.from]
    BY <1>2 DEF AnswersWereHeard, Listen, Hear, PunchTypes
  <2> QED  BY <2>1, <2>2, <2>3 DEF AnswersWereHeard
<1>3. ASSUME NEW p \in Peer, PunchTick(p)  PROVE AnswersWereHeard'
  <2>1. \A m \in net' : m \in net \/ m.type = "SYN"
    BY <1>3 DEF PunchTick, Send, Packet
  <2>2. heard' = heard
    BY <1>3 DEF PunchTick
  <2> QED  BY <2>1, <2>2 DEF AnswersWereHeard
<1> QED
  BY <1>2, <1>3, Zenon
  DEF AnswersWereHeard, PunchNext, punchVars, Run, Initialize, Lookup, LookupFails, PunchSucceeds,
      PunchCancelled, ConnectViaRelay, TryAgain, ListenerStops

LEMMA ReportsKept ==
  ASSUME PunchInv, [PunchNext]_punchVars
  PROVE  ReportsHold'
<1> USE DEF PunchInv
<1>1. net \subseteq net' /\ \A p \in Peer : heard[p] \subseteq heard'[p]
  BY HistoryGrows
<1>2. \A p \in Peer : Other[p] \in Peer
  BY PunchAssumption
<1>3. \A p \in Peer : \A s \in success[p] :
        /\ s \in heard'[p] /\ s \in heard'[Other[p]]
        /\ \E m \in net' : m.from = Other[p] /\ m.sid = s
  BY <1>1, <1>2 DEF ReportsHold
\* The packet that makes a listener report is an answer of the other peer.
<1>4. ASSUME NEW p \in Peer, NEW s \in SID, Listen(p, s)  PROVE ReportsHold'
  <2>1. PICK m \in net :
          /\ m.from = Other[p] /\ m.sid = s
          /\ \/ m.type = "SYN" /\ Send("SYNACK", s, p) /\ UNCHANGED <<listeners, success>>
             \/ m.type = "SYNACK" /\ Send("ACK", s, p) /\ Report(p, s)
             \/ m.type = "ACK" /\ Report(p, s) /\ UNCHANGED <<net, hole>>
    BY <1>4 DEF Listen
  <2>2. CASE m.type = "SYN"
    BY <1>3, <2>1, <2>2 DEF ReportsHold
  <2>3. CASE m.type # "SYN"
    <3>1. s \in heard'[p]
      BY <1>4 DEF Listen, Hear, PunchTypes
    <3>2. s \in heard'[Other[p]] /\ m \in net'
      BY <1>1, <1>2, <2>1, <2>3 DEF AnswersWereHeard
    <3>3. \A q \in Peer : \A t \in success'[q] : t \in success[q] \/ (q = p /\ t = s)
      BY <2>1, <2>3 DEF Report, PunchTypes
    <3> QED  BY <1>3, <2>1, <3>1, <3>2, <3>3 DEF ReportsHold
  <2> QED  BY <2>2, <2>3
<1>5. ASSUME NEW p \in Peer, Lookup(p)  PROVE ReportsHold'
  <2>1. \A q \in Peer : success'[q] \subseteq success[q]
    BY <1>5 DEF Lookup, PunchTypes
  <2> QED  BY <1>3, <2>1 DEF ReportsHold
<1> QED
  <2>1. CASE UNCHANGED success
    BY <1>3, <2>1 DEF ReportsHold
  <2> QED
    BY <1>4, <1>5, <2>1, Zenon
    DEF PunchNext, punchVars, Run, Initialize, LookupFails, PunchTick, PunchSucceeds,
        PunchCancelled, ConnectViaRelay, TryAgain, ListenerStops

LEMMA PunchedKept ==
  ASSUME PunchInv, [PunchNext]_punchVars
  PROVE  PunchedWasReported'
<1> USE DEF PunchInv, PunchTypes, PunchedWasReported
<1>1. ASSUME NEW p \in Peer, NEW s \in SID, Listen(p, s)  PROVE PunchedWasReported'
  BY <1>1 DEF Listen, Report
<1>2. ASSUME NEW p \in Peer, NEW s \in SID, ListenerStops(p, s)  PROVE PunchedWasReported'
  BY <1>2 DEF ListenerStops
<1>3. ASSUME NEW p \in Peer, Lookup(p)  PROVE PunchedWasReported'
  BY <1>3 DEF Lookup, Goto
<1>4. ASSUME NEW p \in Peer, PunchSucceeds(p)  PROVE PunchedWasReported'
  BY <1>4 DEF PunchSucceeds, Goto
<1>5. ASSUME NEW p \in Peer,
             Initialize(p) \/ LookupFails(p) \/ PunchTick(p) \/ PunchCancelled(p)
             \/ ConnectViaRelay(p) \/ TryAgain(p)
      PROVE  PunchedWasReported'
  BY <1>5 DEF Initialize, LookupFails, PunchTick, PunchCancelled, ConnectViaRelay,
              TryAgain, Goto, Unpunched
<1> QED  BY <1>1, <1>2, <1>3, <1>4, <1>5 DEF PunchNext, Run, punchVars

LEMMA PunchInvariant == PunchSpec => []PunchInv
<1>1. ASSUME PunchInv, [PunchNext]_punchVars  PROVE PunchInv'
  BY <1>1, PunchTypesKept, AnswersKept, ReportsKept, PunchedKept DEF PunchInv
<1> QED  BY PunchInvInit, <1>1, PTL DEF PunchSpec

-----------------------------------------------------------------------------

\* A punched hole works in both directions: listenForPunch reports a session
\* only for an answer, and an answer is only sent to a packet that got through.
THEOREM HolesWorkBothWays == PunchSpec => []PunchedBothWays
<1>1. PunchInv => PunchedBothWays
  BY DEF PunchInv, ReportsHold, PunchedWasReported, PunchedBothWays
<1> QED  BY PunchInvariant, <1>1, PTL

\* FallbackStrategy.Connect falls back to the relay whenever an attempt that
\* began to send packets ends without a hole.
THEOREM AttemptsFallBack == PunchSpec => StrategyFallsBack
<1> DEFINE Falls == \A p \in Peer :
       pc[p] = "punch" /\ pc'[p] # "punch" /\ call[p] = "strategy" =>
         pc'[p] \in {"punched", "relay"}
<1>1. ASSUME PunchInv, [PunchNext]_punchVars  PROVE [Falls]_punchVars
  <2> USE <1>1 DEF PunchInv, PunchTypes
  <2>1. ASSUME NEW p \in Peer, Run(p)  PROVE Falls
    BY <2>1 DEF Run, Initialize, Lookup, LookupFails, PunchTick, PunchSucceeds,
                PunchCancelled, ConnectViaRelay, Goto, Unpunched
  <2>2. ASSUME NEW p \in Peer, TryAgain(p)  PROVE Falls
    BY <2>2 DEF TryAgain, Goto
  <2>3. ASSUME NEW p \in Peer, NEW s \in SID, Listen(p, s) \/ ListenerStops(p, s)  PROVE Falls
    BY <2>3 DEF Listen, ListenerStops
  <2> QED  BY <2>1, <2>2, <2>3 DEF PunchNext
<1> QED  BY PunchInvariant, <1>1, PTL DEF PunchSpec, StrategyFallsBack
=============================================================================
