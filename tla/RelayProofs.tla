----------------------------- MODULE RelayProofs -----------------------------
(***************************************************************************)
(* The relay: who is paired with whom, what they receive and why they are  *)
(* cut off, for any number of clients and sessions.                        *)
(***************************************************************************)
EXTENDS Relay, TLAPS

\* The variables the argument is about.  Messages have no type: what matters
\* of them is in the invariants below.
RelayTypes ==
  /\ client \in [Conn -> {"none", "asking", "joined", "failed", "left"}]
  /\ handler \in [Conn -> {"none", "hello", "waiting", "acking", "relaying",
                           "expired", "done"}]
  /\ waiting \in [SessionID -> Conn \cup {NoConn}]
  /\ sessions \in [SessionID -> Conn \cup {NoConn}]
  /\ partner \in [Conn -> Conn \cup {NoConn}]

Boxes ==
  /\ out \in [Conn -> Seq(Conn)]
  /\ inbox \in [Conn -> Seq(Conn \cup {"ack", "error"})]

Flags == sock \in [Conn -> BOOLEAN] /\ copying \in [Conn -> BOOLEAN]

\* Who has not been heard of has no partner, and is paired only once its
\* handler has read the request.
NewcomersAreFree ==
  \A c \in Conn :
    /\ client[c] = "none" => handler[c] = "none"
    /\ handler[c] \in {"none", "hello"} => ~Paired(c)

\* Whoever is offered to a newcomer has a handler that waits, or that returned
\* because the server is closing.
WaitersWait ==
  \A i \in SessionID : waiting[i] # NoConn =>
    \/ handler[waiting[i]] = "waiting"
    \/ handler[waiting[i]] = "done" /\ server # "up"

\* The handler that pairs two connections is that of the second one; the
\* first one's does nothing but wait.
OneHandlerRelays ==
  \A c \in Conn : handler[c] \in {"acking", "relaying"} =>
    Paired(c) /\ handler[partner[c]] \in {"waiting", "done", "expired"}

PairInv ==
  RelayTypes /\ PairsAreExclusive /\ NewcomersAreFree /\ WaitersWait /\ OneHandlerRelays

\* Data is copied only after the acknowledgements.
CopiesAreAcked == \A c \in Conn : copying[c] => Acked(c)

\* A connection sends its own data, and gets nothing before it is paired.
OwnData ==
  \A c \in Conn :
    /\ \A k \in 1..Len(out[c]) : out[c][k] = c
    /\ ~Paired(c) => inbox[c] = <<>>

\* What a client receives, message by message.
FromPartner ==
  \A c \in Conn : \A k \in 1..Len(inbox[c]) :
    inbox[c][k] \in Conn => inbox[c][k] = partner[c]

\* A client that has not read its acknowledgement finds it at the head; it is
\* there as soon as data may come, unless the connection is closed.
AckAtHead ==
  \A c \in Conn : client[c] = "asking" =>
    /\ inbox[c] # <<>> => inbox[c][1] = "ack"
    /\ Acked(c) /\ sock[c] => inbox[c] # <<>>

DataInv == Boxes /\ Flags /\ CopiesAreAcked /\ OwnData /\ FromPartner /\ AckAtHead

\* While the server is up a connection is open until it is paired or its timer
\* is over; and a session only ends with one of its clients or a timer.
OpenTillCause ==
  server = "up" => \A c \in Conn :
    /\ handler[c] \in {"hello", "waiting"} /\ ~Paired(c) => sock[c]
    /\ Paired(c) /\ ~Gone(c) /\ ~Gone(partner[c])
         /\ "expired" \notin {handler[c], handler[partner[c]]} =>
            sock[c] /\ (Acked(c) => copying[c])

-----------------------------------------------------------------------------
(* Pairs *)

LEMMA PairInit == Init => PairInv
BY RelayAssumption
DEF Init, PairInv, RelayTypes, PairsAreExclusive, NewcomersAreFree, WaitersWait,
    OneHandlerRelays, Paired

LEMMA RelayTypesKept ==
  ASSUME RelayTypes, [Next]_vars
  PROVE  RelayTypes'
<1> USE DEF RelayTypes
<1>1. ASSUME NEW c \in Conn, Join(c)  PROVE RelayTypes'
  BY <1>1, RelayAssumption DEF Join
<1>2. ASSUME NEW c \in Conn,
             ReadAck(c) \/ AskFails(c) \/ HelloFails(c) \/ AckBoth(c) \/ WaitTimeout(c)
             \/ WaitDone(c) \/ Copy(c) \/ CopyEnds(c) \/ RelayEnds(c)
      PROVE  RelayTypes'
  BY <1>2, RelayAssumption
  DEF ReadAck, AskFails, HelloFails, AckBoth, WaitTimeout, WaitDone, Copy, CopyEnds,
      RelayEnds, tables
<1>3. ASSUME NEW c \in Conn, Dial(c) \/ Send(c) \/ Leave(c)  PROVE RelayTypes'
  BY <1>3 DEF Dial, AcceptConn, Send, Leave, tables
<1>4. CASE CloseDone \/ CloseSweep
  BY <1>4 DEF CloseDone, CloseSweep, tables
<1> QED
  BY <1>1, <1>2, <1>3, <1>4 DEF Next, Progress, vars, tables

\* A join pairs two connections that had no partner, or none.
LEMMA JoinKeepsPairs ==
  ASSUME PairInv, NEW c \in Conn, Join(c)
  PROVE  PairsAreExclusive' /\ NewcomersAreFree' /\ WaitersWait' /\ OneHandlerRelays'
<1> DEFINE i == IdOf[c]
           w == waiting[i]
<1> USE DEF PairInv, RelayTypes
<1>1. /\ i \in SessionID /\ handler[c] = "hello" /\ ~Paired(c) /\ client' = client
      /\ server' = server /\ client[c] # "none"
  BY RelayAssumption DEF Join, NewcomersAreFree
<1>2. CASE w = NoConn
  <2>1. /\ waiting' = [waiting EXCEPT ![i] = c]
        /\ handler' = [handler EXCEPT ![c] = "waiting"]
        /\ UNCHANGED <<sessions, partner>>
    BY <1>2 DEF Join
  <2>2. PairsAreExclusive'
    BY <1>1, <2>1, RelayAssumption DEF PairsAreExclusive, Paired
  <2>3. NewcomersAreFree'
    BY <1>1, <2>1 DEF NewcomersAreFree, Paired
  <2>4. WaitersWait'
    BY <1>1, <2>1 DEF WaitersWait
  <2>5. OneHandlerRelays'
    BY <1>1, <2>1 DEF OneHandlerRelays, Paired
  <2> QED  BY <2>2, <2>3, <2>4, <2>5
<1>3. CASE w # NoConn
  <2>1. /\ waiting' = [waiting EXCEPT ![i] = NoConn]
        /\ sessions' = [sessions EXCEPT ![i] = c]
        /\ partner' = [partner EXCEPT ![c] = w, ![w] = c]
        /\ handler' = [handler EXCEPT ![c] = "acking"]
    BY <1>3 DEF Join
  <2>2. /\ w \in Conn /\ w # c /\ ~Paired(w) /\ IdOf[w] = i
        /\ handler[w] \in {"waiting", "done"}
    BY <1>1, <1>3 DEF PairsAreExclusive, WaitersWait
  <2>3. /\ partner'[c] = w /\ partner'[w] = c
        /\ \A d \in Conn : d # c /\ d # w => partner'[d] = partner[d]
    BY <2>1, <2>2
  <2>4. \A d \in Conn : Paired(d) => partner[d] # c /\ partner[d] # w
    BY <1>1, <2>2, RelayAssumption DEF PairsAreExclusive, Paired
  <2>5. PairsAreExclusive'
    <3>1. ASSUME NEW d \in Conn, Paired(d)'
          PROVE  partner'[d] # d /\ partner'[partner'[d]] = d /\ IdOf[partner'[d]] = IdOf[d]
      <4>1. CASE d = c \/ d = w
        BY <2>2, <2>3, <4>1
      <4>2. CASE d # c /\ d # w
        <5>1. Paired(d) /\ partner[d] \in Conn /\ partner'[d] = partner[d]
          BY <2>3, <3>1, <4>2 DEF Paired
        <5>2. partner'[partner[d]] = partner[partner[d]]
          BY <2>3, <2>4, <5>1
        <5> QED  BY <5>1, <5>2 DEF PairsAreExclusive
      <4> QED  BY <4>1, <4>2
    <3>2. \A d \in Conn : Paired(d) => Paired(d)'
      BY <2>2, <2>3, RelayAssumption DEF Paired
    <3>3. ASSUME NEW j \in SessionID, sessions'[j] # NoConn
          PROVE  Paired(sessions[j])' /\ IdOf[sessions'[j]] = j
      BY <2>1, <2>2, <2>3, <3>2, <3>3, RelayAssumption DEF PairsAreExclusive, Paired
    <3>4. ASSUME NEW j \in SessionID, waiting'[j] # NoConn
          PROVE  ~Paired(waiting[j])' /\ IdOf[waiting'[j]] = j
      <4>1. j # i /\ waiting'[j] = waiting[j] /\ waiting[j] \in Conn
        BY <1>1, <2>1, <3>4
      <4>2. ~Paired(waiting[j]) /\ IdOf[waiting[j]] = j
        BY <3>4, <4>1 DEF PairsAreExclusive
      <4> QED  BY <2>2, <2>3, <4>1, <4>2 DEF Paired
    <3> QED  BY <3>1, <3>3, <3>4 DEF PairsAreExclusive
  <2>6. NewcomersAreFree'
    BY <1>1, <2>1, <2>2, <2>3 DEF NewcomersAreFree, Paired
  <2>7. WaitersWait'
    <3>1. ASSUME NEW j \in SessionID, waiting'[j] # NoConn
          PROVE  waiting'[j] = waiting[j] /\ waiting[j] \in Conn /\ handler'[waiting[j]] = handler[waiting[j]]
      BY <1>1, <2>1, <3>1 DEF WaitersWait
    <3> QED  BY <1>1, <3>1 DEF WaitersWait
  <2>8. OneHandlerRelays'
    <3>1. ASSUME NEW d \in Conn, handler'[d] \in {"acking", "relaying"}
          PROVE  Paired(d)' /\ handler'[partner'[d]] \in {"waiting", "done", "expired"}
      <4>1. CASE d = c
        BY <2>1, <2>2, <2>3, <4>1, RelayAssumption DEF Paired
      <4>2. CASE d # c
        <5>1. handler[d] \in {"acking", "relaying"} /\ d # w
          BY <2>1, <2>2, <3>1, <4>2
        <5>2. Paired(d) /\ handler[partner[d]] \in {"waiting", "done", "expired"}
          BY <5>1 DEF OneHandlerRelays
        <5> QED  BY <2>1, <2>3, <2>4, <4>2, <5>1, <5>2 DEF Paired
      <4> QED  BY <4>1, <4>2
    <3> QED  BY <3>1 DEF OneHandlerRelays
  <2> QED  BY <2>5, <2>6, <2>7, <2>8
<1> QED  BY <1>2, <1>3

LEMMA PairStep ==
  ASSUME PairInv, [Next]_vars
  PROVE  PairInv'
<1> USE DEF PairInv, RelayTypes
<1>0. RelayTypes'
  BY RelayTypesKept
<1> DEFINE Rest == PairsAreExclusive' /\ NewcomersAreFree' /\ WaitersWait' /\ OneHandlerRelays'
<1>1. ASSUME NEW c \in Conn, Join(c)  PROVE Rest
  BY <1>1, JoinKeepsPairs
<1>2. ASSUME NEW c \in Conn, Dial(c)  PROVE Rest
  BY <1>2 DEF Dial, AcceptConn, tables, PairsAreExclusive, NewcomersAreFree, WaitersWait,
              OneHandlerRelays, Paired
<1>3. ASSUME NEW c \in Conn, ReadAck(c) \/ AskFails(c) \/ Send(c) \/ Leave(c) \/ Copy(c) \/ CopyEnds(c)
      PROVE  Rest
  BY <1>3 DEF ReadAck, AskFails, Send, Leave, Copy, CopyEnds, tables, PairsAreExclusive,
              NewcomersAreFree, WaitersWait, OneHandlerRelays, Paired
<1>4. ASSUME NEW c \in Conn, HelloFails(c)  PROVE Rest
  BY <1>4 DEF HelloFails, tables, PairsAreExclusive, NewcomersAreFree, WaitersWait,
              OneHandlerRelays, Paired
<1>5. ASSUME NEW c \in Conn, AckBoth(c)  PROVE Rest
  BY <1>5 DEF AckBoth, tables, PairsAreExclusive, NewcomersAreFree, WaitersWait,
              OneHandlerRelays, Paired
<1>6. ASSUME NEW c \in Conn, WaitTimeout(c)  PROVE Rest
  BY <1>6, RelayAssumption
  DEF WaitTimeout, PairsAreExclusive, NewcomersAreFree, WaitersWait, OneHandlerRelays, Paired
<1>7. ASSUME NEW c \in Conn, WaitDone(c)  PROVE Rest
  BY <1>7 DEF WaitDone, tables, PairsAreExclusive, NewcomersAreFree, WaitersWait,
              OneHandlerRelays, Paired
<1>8. ASSUME NEW c \in Conn, RelayEnds(c)  PROVE Rest
  BY <1>8, RelayAssumption
  DEF RelayEnds, PairsAreExclusive, NewcomersAreFree, WaitersWait, OneHandlerRelays, Paired
<1>9. CASE CloseDone \/ CloseSweep
  BY <1>9 DEF CloseDone, CloseSweep, tables, PairsAreExclusive, NewcomersAreFree, WaitersWait,
              OneHandlerRelays, Paired
<1>10. CASE UNCHANGED vars
  BY <1>10 DEF vars, tables, PairsAreExclusive, NewcomersAreFree, WaitersWait,
               OneHandlerRelays, Paired
<1> QED
  BY <1>0, <1>1, <1>2, <1>3, <1>4, <1>5, <1>6, <1>7, <1>8, <1>9, <1>10 DEF Next, Progress

LEMMA PairInvariant == Spec => []PairInv
BY PairInit, PairStep, PTL DEF Spec

\* RelayServer never puts a client into two sessions, nor into one of another
\* ID, whatever timers and ended sessions delete from its tables.
THEOREM PairingIsExclusive == Spec => []PairsAreExclusive
<1>1. PairInv => PairsAreExclusive
  BY DEF PairInv
<1> QED  BY PairInvariant, <1>1, PTL

-----------------------------------------------------------------------------
(* Acknowledgements *)

LEMMA AckedIs ==
  ASSUME NEW c \in Conn
  PROVE  Acked(c) <=> /\ Paired(c) /\ handler[c] \notin {"hello", "acking"}
                      /\ handler[partner[c]] \notin {"hello", "acking"}
BY ZenonT(30) DEF Acked

\* Partners stay together.
LEMMA PartnersStay ==
  ASSUME PairInv, [Next]_vars, NEW c \in Conn, Paired(c)
  PROVE  partner'[c] = partner[c]
<1> USE DEF PairInv, RelayTypes
<1>1. ASSUME NEW d \in Conn, Join(d)  PROVE partner'[c] = partner[c]
  <2>1. ~Paired(d)
    BY <1>1 DEF Join, NewcomersAreFree
  <2>2. IdOf[d] \in SessionID /\ (waiting[IdOf[d]] # NoConn => ~Paired(waiting[IdOf[d]]))
    BY RelayAssumption DEF PairsAreExclusive
  <2> QED  BY <1>1, <2>1, <2>2 DEF Join
<1> QED
  BY <1>1, ZenonT(30)
  DEF Next, Progress, vars, tables, ReadAck, AskFails, HelloFails, AckBoth, WaitTimeout,
      WaitDone, Copy, CopyEnds, RelayEnds, Dial, Send, Leave, CloseDone, CloseSweep

\* The acknowledgement of a connection is not taken back, and only AckBoth
\* sends it.
LEMMA AckedStays ==
  ASSUME PairInv, [Next]_vars, NEW c \in Conn, Acked(c)
  PROVE  Acked(c)' /\ partner'[c] = partner[c]
<1> USE DEF PairInv, RelayTypes
<1>1. /\ Paired(c) /\ partner[c] \in Conn /\ partner'[c] = partner[c]
      /\ handler[c] \notin {"hello", "acking"} /\ handler[partner[c]] \notin {"hello", "acking"}
  BY AckedIs, PartnersStay DEF Paired
<1>2. handler[c] # "none" /\ handler[partner[c]] # "none" /\ Paired(partner[c])
  BY <1>1, RelayAssumption DEF NewcomersAreFree, PairsAreExclusive, Paired
<1>3. client[c] # "none" /\ client[partner[c]] # "none"
  BY <1>1, <1>2 DEF NewcomersAreFree
<1>4. ASSUME NEW d \in Conn, handler[d] \notin {"hello", "acking"}, client[d] # "none"
      PROVE  handler'[d] \notin {"hello", "acking"}
  BY <1>4, ZenonT(30)
  DEF Next, Progress, vars, tables, ReadAck, AskFails, HelloFails, Join, AckBoth, WaitTimeout,
      WaitDone, Copy, CopyEnds, RelayEnds, Dial, AcceptConn, Send, Leave, CloseDone, CloseSweep
<1> QED  BY <1>1, <1>3, <1>4 DEF Acked, Paired

LEMMA AckedByAckBoth ==
  ASSUME PairInv, [Next]_vars, NEW c \in Conn, Acked(c)', ~Acked(c)
  PROVE  Paired(c) /\ (AckBoth(c) \/ AckBoth(partner[c]))
<1> USE DEF PairInv, RelayTypes
<1>1. /\ partner'[c] # NoConn /\ handler'[c] \notin {"hello", "acking"}
      /\ handler'[partner'[c]] \notin {"hello", "acking"}
  BY ZenonT(30) DEF Acked, Paired
<1>2. ASSUME NEW d \in Conn, Join(d)  PROVE FALSE
  <2>0. IdOf[d] \in SessionID
    BY RelayAssumption
  <2>1. CASE waiting[IdOf[d]] = NoConn
    <3>1. partner' = partner /\ handler' = [handler EXCEPT ![d] = "waiting"]
      BY <1>2, <2>1 DEF Join
    <3>2. ~Paired(d) /\ c # d /\ partner[c] # d
      BY <1>1, <1>2, <3>1, RelayAssumption DEF Join, NewcomersAreFree, PairsAreExclusive, Paired
    <3> QED  BY <1>1, <3>1, <3>2 DEF Acked, Paired
  <2>2. CASE waiting[IdOf[d]] # NoConn
    <3> DEFINE w == waiting[IdOf[d]]
    <3>1. /\ partner' = [partner EXCEPT ![d] = w, ![w] = d]
          /\ handler' = [handler EXCEPT ![d] = "acking"]
      BY <1>2, <2>2 DEF Join
    <3>2. w \in Conn /\ ~Paired(w) /\ ~Paired(d)
      BY <1>2, <2>0, <2>2 DEF Join, NewcomersAreFree, PairsAreExclusive
    <3>3. c # d /\ c # w /\ partner'[c] = partner[c] /\ partner[c] # d
      BY <1>1, <3>1, <3>2
    <3> QED  BY <1>1, <3>1, <3>3 DEF Acked, Paired
  <2> QED  BY <2>1, <2>2
<1>3. ASSUME NEW d \in Conn, HelloFails(d)  PROVE FALSE
  <2>1. ~Paired(d) /\ partner' = partner /\ handler' = [handler EXCEPT ![d] = "done"]
    BY <1>3 DEF HelloFails, NewcomersAreFree, tables
  <2>2. c # d /\ partner[c] # d
    BY <1>1, <2>1, RelayAssumption DEF PairsAreExclusive, Paired
  <2> QED  BY <1>1, <2>1, <2>2 DEF Acked, Paired
<1>4. ASSUME NEW d \in Conn, AckBoth(d)  PROVE Paired(c) /\ (d = c \/ d = partner[c])
  BY <1>1, <1>4 DEF AckBoth, tables, Acked, Paired
<1>5. ASSUME NEW d \in Conn, WaitTimeout(d) \/ WaitDone(d) \/ RelayEnds(d)  PROVE FALSE
  BY <1>1, <1>5 DEF WaitTimeout, WaitDone, RelayEnds, tables, Acked, Paired
<1>6. ASSUME NEW d \in Conn, Dial(d)  PROVE FALSE
  BY <1>1, <1>6 DEF Dial, AcceptConn, tables, Acked, Paired
<1>7. CASE UNCHANGED <<handler, partner>>
  BY <1>1, <1>7 DEF Acked, Paired
<1> QED
  BY <1>2, <1>3, <1>4, <1>5, <1>6, <1>7
  DEF Next, Progress, vars, tables, ReadAck, AskFails, Copy, CopyEnds, Send, Leave,
      CloseDone, CloseSweep

-----------------------------------------------------------------------------
(* Sequences of messages *)

LEMMA Appended ==
  ASSUME NEW S, NEW s \in Seq(S), NEW m \in S
  PROVE  /\ Append(s, m) \in Seq(S) /\ Append(s, m) # <<>>
         /\ s # <<>> => Append(s, m)[1] = s[1]
         /\ s = <<>> => Append(s, m)[1] = m
         /\ \A k \in 1..Len(Append(s, m)) :
              Append(s, m)[k] = m \/ (k \in 1..Len(s) /\ Append(s, m)[k] = s[k])
OBVIOUS

LEMMA Tailed ==
  ASSUME NEW S, NEW s \in Seq(S), s # <<>>
  PROVE  /\ Tail(s) \in Seq(S) /\ Head(s) = s[1] /\ 1 \in 1..Len(s)
         /\ \A k \in 1..Len(Tail(s)) : k + 1 \in 1..Len(s) /\ Tail(s)[k] = s[k + 1]
OBVIOUS

Message == Conn \cup {"ack", "error"}

LEMMA Written ==
  ASSUME NEW box \in [Conn -> Seq(Message)], NEW c \in Conn, NEW m \in Message
  PROVE  /\ Write(box, c, m) \in [Conn -> Seq(Message)]
         /\ \A d \in Conn : d # c => Write(box, c, m)[d] = box[d]
         /\ Write(box, c, m)[c] = IF sock[c] THEN Append(box[c], m) ELSE box[c]
<1>1. Append(box[c], m) \in Seq(Message)
  BY Appended
<1> QED  BY <1>1 DEF Write

-----------------------------------------------------------------------------
(* Data *)

LEMMA AckBothWrites ==
  ASSUME PairInv, DataInv, NEW d \in Conn, AckBoth(d), NEW c \in Conn
  PROVE  /\ Paired(d) /\ partner[d] \in Conn /\ partner[d] # d
         /\ inbox' \in [Conn -> Seq(Message)]
         /\ c \in {d, partner[d]} =>
              inbox'[c] = IF sock[c] THEN Append(inbox[c], "ack") ELSE inbox[c]
         /\ c \notin {d, partner[d]} => inbox'[c] = inbox[c]
<1> DEFINE p == partner[d]
           first == Write(inbox, p, "ack")
<1>1. Paired(d) /\ p \in Conn /\ p # d
  BY DEF PairInv, RelayTypes, AckBoth, OneHandlerRelays, PairsAreExclusive, Paired
<1>2. inbox \in [Conn -> Seq(Message)] /\ "ack" \in Message
  BY DEF DataInv, Boxes, Message
<1>3. /\ first \in [Conn -> Seq(Message)]
      /\ \A e \in Conn : e # p => first[e] = inbox[e]
      /\ first[p] = IF sock[p] THEN Append(inbox[p], "ack") ELSE inbox[p]
  BY <1>1, <1>2, Written, ZenonT(30)
<1>4. inbox' = Write(first, d, "ack")
  BY DEF AckBoth
<1>5. /\ inbox' \in [Conn -> Seq(Message)]
      /\ \A e \in Conn : e # d => inbox'[e] = first[e]
      /\ inbox'[d] = IF sock[d] THEN Append(first[d], "ack") ELSE first[d]
  <2>1. \A box \in [Conn -> Seq(Message)] :
          /\ Write(box, d, "ack") \in [Conn -> Seq(Message)]
          /\ \A e \in Conn : e # d => Write(box, d, "ack")[e] = box[e]
          /\ Write(box, d, "ack")[d] = IF sock[d] THEN Append(box[d], "ack") ELSE box[d]
    BY <1>2, Written, ZenonT(30)
  <2> HIDE DEF first
  <2> QED  BY <1>3, <1>4, <2>1
<1> HIDE DEF first
<1> QED  BY <1>1, <1>3, <1>5, ZenonT(30)

\* The four things that may happen to what a client has yet to read.
LEMMA InboxChange ==
  ASSUME PairInv, DataInv, [Next]_vars, NEW c \in Conn
  PROVE  \/ inbox'[c] = inbox[c]
         \/ /\ client[c] = "asking" /\ client'[c] # "asking"
            /\ inbox[c] # <<>> /\ inbox'[c] = Tail(inbox[c])
         \/ Paired(c) /\ inbox'[c] = Append(inbox[c], "ack")
         \/ /\ Acked(c) /\ sock[c]
            /\ \E m \in {"error", partner[c]} : inbox'[c] = Append(inbox[c], m)
<1> USE DEF PairInv, RelayTypes
<1>0. inbox \in [Conn -> Seq(Message)] /\ {"ack", "error"} \subseteq Message
  BY DEF DataInv, Boxes, Message
<1>1. ASSUME NEW d \in Conn, ReadAck(d)
      PROVE  \/ inbox'[c] = inbox[c]
             \/ /\ client[c] = "asking" /\ client'[c] # "asking"
                /\ inbox[c] # <<>> /\ inbox'[c] = Tail(inbox[c])
  BY <1>0, <1>1 DEF ReadAck
<1>2. ASSUME NEW d \in Conn, AckBoth(d)
      PROVE  inbox'[c] = inbox[c] \/ (Paired(c) /\ inbox'[c] = Append(inbox[c], "ack"))
  <2>1. Paired(d) /\ Paired(partner[d])
    BY <1>2, AckBothWrites, RelayAssumption DEF PairsAreExclusive, Paired
  <2> QED  BY <1>2, <2>1, AckBothWrites, ZenonT(30)
<1>3. ASSUME NEW d \in Conn, WaitTimeout(d)
      PROVE  \/ inbox'[c] = inbox[c]
             \/ Acked(c) /\ sock[c] /\ inbox'[c] = Append(inbox[c], "error")
  <2>1. CASE Acked(d)
    <3>1. inbox' = Write(inbox, d, "error")
      BY <1>3, <2>1 DEF WaitTimeout
    <3>2. /\ \A e \in Conn : e # d => Write(inbox, d, "error")[e] = inbox[e]
          /\ Write(inbox, d, "error")[d] =
               IF sock[d] THEN Append(inbox[d], "error") ELSE inbox[d]
      BY <1>0, Written, ZenonT(30)
    <3> QED  BY <2>1, <3>1, <3>2, ZenonT(30)
  <2>2. CASE ~Acked(d)
    BY <1>3, <2>2 DEF WaitTimeout
  <2> QED  BY <2>1, <2>2
<1>4. ASSUME NEW d \in Conn, Copy(d)
      PROVE  \/ inbox'[c] = inbox[c]
             \/ Acked(c) /\ sock[c] /\ inbox'[c] = Append(inbox[c], partner[c])
  <2>1. Acked(d)
    BY <1>4 DEF Copy, DataInv, CopiesAreAcked
  <2>2. /\ partner[d] \in Conn /\ partner[partner[d]] = d
        /\ Acked(partner[d])
    BY <2>1, RelayAssumption DEF Acked, PairsAreExclusive, Paired
  <2>3. Head(out[d]) = d
    BY <1>4, Tailed DEF Copy, DataInv, Boxes, OwnData
  <2>4. sock[partner[d]] /\ inbox' = [inbox EXCEPT ![partner[d]] = Append(@, d)]
    BY <1>4, <2>3, ZenonT(30) DEF Copy
  <2> QED  BY <1>0, <2>2, <2>4
<1>5. CASE UNCHANGED inbox
  BY <1>5
<1> QED
  BY <1>1, <1>2, <1>3, <1>4, <1>5, ZenonT(30)
  DEF Next, Progress, vars, tables, AskFails, HelloFails, Join, WaitDone, CopyEnds, RelayEnds,
      Dial, Send, Leave, CloseDone, CloseSweep

\* A connection that the server closed is not opened again.
LEMMA SockFalls ==
  ASSUME Flags, [Next]_vars, NEW c \in Conn, sock'[c]
  PROVE  sock[c] \/ Dial(c)
<1> USE DEF Flags
<1>1. ASSUME NEW d \in Conn, RelayEnds(d)  PROVE sock[c]
  BY <1>1 DEF RelayEnds, CloseSession
<1>2. CASE CloseSweep
  BY <1>2 DEF CloseSweep
<1>3. ASSUME NEW d \in Conn, HelloFails(d) \/ WaitTimeout(d) \/ WaitDone(d)  PROVE sock[c]
  BY <1>3 DEF HelloFails, WaitTimeout, WaitDone
<1>4. ASSUME NEW d \in Conn, Dial(d)  PROVE sock[c] \/ Dial(c)
  BY <1>4, ZenonT(30) DEF Dial, AcceptConn
<1> QED
  BY <1>1, <1>2, <1>3, <1>4, ZenonT(30)
  DEF Next, Progress, vars, ReadAck, AskFails, Join, AckBoth, Copy, CopyEnds, Send, Leave,
      CloseDone

LEMMA FlagsKept ==
  ASSUME PairInv, Flags, [Next]_vars
  PROVE  Flags'
<1> USE DEF Flags
<1>1. ASSUME NEW c \in Conn, RelayEnds(c)  PROVE Flags'
  BY <1>1, ZenonT(30) DEF RelayEnds, CloseSession
<1>2. CASE CloseSweep
  BY <1>2 DEF CloseSweep
<1>3. ASSUME NEW c \in Conn,
             HelloFails(c) \/ WaitTimeout(c) \/ WaitDone(c) \/ AckBoth(c) \/ CopyEnds(c) \/ Dial(c)
      PROVE  Flags'
  BY <1>3, ZenonT(30) DEF HelloFails, WaitTimeout, WaitDone, AckBoth, CopyEnds, Dial, AcceptConn
<1> QED
  BY <1>1, <1>2, <1>3, ZenonT(30)
  DEF Next, Progress, vars, ReadAck, AskFails, Join, Copy, Send, Leave, CloseDone

LEMMA BoxesKept ==
  ASSUME PairInv, DataInv, [Next]_vars
  PROVE  Boxes' /\ \A c \in Conn : \A k \in 1..Len(out'[c]) : out'[c][k] = c
<1> DEFINE Own == \A c \in Conn : \A k \in 1..Len(out'[c]) : out'[c][k] = c
<1>0. /\ out \in [Conn -> Seq(Conn)] /\ inbox \in [Conn -> Seq(Message)]
      /\ \A c \in Conn : \A k \in 1..Len(out[c]) : out[c][k] = c
  BY DEF DataInv, Boxes, Message, OwnData
<1>1. out' \in [Conn -> Seq(Conn)] /\ Own
  <2>1. ASSUME NEW c \in Conn, Send(c)  PROVE out' \in [Conn -> Seq(Conn)] /\ Own
    <3>1. out' = [out EXCEPT ![c] = Append(out[c], c)] /\ Append(out[c], c) \in Seq(Conn)
      BY <1>0, <2>1, Appended DEF Send
    <3>2. ASSUME NEW k \in 1..Len(Append(out[c], c))  PROVE Append(out[c], c)[k] = c
      <4>1. out[c] \in Seq(Conn)
        BY <1>0
      <4>2. \/ Append(out[c], c)[k] = c
            \/ k \in 1..Len(out[c]) /\ Append(out[c], c)[k] = out[c][k]
        BY <4>1
      <4> QED  BY <1>0, <4>2, ZenonT(30)
    <3> QED  BY <1>0, <3>1, <3>2
  <2>2. ASSUME NEW c \in Conn, Copy(c)  PROVE out' \in [Conn -> Seq(Conn)] /\ Own
    <3>1. out' = [out EXCEPT ![c] = Tail(out[c])] /\ Tail(out[c]) \in Seq(Conn)
      BY <1>0, <2>2, Tailed DEF Copy
    <3>2. \A k \in 1..Len(Tail(out[c])) : Tail(out[c])[k] = c
      BY <1>0, <2>2, Tailed DEF Copy
    <3> QED  BY <1>0, <3>1, <3>2
  <2>3. ASSUME NEW c \in Conn, CopyEnds(c)  PROVE out' \in [Conn -> Seq(Conn)] /\ Own
    <3>1. <<>> \in Seq(Conn) /\ \A k \in 1..Len(<<>>) : FALSE
      OBVIOUS
    <3> QED  BY <1>0, <2>3, <3>1 DEF CopyEnds
  <2>4. CASE UNCHANGED out
    BY <1>0, <2>4
  <2> QED
    BY <2>1, <2>2, <2>3, <2>4, ZenonT(30)
    DEF Next, Progress, vars, ReadAck, AskFails, HelloFails, Join, AckBoth, WaitTimeout,
        WaitDone, RelayEnds, Dial, Leave, CloseDone, CloseSweep
<1>2. inbox' \in [Conn -> Seq(Message)]
  <2>1. ASSUME NEW c \in Conn, ReadAck(c)  PROVE inbox' \in [Conn -> Seq(Message)]
    <3>1. Tail(inbox[c]) \in Seq(Message)
      BY <1>0, <2>1, Tailed DEF ReadAck
    <3> QED  BY <1>0, <2>1, <3>1 DEF ReadAck
  <2>2. ASSUME NEW c \in Conn, AckBoth(c)  PROVE inbox' \in [Conn -> Seq(Message)]
    BY <2>2, AckBothWrites
  <2>3. ASSUME NEW c \in Conn, WaitTimeout(c)  PROVE inbox' \in [Conn -> Seq(Message)]
    <3>1. Write(inbox, c, "error") \in [Conn -> Seq(Message)]
      <4>1. "error" \in Message
        BY DEF Message
      <4> QED  BY <1>0, <4>1, Written
    <3> QED  BY <1>0, <2>3, <3>1 DEF WaitTimeout
  <2>4. ASSUME NEW c \in Conn, Copy(c)  PROVE inbox' \in [Conn -> Seq(Message)]
    <3>1. partner[c] \in Conn
      BY <2>4 DEF Copy, DataInv, CopiesAreAcked, Acked, Paired, PairInv, RelayTypes
    <3>2. Head(out[c]) \in Message
      BY <1>0, <2>4, Tailed DEF Copy, Message
    <3>3. Append(inbox[partner[c]], Head(out[c])) \in Seq(Message)
      BY <1>0, <3>1, <3>2, Appended
    <3> QED  BY <1>0, <2>4, <3>1, <3>3 DEF Copy
  <2>5. CASE UNCHANGED inbox
    BY <1>0, <2>5
  <2> QED
    BY <2>1, <2>2, <2>3, <2>4, <2>5, ZenonT(30)
    DEF Next, Progress, vars, AskFails, HelloFails, Join, WaitDone, CopyEnds, RelayEnds,
        Dial, Send, Leave, CloseDone, CloseSweep
<1> QED  BY <1>1, <1>2 DEF Boxes, Message

LEMMA CopiesKept ==
  ASSUME PairInv, DataInv, [Next]_vars
  PROVE  CopiesAreAcked'
<1> SUFFICES ASSUME NEW c \in Conn, copying'[c]  PROVE Acked(c)'
  BY DEF CopiesAreAcked
<1>1. CASE Acked(c)
  BY <1>1, AckedStays
<1>2. CASE ~Acked(c)
  <2>1. ~copying[c]
    BY <1>2 DEF DataInv, CopiesAreAcked
  <2>2. PICK d \in Conn : AckBoth(d) /\ (c = d \/ c = partner[d])
    BY <2>1, ZenonT(30)
    DEF DataInv, Flags, Next, Progress, vars, ReadAck, AskFails, HelloFails, Join, AckBoth,
        WaitTimeout, WaitDone, Copy, CopyEnds, RelayEnds, Dial, Send, Leave, CloseDone, CloseSweep
  <2>3. /\ Paired(d) /\ partner[d] \in Conn /\ partner[partner[d]] = d /\ partner[d] # d
        /\ handler[partner[d]] \in {"waiting", "done", "expired"}
        /\ partner' = partner /\ handler' = [handler EXCEPT ![d] = "relaying"]
    BY <2>2 DEF PairInv, RelayTypes, AckBoth, OneHandlerRelays, PairsAreExclusive, Paired, tables
  <2>4. handler'[d] = "relaying" /\ handler'[partner[d]] \in {"waiting", "done", "expired"}
    BY <2>3 DEF PairInv, RelayTypes
  <2> QED  BY <2>2, <2>3, <2>4, RelayAssumption DEF Acked, Paired
<1> QED  BY <1>1, <1>2

LEMMA UnpairedKept ==
  ASSUME PairInv, DataInv, [Next]_vars, NEW c \in Conn, ~Paired(c)'
  PROVE  inbox'[c] = <<>>
<1>1. ~Paired(c)
  BY PartnersStay DEF Paired
<1>2. inbox[c] = <<>> /\ ~Acked(c)
  BY <1>1 DEF DataInv, OwnData, Acked
<1> QED  BY <1>1, <1>2, InboxChange

LEMMA FromPartnerKept ==
  ASSUME PairInv, DataInv, [Next]_vars
  PROVE  FromPartner'
<1> SUFFICES ASSUME NEW c \in Conn, NEW k \in 1..Len(inbox'[c]), inbox'[c][k] \in Conn
             PROVE  inbox'[c][k] = partner'[c]
  BY DEF FromPartner
<1>0. /\ inbox[c] \in Seq(Message) /\ {"ack", "error"} \subseteq Message
      /\ {"ack", "error"} \cap Conn = {}
      /\ \A j \in 1..Len(inbox[c]) : inbox[c][j] \in Conn => inbox[c][j] = partner[c]
  BY RelayAssumption DEF DataInv, Boxes, Message, FromPartner
<1>1. CASE Paired(c)
  <2>1. partner'[c] = partner[c] /\ partner[c] \in Message
    BY <1>1, PartnersStay DEF PairInv, RelayTypes, Paired, Message
  <2>2. CASE inbox'[c] = inbox[c]
    BY <1>0, <2>1, <2>2
  <2>3. CASE inbox[c] # <<>> /\ inbox'[c] = Tail(inbox[c])
    BY <1>0, <2>1, <2>3, Tailed
  <2>4. ASSUME NEW m \in {"ack", "error", partner[c]}, inbox'[c] = Append(inbox[c], m)
        PROVE  inbox'[c][k] = partner'[c]
    <3>1. m \in Message /\ (m \in Conn => m = partner[c])
      BY <1>0, <2>1
    <3>2. Append(inbox[c], m)[k] = m \/ (k \in 1..Len(inbox[c]) /\ Append(inbox[c], m)[k] = inbox[c][k])
      BY <1>0, <2>4, <3>1, Appended
    <3> QED  BY <1>0, <2>1, <2>4, <3>1, <3>2
  <2> QED  BY <2>2, <2>3, <2>4, InboxChange
<1>2. CASE ~Paired(c)
  <2>1. inbox[c] = <<>> /\ ~Acked(c)
    BY <1>2 DEF DataInv, OwnData, Acked
  <2>2. inbox'[c] = <<>>
    BY <1>2, <2>1, InboxChange
  <2> QED  BY <2>2
<1> QED  BY <1>1, <1>2

LEMMA AckAtHeadKept ==
  ASSUME PairInv, DataInv, [Next]_vars
  PROVE  AckAtHead'
<1> SUFFICES ASSUME NEW c \in Conn, client'[c] = "asking"
             PROVE  /\ inbox'[c] # <<>> => inbox'[c][1] = "ack"
                    /\ Acked(c)' /\ sock'[c] => inbox'[c] # <<>>
  BY DEF AckAtHead
<1> USE DEF PairInv, RelayTypes
<1>0. inbox[c] \in Seq(Message) /\ {"ack", "error"} \subseteq Message
  BY DEF DataInv, Boxes, Message
<1>1. CASE client[c] = "asking"
  <2>1. /\ inbox[c] # <<>> => inbox[c][1] = "ack"
        /\ Acked(c) /\ sock[c] => inbox[c] # <<>>
    BY <1>1 DEF DataInv, AckAtHead
  <2>2. inbox'[c] # <<>> => inbox'[c][1] = "ack"
    <3>1. CASE inbox'[c] = Append(inbox[c], "ack")
      BY <1>0, <2>1, <3>1, Appended
    <3>2. ASSUME NEW m \in {"error", partner[c]}, Acked(c), sock[c], inbox'[c] = Append(inbox[c], m)
          PROVE  inbox'[c][1] = "ack"
      <4>1. m \in Message
        BY <1>0, <3>2 DEF Acked, Paired, Message
      <4> QED  BY <1>0, <2>1, <3>2, <4>1, Appended
    <3> QED  BY <2>1, <3>1, <3>2, InboxChange
  <2>3. ASSUME Acked(c)', sock'[c]  PROVE inbox'[c] # <<>>
    <3>1. sock[c]
      BY <1>1, <2>3, SockFalls DEF DataInv, Dial
    <3>2. CASE Acked(c)
      <4>1. inbox[c] # <<>>
        BY <2>1, <3>1, <3>2
      <4>2. ASSUME NEW m \in {"ack", "error", partner[c]}  PROVE Append(inbox[c], m) # <<>>
        <5>1. m \in Message
          BY <1>0, <3>2 DEF Acked, Paired, Message
        <5> QED  BY <1>0, <5>1, Appended
      <4> QED  BY <4>1, <4>2, InboxChange
    <3>3. CASE ~Acked(c)
      <4>1. Paired(c) /\ (AckBoth(c) \/ AckBoth(partner[c]))
        BY <2>3, <3>3, AckedByAckBoth
      <4>2. partner[c] \in Conn /\ partner[partner[c]] = c
        BY <4>1 DEF PairsAreExclusive, Paired
      <4>3. inbox'[c] = Append(inbox[c], "ack")
        BY <3>1, <4>1, <4>2, AckBothWrites, ZenonT(30)
      <4> QED  BY <1>0, <4>3, Appended
    <3> QED  BY <3>2, <3>3
  <2> QED  BY <2>2, <2>3
<1>2. CASE client[c] # "asking"
  <2>1. Dial(c)
    BY <1>2, ZenonT(30)
    DEF Next, Progress, vars, tables, ReadAck, AskFails, HelloFails, Join, AckBoth, WaitTimeout,
        WaitDone, Copy, CopyEnds, RelayEnds, Dial, Send, Leave, CloseDone, CloseSweep
  <2>2. ~Paired(c) /\ inbox' = inbox /\ partner' = partner
    BY <2>1 DEF Dial, NewcomersAreFree, tables
  <2> QED  BY <2>2 DEF DataInv, OwnData, Acked, Paired
<1> QED  BY <1>1, <1>2

LEMMA DataInvariant == Spec => [](PairInv /\ DataInv)
<1>1. Init => DataInv
  BY DEF Init, DataInv, Boxes, Flags, CopiesAreAcked, OwnData, FromPartner, AckAtHead
<1>2. ASSUME PairInv, DataInv, [Next]_vars  PROVE DataInv'
  <2>1. OwnData'
    BY <1>2, BoxesKept, UnpairedKept DEF OwnData
  <2>2. Flags'
    BY <1>2, FlagsKept DEF DataInv
  <2> QED
    BY <1>2, <2>1, <2>2, BoxesKept, CopiesKept, FromPartnerKept, AckAtHeadKept DEF DataInv
<1> QED  BY PairInvariant, <1>1, <1>2, PTL DEF Spec

\* copyWithHeader never hands one session's bytes to another, even when an ID is
\* used again, and RelayClient.Connect finds the acknowledgement first.
THEOREM DataStaysInSession == Spec => []DataFromPartner
<1>1. PairInv /\ DataInv => DataFromPartner
  <2> SUFFICES ASSUME DataInv, NEW c \in Conn
               PROVE  /\ \A m \in Range(inbox[c]) : m \in Conn => m = partner[c]
                      /\ client[c] = "asking" /\ inbox[c] # <<>> => Head(inbox[c]) = "ack"
    BY DEF DataFromPartner
  <2>1. inbox[c] \in Seq(Message)
    BY DEF DataInv, Boxes, Message
  <2>2. Range(inbox[c]) = {inbox[c][k] : k \in 1..Len(inbox[c])}
    BY <2>1 DEF Range
  <2>3. inbox[c] # <<>> => Head(inbox[c]) = inbox[c][1]
    BY <2>1, Tailed
  <2> QED  BY <2>2, <2>3 DEF DataInv, FromPartner, AckAtHead
<1> QED  BY DataInvariant, <1>1, PTL

-----------------------------------------------------------------------------
(* The end of a session *)

LEMMA OpenInit == Init => OpenTillCause
BY DEF Init, OpenTillCause, Paired

\* What closes a connection while the server is up.
LEMMA ClosedBy ==
  ASSUME Flags, [Next]_vars, server' = "up", NEW c \in Conn, sock[c], ~sock'[c]
  PROVE  \/ HelloFails(c) \/ WaitTimeout(c)
         \/ \E d \in Conn : RelayEnds(d) /\ (c = d \/ c = partner[d])
<1> USE DEF Flags
<1>1. ASSUME NEW d \in Conn, RelayEnds(d)  PROVE c = d \/ c = partner[d]
  BY <1>1, ZenonT(30) DEF RelayEnds, CloseSession
<1>2. ASSUME NEW d \in Conn, HelloFails(d) \/ WaitTimeout(d)  PROVE c = d
  BY <1>2 DEF HelloFails, WaitTimeout
<1>3. ASSUME NEW d \in Conn, WaitDone(d)  PROVE FALSE
  BY <1>3 DEF WaitDone
<1>4. ASSUME NEW d \in Conn, Dial(d)  PROVE FALSE
  BY <1>4 DEF Dial, AcceptConn
<1>5. ~CloseSweep
  BY DEF CloseSweep
<1> QED
  BY <1>1, <1>2, <1>3, <1>4, <1>5, ZenonT(30)
  DEF Next, Progress, vars, ReadAck, AskFails, Join, AckBoth, Copy, CopyEnds, Send, Leave,
      CloseDone

\* Clients that have gone stay away, timers that are over stay so, and the
\* server does not come up again.
LEMMA EndsStay ==
  ASSUME PairInv, [Next]_vars
  PROVE  /\ server' = "up" => server = "up"
         /\ \A c \in Conn : Gone(c) => Gone(c)'
         /\ \A c \in Conn : handler[c] = "expired" => handler'[c] = "expired"
<1> USE DEF PairInv, RelayTypes
<1>1. server' = "up" => server = "up"
  BY ZenonT(30) DEF Next, Progress, vars, ReadAck, AskFails, HelloFails, Join, AckBoth, WaitTimeout,
      WaitDone, Copy, CopyEnds, RelayEnds, Dial, Send, Leave, CloseDone, CloseSweep
<1>2. \A c \in Conn : Gone(c) => Gone(c)'
  BY ZenonT(30) DEF Gone, Next, Progress, vars, ReadAck, AskFails, HelloFails, Join, AckBoth, WaitTimeout,
      WaitDone, Copy, CopyEnds, RelayEnds, Dial, Send, Leave, CloseDone, CloseSweep
<1>3. \A c \in Conn : handler[c] = "expired" => handler'[c] = "expired"
  <2> SUFFICES ASSUME NEW c \in Conn, handler[c] = "expired"  PROVE handler'[c] = "expired"
    OBVIOUS
  <2>1. client[c] # "none"
    BY DEF NewcomersAreFree
  <2>2. ASSUME NEW d \in Conn, Join(d)  PROVE handler'[c] = "expired"
    BY <2>2 DEF Join
  <2>3. ASSUME NEW d \in Conn, Dial(d)  PROVE handler'[c] = "expired"
    BY <2>1, <2>3 DEF Dial, AcceptConn
  <2>4. ASSUME NEW d \in Conn,
               HelloFails(d) \/ AckBoth(d) \/ WaitTimeout(d) \/ WaitDone(d) \/ RelayEnds(d)
        PROVE  handler'[c] = "expired"
    BY <2>4 DEF HelloFails, AckBoth, WaitTimeout, WaitDone, RelayEnds
  <2> QED
    BY <2>2, <2>3, <2>4
    DEF Next, Progress, vars, ReadAck, AskFails, Copy, CopyEnds, Send, Leave, CloseDone, CloseSweep
<1> QED  BY <1>1, <1>2, <1>3

\* The partner of a partner, and what it is to be acknowledged, are the same.
LEMMA Symmetric ==
  ASSUME PairInv, NEW c \in Conn, Paired(c)
  PROVE  /\ partner[c] \in Conn /\ partner[partner[c]] = c /\ Paired(partner[c])
         /\ Acked(c) <=> Acked(partner[c])
<1>1. partner[c] \in Conn /\ partner[partner[c]] = c
  BY DEF PairInv, RelayTypes, PairsAreExclusive, Paired
<1>2. Paired(partner[c])
  BY <1>1, RelayAssumption DEF Paired
<1> QED  BY <1>1, <1>2 DEF Acked

\* Nothing has ended a session so far.
Undisturbed(c) ==
  /\ server = "up" /\ Paired(c) /\ ~Gone(c) /\ ~Gone(partner[c])
  /\ "expired" \notin {handler[c], handler[partner[c]]}

LEMMA OpenSock ==
  ASSUME PairInv, DataInv, OpenTillCause, [Next]_vars, NEW c \in Conn, Undisturbed(c),
         Undisturbed(c)'
  PROVE  sock'[c]
<1>1. sock[c] /\ (Acked(c) => copying[c])
  BY DEF OpenTillCause, Undisturbed
<1>2. ~HelloFails(c)
  BY DEF HelloFails, PairInv, NewcomersAreFree, Undisturbed
<1>3. ~WaitTimeout(c)
  BY DEF WaitTimeout, Undisturbed, PairInv, RelayTypes
<1>4. ASSUME NEW d \in Conn, RelayEnds(d), c = d \/ c = partner[d]  PROVE FALSE
  <2>1. Acked(d)
    BY <1>4 DEF RelayEnds, PairInv, OneHandlerRelays, Acked
  <2>2. Acked(c) /\ ~copying[c]
    BY <1>4, <2>1, Symmetric DEF RelayEnds, Acked
  <2> QED  BY <1>1, <2>2
<1> QED  BY <1>1, <1>2, <1>3, <1>4, ClosedBy DEF DataInv, Undisturbed

LEMMA OpenCopies ==
  ASSUME PairInv, DataInv, OpenTillCause, [Next]_vars, NEW c \in Conn, Undisturbed(c), Acked(c)'
  PROVE  copying'[c]
<1>0. /\ partner[c] \in Conn /\ partner[partner[c]] = c /\ Undisturbed(partner[c])
  BY Symmetric DEF Undisturbed
<1>1. CASE Acked(c)
  <2>1. sock[c] /\ copying[c] /\ sock[partner[c]]
    BY <1>0, <1>1, ZenonT(30) DEF OpenTillCause, Undisturbed
  <2>2. ~CopyEnds(c)
    BY <2>1 DEF CopyEnds, Undisturbed
  <2>3. ASSUME NEW d \in Conn, CopyEnds(d), d # c  PROVE copying'[c]
    BY <2>1, <2>3 DEF CopyEnds, DataInv, Flags
  <2>4. ASSUME NEW d \in Conn, AckBoth(d)  PROVE copying'[c]
    BY <2>1, <2>4 DEF AckBoth, DataInv, Flags
  <2> QED
    BY <2>1, <2>2, <2>3, <2>4, ZenonT(30)
    DEF Next, Progress, vars, ReadAck, AskFails, HelloFails, Join, WaitTimeout, WaitDone,
        Copy, RelayEnds, Dial, Send, Leave, CloseDone, CloseSweep
<1>2. CASE ~Acked(c)
  <2>1. AckBoth(c) \/ AckBoth(partner[c])
    BY <1>2, AckedByAckBoth
  <2> QED  BY <1>0, <2>1 DEF AckBoth, DataInv, Flags
<1> QED  BY <1>1, <1>2

LEMMA OpenKept ==
  ASSUME PairInv, DataInv, OpenTillCause, [Next]_vars
  PROVE  OpenTillCause'
<1> SUFFICES ASSUME NEW c \in Conn, server' = "up"
             PROVE  /\ handler'[c] \in {"hello", "waiting"} /\ ~Paired(c)' => sock'[c]
                    /\ Undisturbed(c)' => sock'[c] /\ (Acked(c)' => copying'[c])
  BY DEF OpenTillCause, Undisturbed
<1> USE DEF PairInv, RelayTypes
<1>0. server = "up"
  BY EndsStay
<1>1. ASSUME handler'[c] \in {"hello", "waiting"}, ~Paired(c)'  PROVE sock'[c]
  <2>1. ~Paired(c)
    BY <1>1, PartnersStay DEF Paired
  <2>2. CASE Dial(c)
    BY <2>2 DEF Dial, AcceptConn, DataInv, Flags
  <2>3. CASE ~Dial(c)
    <3>1. handler[c] \in {"hello", "waiting"}
      BY <1>1, <2>3, ZenonT(30)
      DEF Next, Progress, vars, ReadAck, AskFails, HelloFails, Join, AckBoth, WaitTimeout,
          WaitDone, Copy, CopyEnds, RelayEnds, Dial, AcceptConn, Send, Leave, CloseDone, CloseSweep
    <3>2. sock[c]
      BY <1>0, <2>1, <3>1 DEF OpenTillCause
    <3>3. ~HelloFails(c) /\ ~WaitTimeout(c)
      BY <1>1 DEF HelloFails, WaitTimeout
    <3>4. ASSUME NEW d \in Conn, RelayEnds(d)  PROVE c # d /\ c # partner[d]
      <4>1. Paired(d)
        BY <3>4 DEF RelayEnds, OneHandlerRelays
      <4> QED  BY <2>1, <4>1, Symmetric
    <3> QED  BY <3>2, <3>3, <3>4, ClosedBy DEF DataInv
  <2> QED  BY <2>2, <2>3
<1>2. ASSUME Undisturbed(c)'  PROVE sock'[c] /\ (Acked(c)' => copying'[c])
  <2>1. CASE Paired(c)
    <3>1. partner'[c] = partner[c] /\ partner[c] \in Conn
      BY <2>1, PartnersStay, Symmetric
    <3>2. Undisturbed(c)
      BY <1>0, <1>2, <2>1, <3>1, EndsStay DEF Undisturbed, Gone
    <3> QED  BY <1>2, <3>2, OpenSock, OpenCopies
  \* The connection has just been paired, as the one that came or that waited.
  <2>2. CASE ~Paired(c)
    <3>1. ~Acked(c)'
      BY <2>2, AckedByAckBoth DEF Acked
    <3>2. PICK d \in Conn : Join(d) /\ (c = d \/ c = waiting[IdOf[d]])
      BY <1>2, <2>2, ZenonT(30)
      DEF Undisturbed, Paired, Next, Progress, vars, tables, ReadAck, AskFails, HelloFails, Join,
          AckBoth, WaitTimeout, WaitDone, Copy, CopyEnds, RelayEnds, Dial, Send, Leave,
          CloseDone, CloseSweep
    <3>3. handler[c] \in {"hello", "waiting"}
      BY <1>0, <3>2, RelayAssumption DEF Join, WaitersWait
    <3>4. sock[c] /\ sock' = sock
      BY <1>0, <2>2, <3>2, <3>3 DEF OpenTillCause, Join
    <3> QED  BY <3>1, <3>4
  <2> QED  BY <2>1, <2>2
<1> QED  BY <1>1, <1>2

\* While the server is up, a session of two clients that stay is cut off by
\* one thing only, the timer that handleConnection leaves running.
THEOREM OnlyTimersCutOff == Spec => []CutOffByTimer
<1>1. Spec => []OpenTillCause
  BY OpenInit, OpenKept, DataInvariant, PTL DEF Spec
<1>2. ASSUME PairInv, OpenTillCause  PROVE CutOffByTimer
  <2> SUFFICES ASSUME NEW c \in Conn, server = "up", Paired(c),
                      {client[c], client[partner[c]]} = {"joined"},
                      "expired" \notin {handler[c], handler[partner[c]]}
               PROVE  sock[c] /\ sock[partner[c]]
    BY DEF CutOffByTimer
  <2>1. client[c] = "joined" /\ client[partner[c]] = "joined"
    OBVIOUS
  <2>2. partner[c] \in Conn /\ partner[partner[c]] = c /\ Paired(partner[c])
    BY <1>2, Symmetric
  <2> QED  BY <1>2, <2>1, <2>2 DEF OpenTillCause, Gone
<1> QED  BY <1>1, <1>2, PairInvariant, PTL
=============================================================================
