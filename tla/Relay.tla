-------------------------------- MODULE Relay --------------------------------
(***************************************************************************)
(* The TCP relay (internal/nat/relay.go): RelayServer pairs the clients    *)
(* that name the same session and copies bytes between them; RelayClient   *)
(* joins a session.                                                        *)
(*                                                                         *)
(* The first client of a session is put into the waiting table, and its    *)
(* handler waits for its timer or for the server to close.  The handler of *)
(* the second one takes it out, acknowledges both and copies in both       *)
(* directions until both copies end.  Nobody tells the first handler.      *)
(***************************************************************************)
EXTENDS Naturals, Sequences, Functions

CONSTANTS
  Conn,      \* client connections, each dialled at most once
  SessionID, \* session IDs
  IdOf,      \* the session a client asks for
  NoConn,
  MaxData    \* bound on the data clients send, all together

ASSUME RelayAssumption ==
  /\ IdOf \in [Conn -> SessionID] /\ NoConn \notin Conn /\ MaxData \in Nat
  /\ {"ack", "error"} \cap Conn = {}

VARIABLES
  client,   \* RelayClient: Connect and the connection it returned
  handler,  \* handleConnection for a connection
  sock,     \* the server's end of the connection is open
  out,      \* what the client has sent and the server has not read
  inbox,    \* what the server has sent and the client has not read
  waiting,  \* RelayServer.waiting
  sessions, \* RelayServer.sessions: ID to the second peer of the session
  partner,  \* the other end of a connection's RelaySession
  copying,  \* copyWithHeader runs with this connection as its source
  server,   \* "up", or how far Close has got
  sent      \* data sent so far

tables == <<waiting, sessions, partner>>
vars == <<client, handler, sock, out, inbox, tables, copying, server, sent>>

Paired(c) == partner[c] # NoConn
\* The client has closed its end.
Gone(c) == client[c] \in {"failed", "left"}

Init ==
  /\ client = [c \in Conn |-> "none"]
  /\ handler = [c \in Conn |-> "none"]
  /\ sock = [c \in Conn |-> FALSE]
  /\ out = [c \in Conn |-> <<>>] /\ inbox = [c \in Conn |-> <<>>]
  /\ waiting = [i \in SessionID |-> NoConn]
  /\ sessions = [i \in SessionID |-> NoConn]
  /\ partner = [c \in Conn |-> NoConn]
  /\ copying = [c \in Conn |-> FALSE]
  /\ server = "up" /\ sent = 0

-----------------------------------------------------------------------------
(* RelayClient *)

\* acceptLoop starts the handler of a new connection.
AcceptConn(c) ==
  /\ server = "up"
  /\ handler' = [handler EXCEPT ![c] = "hello"]
  /\ sock' = [sock EXCEPT ![c] = TRUE]

\* Connect dials and sends its request.
Dial(c) ==
  /\ client[c] = "none"
  /\ client' = [client EXCEPT ![c] = "asking"]
  /\ AcceptConn(c)
  /\ UNCHANGED <<out, inbox, tables, copying, server, sent>>

\* Connect reads the answer: only an acknowledgement makes it succeed.
ReadAck(c) ==
  /\ client[c] = "asking" /\ inbox[c] # <<>>
  /\ client' = [client EXCEPT ![c] = IF Head(inbox[c]) = "ack" THEN "joined" ELSE "failed"]
  /\ inbox' = [inbox EXCEPT ![c] = Tail(@)]
  /\ UNCHANGED <<handler, sock, out, tables, copying, server, sent>>

\* No answer: the server closed the connection, or the deadline has passed.
AskFails(c) ==
  /\ client[c] = "asking"
  /\ client' = [client EXCEPT ![c] = "failed"]
  /\ UNCHANGED <<handler, sock, out, inbox, tables, copying, server, sent>>

Send(c) ==
  /\ client[c] = "joined" /\ sent < MaxData
  /\ sent' = sent + 1
  /\ out' = [out EXCEPT ![c] = Append(@, c)]
  /\ UNCHANGED <<client, handler, sock, inbox, tables, copying, server>>

Leave(c) ==
  /\ client[c] = "joined"
  /\ client' = [client EXCEPT ![c] = "left"]
  /\ UNCHANGED <<handler, sock, out, inbox, tables, copying, server, sent>>

-----------------------------------------------------------------------------
(* RelayServer.handleConnection *)

\* The request does not arrive, or it is not one.
HelloFails(c) ==
  /\ handler[c] = "hello"
  /\ sock' = [sock EXCEPT ![c] = FALSE]
  /\ handler' = [handler EXCEPT ![c] = "done"]
  /\ UNCHANGED <<client, out, inbox, tables, copying, server, sent>>

\* A bug to avoid: the first peer stays in the waiting table.
JoinKeepsWaiting(c) ==
  LET i == IdOf[c]  w == waiting[i] IN
  /\ handler[c] = "hello"
  /\ IF w = NoConn
       THEN /\ waiting' = [waiting EXCEPT ![i] = c]
            /\ handler' = [handler EXCEPT ![c] = "waiting"]
            /\ UNCHANGED <<sessions, partner>>
       ELSE /\ UNCHANGED waiting
            /\ sessions' = [sessions EXCEPT ![i] = c]
            /\ partner' = [partner EXCEPT ![c] = w, ![w] = c]
            /\ handler' = [handler EXCEPT ![c] = "acking"]
  /\ UNCHANGED <<client, sock, out, inbox, copying, server, sent>>

\* The request has been read.  Under the lock: pair with the client that waits
\* for this session, or wait.  A client that has gone by now is not noticed.
Join(c) ==
  LET i == IdOf[c]  w == waiting[i] IN
  /\ handler[c] = "hello"
  /\ IF w = NoConn
       THEN /\ waiting' = [waiting EXCEPT ![i] = c]
            /\ handler' = [handler EXCEPT ![c] = "waiting"]
            /\ UNCHANGED <<sessions, partner>>
       ELSE /\ waiting' = [waiting EXCEPT ![i] = NoConn]
            /\ sessions' = [sessions EXCEPT ![i] = c]
            /\ partner' = [partner EXCEPT ![c] = w, ![w] = c]
            /\ handler' = [handler EXCEPT ![c] = "acking"]
  /\ UNCHANGED <<client, sock, out, inbox, copying, server, sent>>

\* A write to a connection that the server has closed is lost.
Write(box, c, m) == IF sock[c] THEN [box EXCEPT ![c] = Append(@, m)] ELSE box

\* A bug to avoid: one direction only.
AckBothCopyOne(c) ==
  /\ handler[c] = "acking"
  /\ inbox' = Write(Write(inbox, partner[c], "ack"), c, "ack")
  /\ copying' = [copying EXCEPT ![c] = TRUE]
  /\ handler' = [handler EXCEPT ![c] = "relaying"]
  /\ UNCHANGED <<client, sock, out, tables, server, sent>>

\* Both peers are acknowledged and lose their deadlines; the copies start.
AckBoth(c) ==
  /\ handler[c] = "acking"
  /\ inbox' = Write(Write(inbox, partner[c], "ack"), c, "ack")
  /\ copying' = [copying EXCEPT ![c] = TRUE, ![partner[c]] = TRUE]
  /\ handler' = [handler EXCEPT ![c] = "relaying"]
  /\ UNCHANGED <<client, sock, out, tables, server, sent>>

\* The acknowledgement has been sent, and the deadline with it been lifted.
Acked(c) == Paired(c) /\ {handler[c], handler[partner[c]]} \cap {"hello", "acking"} = {}

\* The first peer's timer, which runs whether or not it was paired: whoever is
\* in the waiting table for this session goes.  The deadline of a connection
\* that was not acknowledged is over before its timer, so that the error is
\* only written to one that was; and the deferred Close closes the connection.
WaitTimeout(c) ==
  /\ handler[c] = "waiting"
  /\ waiting' = [waiting EXCEPT ![IdOf[c]] = NoConn]
  /\ inbox' = IF Acked(c) THEN Write(inbox, c, "error") ELSE inbox
  /\ sock' = [sock EXCEPT ![c] = FALSE]
  /\ handler' = [handler EXCEPT ![c] = "expired"]
  /\ UNCHANGED <<client, out, sessions, partner, copying, server, sent>>

\* The server is closing: the waiting handler returns.
WaitDone(c) ==
  /\ handler[c] = "waiting" /\ server # "up"
  /\ sock' = [sock EXCEPT ![c] = FALSE]
  /\ handler' = [handler EXCEPT ![c] = "done"]
  /\ UNCHANGED <<client, out, inbox, tables, copying, server, sent>>

-----------------------------------------------------------------------------
(* relay and copyWithHeader *)

\* A bug to avoid: data goes to whoever waits for the session now.
CopyToSession(c) ==
  LET d == IF waiting[IdOf[c]] = NoConn THEN partner[c] ELSE waiting[IdOf[c]] IN
  /\ copying[c] /\ sock[c] /\ out[c] # <<>> /\ sock[d]
  /\ inbox' = [inbox EXCEPT ![d] = Append(@, Head(out[c]))]
  /\ out' = [out EXCEPT ![c] = Tail(@)]
  /\ UNCHANGED <<client, handler, sock, tables, copying, server, sent>>

\* What the connection sent goes to its partner, which may have left.
Copy(c) ==
  LET d == partner[c] IN
  /\ copying[c] /\ sock[c] /\ out[c] # <<>> /\ sock[d]
  /\ inbox' = [inbox EXCEPT ![d] = Append(@, Head(out[c]))]
  /\ out' = [out EXCEPT ![c] = Tail(@)]
  /\ UNCHANGED <<client, handler, sock, tables, copying, server, sent>>

\* Bugs to avoid: the deadline of the request still holds; or a client that has
\* left is taken for one that has nothing to say.
CopyEndsAnytime(c) ==
  /\ copying[c]
  /\ copying' = [copying EXCEPT ![c] = FALSE]
  /\ out' = [out EXCEPT ![c] = <<>>]
  /\ UNCHANGED <<client, handler, sock, inbox, tables, server, sent>>

CopyEndsOnWrite(c) ==
  /\ copying[c]
  /\ ~sock[c] \/ (out[c] # <<>> /\ (~sock[partner[c]] \/ Gone(partner[c])))
  /\ copying' = [copying EXCEPT ![c] = FALSE]
  /\ out' = [out EXCEPT ![c] = <<>>]
  /\ UNCHANGED <<client, handler, sock, inbox, tables, server, sent>>

\* Read fails when the client has left or the server has closed the
\* connection; Write fails when the partner's connection is closed, or when
\* its client has left and the network says so.
CopyEnds(c) ==
  /\ copying[c]
  /\ \/ ~sock[c]
     \/ Gone(c) /\ out[c] = <<>>
     \/ out[c] # <<>> /\ (~sock[partner[c]] \/ Gone(partner[c]))
  /\ copying' = [copying EXCEPT ![c] = FALSE]
  /\ out' = [out EXCEPT ![c] = <<>>]
  /\ UNCHANGED <<client, handler, sock, inbox, tables, server, sent>>

\* RelaySession.Close: both peers of the session.
CloseSession(c) == [sock EXCEPT ![c] = FALSE, ![partner[c]] = FALSE]

\* Both copies have ended.  Whatever session has the ID by now leaves the table.
RelayEnds(c) ==
  /\ handler[c] = "relaying" /\ ~copying[c] /\ ~copying[partner[c]]
  /\ sessions' = [sessions EXCEPT ![IdOf[c]] = NoConn]
  /\ sock' = CloseSession(c)
  /\ handler' = [handler EXCEPT ![c] = "done"]
  /\ UNCHANGED <<client, out, inbox, waiting, partner, copying, server, sent>>

-----------------------------------------------------------------------------
(* RelayServer.Close *)

\* The done channel and the listener are closed and acceptLoop returns; then
\* the sessions and the waiting connections in the tables are closed.
CloseDone ==
  /\ server = "up"
  /\ server' = "closing"
  /\ UNCHANGED <<client, handler, sock, out, inbox, tables, copying, sent>>

CloseSweep ==
  LET swept == {waiting[i] : i \in SessionID} \cup
               UNION {{sessions[i], partner[sessions[i]]} :
                      i \in {j \in SessionID : sessions[j] # NoConn}} IN
  /\ server = "closing"
  /\ server' = "closed"
  /\ sock' = [c \in Conn |-> sock[c] /\ c \notin swept]
  /\ UNCHANGED <<client, handler, out, inbox, tables, copying, sent>>

-----------------------------------------------------------------------------

\* What happens without anybody's doing, but for the timer of a connection that
\* was paired: nothing below depends on that.
Progress ==
  \/ \E c \in Conn :
       \/ ReadAck(c) \/ AskFails(c) \/ HelloFails(c) \/ Join(c) \/ AckBoth(c)
       \/ (~Paired(c) /\ WaitTimeout(c)) \/ WaitDone(c)
       \/ Copy(c) \/ CopyEnds(c) \/ RelayEnds(c)
  \/ CloseSweep

Next ==
  \/ Progress
  \/ \E c \in Conn : Dial(c) \/ Send(c) \/ Leave(c) \/ WaitTimeout(c)
  \/ CloseDone

Spec == Init /\ [][Next]_vars

\* Handlers, copies, timers and Connect run; none of their steps repeats
\* forever.  Clients need not dial, send or leave.
FairSpec == Spec /\ WF_vars(Progress)

-----------------------------------------------------------------------------
(* Properties *)

TypeOK ==
  /\ client \in [Conn -> {"none", "asking", "joined", "failed", "left"}]
  /\ handler \in [Conn -> {"none", "hello", "waiting", "acking", "relaying",
                       "expired", "done"}]
  /\ sock \in [Conn -> BOOLEAN]
  /\ out \in [Conn -> Seq(Conn)]
  /\ inbox \in [Conn -> Seq(Conn \cup {"ack", "error"})]
  /\ waiting \in [SessionID -> Conn \cup {NoConn}]
  /\ sessions \in [SessionID -> Conn \cup {NoConn}]
  /\ partner \in [Conn -> Conn \cup {NoConn}]
  /\ copying \in [Conn -> BOOLEAN]
  /\ server \in {"up", "closing", "closed"}
  /\ sent \in 0..MaxData

\* A client is in at most one session, with one other client that named the
\* same ID; a session in the table has both its peers; and nobody is offered
\* to a newcomer who has a partner already.
PairsAreExclusive ==
  /\ \A c \in Conn : Paired(c) =>
       /\ partner[c] # c /\ partner[partner[c]] = c
       /\ IdOf[partner[c]] = IdOf[c]
  /\ \A i \in SessionID :
       /\ sessions[i] # NoConn => Paired(sessions[i]) /\ IdOf[sessions[i]] = i
       /\ waiting[i] # NoConn => ~Paired(waiting[i]) /\ IdOf[waiting[i]] = i

\* Clients only get what their partner sent: the relay never hands one
\* session's bytes to another, even when the same ID is used again.  And the
\* acknowledgement comes first: RelayClient.Connect never takes a peer's data,
\* or an error, for the answer to its request.
DataFromPartner ==
  \A c \in Conn :
    /\ \A m \in Range(inbox[c]) : m \in Conn => m = partner[c]
    /\ client[c] = "asking" /\ inbox[c] # <<>> => Head(inbox[c]) = "ack"

\* Two clients that both stay are cut off for one reason only while the server
\* is up: the timer of the one that came first, which pairing did not stop.
CutOffByTimer ==
  \A c \in Conn :
    server = "up" /\ Paired(c) /\ {client[c], client[partner[c]]} = {"joined"} =>
      (sock[c] /\ sock[partner[c]]) \/ "expired" \in {handler[c], handler[partner[c]]}

\* Nothing is leaked: when both clients of a session have gone, or one that was
\* never paired, the server closes its ends of the connections.
SessionsAreFreed ==
  []<>(\A c \in Conn :
         Gone(c) /\ (Paired(c) => Gone(partner[c])) => ~sock[c])

\* What clients send is passed on, unless an end of the session is gone.
DataIsRelayed ==
  []<>(\A c \in Conn :
         out[c] # <<>> => ~sock[c] \/ ~sock[partner[c]] \/ Gone(partner[c]))

\* handleConnection waits "for pairing or timeout": two clients that were paired
\* in time and both stay are not cut off while the server is up.
SessionLasts ==
  \A c \in Conn :
    server = "up" /\ Paired(c) /\ {client[c], client[partner[c]]} = {"joined"} =>
      sock[c] /\ sock[partner[c]]
=============================================================================
