------------------------------ MODULE Transport ------------------------------
(***************************************************************************)
(* The QUIC transport (internal/net/transport.go): the tables of connected *)
(* peers of several transports that dial each other.                       *)
(*                                                                         *)
(* Every connection has two ends.  At each end one goroutine runs          *)
(* handleConnection (check the table, handshake, register, start the       *)
(* reader, call back) and, once registered, a second one runs              *)
(* handlePeerStreams (accept streams until the connection or the transport *)
(* ends, then removePeer).  The table holds one entry per peer, whatever   *)
(* the number of connections with it.  Close may come at any step.         *)
(***************************************************************************)
EXTENDS Naturals

CONSTANTS
  Node,        \* the transports, each with the peer ID of its certificate
  Conn,        \* connections, each dialled at most once
  Dialer,      \* who dials a connection
  Acceptor,    \* who accepts it
  Asking,      \* the transports that request chunks
  Closing,     \* the transports that may be closed
  NoConn,      \* no entry in the table
  MaxRequests, \* bound on the requests sent
  MaxFaults    \* bound on lost connections and late handshakes

ASSUME TransportAssumption ==
  /\ Dialer \in [Conn -> Node] /\ Acceptor \in [Conn -> Node]
  /\ \A c \in Conn : Dialer[c] # Acceptor[c]
  /\ Asking \subseteq Node /\ Closing \subseteq Node /\ NoConn \notin Conn
  /\ MaxRequests \in Nat /\ MaxFaults \in Nat

VARIABLES
  link,     \* a connection: not dialled yet, open or closed
  control,  \* the last message written on its control stream
  handler,  \* handleConnection at each end
  reader,   \* handlePeerStreams at each end
  peers,    \* Transport.peers: node, then peer ID, to the connection
  told,     \* the callbacks made for each end
  request,  \* RequestChunks at each end
  accepts,  \* acceptLoop runs
  ctx,      \* "open", or how far Close has got
  sent, faults \* requests and faults so far

endVars == <<handler, reader, told>>
bounds == <<sent, faults>>
transportVars == <<link, control, endVars, peers, request, accepts, ctx, bounds>>

Ends(c) == {Dialer[c], Acceptor[c]}

\* certToFingerprint: the peer ID of the other end.
PeerID(n, c) == IF n = Dialer[c] THEN Acceptor[c] ELSE Dialer[c]

\* The connection n has registered for peer p, seen from the table.
Registered(n, c) == peers[n][PeerID(n, c)] = c

HandlerStates == {"none", "check", "stream", "hello", "register", "start",
                  "notify", "done", "duplicate", "failed"}

\* Listen has started acceptLoop at every transport.
Listening == accepts = [n \in Node |-> TRUE]

TransportInit ==
  /\ Listening
  /\ link = [c \in Conn |-> "none"]
  /\ control = [c \in Conn |-> "none"]
  /\ handler = [n \in Node |-> [c \in Conn |-> "none"]]
  /\ reader = [n \in Node |-> [c \in Conn |-> "none"]]
  /\ peers = [n \in Node |-> [p \in Node |-> NoConn]]
  /\ told = [n \in Node |-> [c \in Conn |-> {}]]
  /\ request = [n \in Node |-> [c \in Conn |-> "none"]]
  /\ ctx = [n \in Node |-> "open"]
  /\ sent = 0 /\ faults = 0

Handle(n, c, s) == handler' = [handler EXCEPT ![n][c] = s]

Fault == faults < MaxFaults /\ faults' = faults + 1 /\ UNCHANGED sent

-----------------------------------------------------------------------------
(* Connect and acceptLoop *)

\* Under the lock: a peer that is in the table already is returned as it is.
\* The new connection stays open, with nobody to read from it.
Known(n, c) == IF peers[n][PeerID(n, c)] = NoConn THEN "stream" ELSE "duplicate"

Connect(c) ==
  /\ link[c] = "none"
  /\ ctx[Dialer[c]] = "open" /\ accepts[Acceptor[c]]
  /\ link' = [link EXCEPT ![c] = "open"]
  /\ Handle(Dialer[c], c, "check")
  /\ UNCHANGED <<control, reader, told, peers, request, accepts, ctx, bounds>>

\* acceptLoop starts a goroutine for the connection, which runs on its own.
Accept(c) ==
  /\ link[c] # "none"
  /\ handler[Acceptor[c]][c] = "none" /\ accepts[Acceptor[c]]
  /\ Handle(Acceptor[c], c, Known(Acceptor[c], c))
  /\ UNCHANGED <<link, control, reader, told, peers, request, accepts, ctx, bounds>>

AcceptLoopEnds(n) ==
  /\ accepts[n] /\ ctx[n] # "open"
  /\ accepts' = [accepts EXCEPT ![n] = FALSE]
  /\ UNCHANGED <<link, control, endVars, peers, request, ctx, bounds>>

-----------------------------------------------------------------------------
(* handleConnection *)

CheckKnown(c) ==
  /\ handler[Dialer[c]][c] = "check"
  /\ Handle(Dialer[c], c, Known(Dialer[c], c))
  /\ UNCHANGED <<link, control, reader, told, peers, request, accepts, ctx, bounds>>

\* The initiator opens the control stream and sends its handshake.  The stream
\* reaches the other end with its first bytes, so the responder's AcceptStream
\* returns when the handshake is there.
ControlStream(n, c) ==
  /\ handler[n][c] = "stream" /\ link[c] = "open"
  /\ IF n = Dialer[c]
       THEN control' = [control EXCEPT ![c] = "handshake"]
       ELSE control[c] = "handshake" /\ UNCHANGED control
  /\ Handle(n, c, "hello")
  /\ UNCHANGED <<link, reader, told, peers, request, accepts, ctx, bounds>>

\* A bug to avoid: the initiator does not wait for the acknowledgement.
HandshakeUnacknowledged(n, c) ==
  /\ handler[n][c] = "hello" /\ link[c] = "open"
  /\ IF n = Dialer[c]
       THEN UNCHANGED control
       ELSE control' = [control EXCEPT ![c] = "ack"]
  /\ Handle(n, c, "register")
  /\ UNCHANGED <<link, reader, told, peers, request, accepts, ctx, bounds>>

\* performHandshake: the responder acknowledges, the initiator waits for that.
Handshake(n, c) ==
  /\ handler[n][c] = "hello" /\ link[c] = "open"
  /\ IF n = Dialer[c]
       THEN control[c] = "ack" /\ UNCHANGED control
       ELSE control' = [control EXCEPT ![c] = "ack"]
  /\ Handle(n, c, "register")
  /\ UNCHANGED <<link, reader, told, peers, request, accepts, ctx, bounds>>

\* The responder returned the entry it had, gave up, or never accepts.
Unanswered(c) ==
  LET s == handler[Acceptor[c]][c] IN
    s \in {"duplicate", "failed"} \/ (s = "none" /\ ~accepts[Acceptor[c]])

\* A bug to avoid: a failed handshake takes the peer out of the table.
HandshakeFailsForPeer(n, c) ==
  /\ handler[n][c] = "hello" /\ UNCHANGED bounds
  /\ link[c] = "closed" \/ (n = Dialer[c] /\ Unanswered(c))
  /\ Handle(n, c, "failed")
  /\ link' = [link EXCEPT ![c] = "closed"]
  /\ peers' = [peers EXCEPT ![n][PeerID(n, c)] = NoConn]
  /\ UNCHANGED <<control, reader, told, request, accepts, ctx>>

\* The connection is lost, the transport is closing before the control stream
\* is there, or the ten seconds for the handshake are over: the caller closes
\* the connection.
HandshakeFails(n, c) ==
  /\ \/ handler[n][c] \in {"stream", "hello"} /\ link[c] = "closed" /\ UNCHANGED bounds
     \/ handler[n][c] = "stream" /\ ctx[n] # "open" /\ UNCHANGED bounds
     \/ handler[n][c] = "hello" /\ n = Dialer[c] /\ Unanswered(c) /\ UNCHANGED bounds
     \/ handler[n][c] = "hello" /\ Fault
  /\ Handle(n, c, "failed")
  /\ link' = [link EXCEPT ![c] = "closed"]
  /\ UNCHANGED <<control, reader, told, peers, request, accepts, ctx>>

\* A bug to avoid: the first connection is kept, and the second gets no reader.
RegisterFirst(n, c) ==
  /\ handler[n][c] = "register"
  /\ IF peers[n][PeerID(n, c)] = NoConn
       THEN /\ peers' = [peers EXCEPT ![n][PeerID(n, c)] = c]
            /\ Handle(n, c, "start")
       ELSE UNCHANGED peers /\ Handle(n, c, "notify")
  /\ UNCHANGED <<link, control, reader, told, request, accepts, ctx, bounds>>

\* The entry is overwritten if another connection got there first.
Register(n, c) ==
  /\ handler[n][c] = "register"
  /\ peers' = [peers EXCEPT ![n][PeerID(n, c)] = c]
  /\ Handle(n, c, "start")
  /\ UNCHANGED <<link, control, reader, told, request, accepts, ctx, bounds>>

\* A bug to avoid: only the transport that dialled starts a reader.
StartReaderDialed(n, c) ==
  /\ handler[n][c] = "start"
  /\ reader' = [reader EXCEPT ![n][c] = IF n = Dialer[c] THEN "reading" ELSE "none"]
  /\ Handle(n, c, "notify")
  /\ UNCHANGED <<link, control, told, peers, request, accepts, ctx, bounds>>

\* The reader is started, and counts in Transport.wg.
StartReader(n, c) ==
  /\ handler[n][c] = "start"
  /\ reader' = [reader EXCEPT ![n][c] = "reading"]
  /\ Handle(n, c, "notify")
  /\ UNCHANGED <<link, control, told, peers, request, accepts, ctx, bounds>>

\* onPeerConnected, while the reader already runs.
NotifyConnected(n, c) ==
  /\ handler[n][c] = "notify"
  /\ told' = [told EXCEPT ![n][c] = @ \cup {"connected"}]
  /\ Handle(n, c, "done")
  /\ UNCHANGED <<link, control, reader, peers, request, accepts, ctx, bounds>>

-----------------------------------------------------------------------------
(* handlePeerStreams and removePeer *)

\* Bugs to avoid: the reader does not notice that the transport is closing; or
\* it leaves without a word when its entry was taken over.
RemovePeerOnLoss(n, c) ==
  /\ reader[n][c] = "reading" /\ link[c] = "closed"
  /\ peers' = [peers EXCEPT ![n][PeerID(n, c)] = NoConn]
  /\ told' = [told EXCEPT ![n][c] = @ \cup {"disconnected"}]
  /\ reader' = [reader EXCEPT ![n][c] = "done"]
  /\ UNCHANGED <<link, control, handler, request, accepts, ctx, bounds>>

RemovePeerOwn(n, c) ==
  /\ reader[n][c] = "reading"
  /\ link[c] = "closed" \/ ctx[n] # "open"
  /\ IF Registered(n, c)
       THEN /\ peers' = [peers EXCEPT ![n][PeerID(n, c)] = NoConn]
            /\ told' = [told EXCEPT ![n][c] = @ \cup {"disconnected"}]
       ELSE UNCHANGED <<peers, told>>
  /\ reader' = [reader EXCEPT ![n][c] = "done"]
  /\ UNCHANGED <<link, control, handler, request, accepts, ctx, bounds>>

\* AcceptStream fails: the connection is gone, or the transport is closing.
\* removePeer goes by peer ID: it takes the entry out even if it is that of
\* another connection.  Then come onPeerDisconnected and wg.Done.
RemovePeer(n, c) ==
  /\ reader[n][c] = "reading"
  /\ link[c] = "closed" \/ ctx[n] # "open"
  /\ peers' = [peers EXCEPT ![n][PeerID(n, c)] = NoConn]
  /\ told' = [told EXCEPT ![n][c] = @ \cup {"disconnected"}]
  /\ reader' = [reader EXCEPT ![n][c] = "done"]
  /\ UNCHANGED <<link, control, handler, request, accepts, ctx, bounds>>

-----------------------------------------------------------------------------
(* RequestChunks, and handleStream at the other end: each request has a    *)
(* stream of its own.                                                      *)

Requested(n, c, s) ==
  /\ request' = [request EXCEPT ![n][c] = s]
  /\ UNCHANGED <<link, control, endVars, peers, accepts, ctx>>

RequestChunks(n, c) ==
  /\ n \in Asking /\ sent < MaxRequests /\ sent' = sent + 1 /\ UNCHANGED faults
  /\ handler[n][c] \in {"notify", "done"} /\ link[c] = "open"
  /\ request[n][c] = "none"
  /\ Requested(n, c, "sent")

\* The other end's reader starts handleStream for the stream.
AcceptStream(n, c) ==
  /\ request[n][c] = "sent" /\ link[c] = "open"
  /\ reader[PeerID(n, c)][c] = "reading"
  /\ Requested(n, c, "accepted") /\ UNCHANGED bounds

\* handleChunkRequest runs whatever becomes of the reader.  The callback answers
\* and RequestChunks returns; or it finds that the connection is gone.  An
\* answer that ReadEnvelope refuses is an error, but RequestChunks returns.
EndRequest(n, c) ==
  /\ \/ request[n][c] = "accepted"
     \/ request[n][c] = "sent" /\ link[c] = "closed"
  /\ Requested(n, c, "none") /\ UNCHANGED bounds

-----------------------------------------------------------------------------
(* Close, and the loss of a connection *)

CloseCancels(n) ==
  /\ n \in Closing /\ ctx[n] = "open"
  /\ ctx' = [ctx EXCEPT ![n] = "cancelled"]
  /\ UNCHANGED <<link, control, endVars, peers, request, accepts, bounds>>

\* The connections in the table are closed, and no others.
CloseSweeps(n) ==
  /\ ctx[n] = "cancelled"
  /\ ctx' = [ctx EXCEPT ![n] = "waiting"]
  /\ link' = [c \in Conn |-> IF \E p \in Node : peers[n][p] = c THEN "closed" ELSE link[c]]
  /\ UNCHANGED <<control, endVars, peers, request, accepts, bounds>>

\* wg.Wait covers acceptLoop and the readers, not the handlers.
CloseReturns(n) ==
  /\ ctx[n] = "waiting"
  /\ ~accepts[n] /\ \A c \in Conn : reader[n][c] # "reading"
  /\ ctx' = [ctx EXCEPT ![n] = "closed"]
  /\ UNCHANGED <<link, control, endVars, peers, request, accepts, bounds>>

LinkLost(c) ==
  /\ link[c] = "open"
  /\ Fault
  /\ link' = [link EXCEPT ![c] = "closed"]
  /\ UNCHANGED <<control, endVars, peers, request, accepts, ctx>>

-----------------------------------------------------------------------------

HandlerStep(n, c) ==
  \/ ControlStream(n, c) \/ Handshake(n, c)
  \/ HandshakeFails(n, c)
  \/ Register(n, c) \/ StartReader(n, c) \/ NotifyConnected(n, c)

StreamStep(n, c) ==
  AcceptStream(n, c) \/ EndRequest(n, c)

CloseStep(n) == AcceptLoopEnds(n) \/ CloseSweeps(n) \/ CloseReturns(n)

\* What goes on by itself once it has begun.
Progress ==
  \/ \E c \in Conn :
       \/ CheckKnown(c) \/ Accept(c)
       \/ \E n \in Ends(c) :
            HandlerStep(n, c) \/ RemovePeer(n, c) \/ StreamStep(n, c)
  \/ \E n \in Node : CloseStep(n)

\* What users and the network do.
Environment ==
  \/ \E c \in Conn :
       \/ Connect(c) \/ LinkLost(c)
       \/ \E n \in Ends(c) : RequestChunks(n, c)
  \/ \E n \in Node : CloseCancels(n)

TransportNext == Progress \/ Environment

TransportSpec == TransportInit /\ [][TransportNext]_transportVars

\* The goroutines do not stop before they have nothing to do.  No step repeats
\* forever, so that gives each of them its turns.
FairTransportSpec == TransportSpec /\ WF_transportVars(Progress)

-----------------------------------------------------------------------------
(* Properties *)

TransportTypeOK ==
  /\ link \in [Conn -> {"none", "open", "closed"}]
  /\ control \in [Conn -> {"none", "handshake", "ack"}]
  /\ handler \in [Node -> [Conn -> HandlerStates]]
  /\ reader \in [Node -> [Conn -> {"none", "reading", "done"}]]
  /\ peers \in [Node -> [Node -> Conn \cup {NoConn}]]
  /\ told \in [Node -> [Conn -> SUBSET {"connected", "disconnected"}]]
  /\ request \in [Node -> [Conn -> {"none", "sent", "accepted"}]]
  /\ accepts \in [Node -> BOOLEAN]
  /\ ctx \in [Node -> {"open", "cancelled", "waiting", "closed"}]
  /\ sent \in 0..MaxRequests /\ faults \in 0..MaxFaults

\* No entry is left behind: whatever connections with a peer overlap, fail or
\* are swept by Close, an entry of Transport.peers is that of a connection with
\* this peer whose handler is about to start the reader, or whose reader runs
\* and will remove it.
EntriesHaveReaders ==
  \A n, p \in Node : LET c == peers[n][p] IN
    c # NoConn =>
      /\ n \in Ends(c) /\ p = PeerID(n, c)
      /\ reader[n][c] = "reading" \/ handler[n][c] = "start"

\* The handshake is over and was answered.
Answered == {"register", "start", "notify", "done"}

\* The two ends agree: the transport that dialled registers a peer only after
\* the other one has acknowledged, and so is past its check of the table and
\* registers the same connection.
DialerIsKnown ==
  \A c \in Conn :
    handler[Dialer[c]][c] \in Answered =>
      handler[Acceptor[c]][c] \in Answered

\* Nothing failed and nobody called Close.
Undisturbed == faults = 0 /\ \A n \in Node : ctx[n] = "open"

\* Dialling each other at the same moment does no harm by itself: while no
\* connection is lost and no handshake is late, a peer that is in the table
\* stays there, although the handshake of a surplus connection is left
\* unanswered and that connection is closed by its dialer.
PeersStayListed ==
  [][\A n, p \in Node :
       Undisturbed' /\ peers[n][p] # NoConn => peers'[n][p] # NoConn]_transportVars

\* Close returns: no reader stays blocked in AcceptStream, and none is started
\* so late that wg.Wait would wait for it forever.
CloseEnds == []<>(\A n \in Node : ctx[n] \in {"open", "closed"})

\* A lost connection is reported: whoever was told that a peer connected, or
\* is yet to be told, is told that it disconnected; the two calls may come in
\* either order.
LossIsReported ==
  []<>(\A c \in Conn : \A n \in Ends(c) :
         link[c] = "closed" /\ reader[n][c] # "none" =>
           told[n][c] = {"connected", "disconnected"})

\* RequestChunks returns: the request is answered, or the connection is found
\* to be lost, unless the other transport closes.
RequestsEnd ==
  []<>(\A c \in Conn : \A n \in Ends(c) :
         request[n][c] = "none" \/ ctx[PeerID(n, c)] # "open")

\* What Transport.Peers promises: while a connection with a peer is open and
\* its streams are served, the peer is in the table.
PeersListsConnected ==
  \A c \in Conn : \A n \in Ends(c) :
    reader[n][c] = "reading" /\ link[c] = "open" =>
      peers[n][PeerID(n, c)] # NoConn
=============================================================================
