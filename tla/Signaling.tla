------------------------------ MODULE Signaling ------------------------------
(***************************************************************************)
(* The signaling server (internal/nat/signaling.go), as one peer ID sees   *)
(* it: its entry in the table, and the clients that look it up.  Time is   *)
(* counted in parts of the cleanup period.                                 *)
(***************************************************************************)
EXTENDS Naturals

CONSTANTS
  Period,   \* the cleanup period, PeerEntryExpiry / 2
  Looker,   \* clients that look the peer up
  NoEntry,
  MaxTime   \* bound on the time

ASSUME SignalingAssumption == Period \in Nat \ {0} /\ MaxTime \in Nat

VARIABLES
  now,
  entry,   \* peers[id]: the addresses and LastSeen, or NoEntry
  lookup,  \* where each client's LookupPeer is
  found,   \* what the server read for it, then what it got
  readAt   \* history: when the server read it

signalVars == <<now, entry, lookup, found, readAt>>

PeerEntryExpiry == 2 * Period

SignalInit ==
  /\ now = 0 /\ entry = NoEntry
  /\ lookup = [l \in Looker |-> "none"]
  /\ found = [l \in Looker |-> NoEntry]
  /\ readAt = [l \in Looker |-> 0]

\* A bug to avoid: a peer that is known only has its public address updated.
HandleRegisterAgain(pub, local) ==
  /\ entry' = IF entry = NoEntry THEN [pub |-> pub, local |-> local, seen |-> now]
              ELSE [entry EXCEPT !.pub = pub, !.seen = now]
  /\ UNCHANGED <<now, lookup, found, readAt>>

\* The entry is replaced as a whole.
HandleRegister(pub, local) ==
  /\ entry' = [pub |-> pub, local |-> local, seen |-> now]
  /\ UNCHANGED <<now, lookup, found, readAt>>

\* handlePeerRequest reads the entry under the lock, however old it is ...
HandlePeerRequest(l) ==
  /\ lookup[l] = "none"
  /\ lookup' = [lookup EXCEPT ![l] = "read"]
  /\ found' = [found EXCEPT ![l] = entry]
  /\ readAt' = [readAt EXCEPT ![l] = now]
  /\ UNCHANGED <<now, entry>>

\* ... and sends it after unlocking; or the client gives up.
SendPeerResponse(l) ==
  /\ lookup[l] = "read"
  /\ \/ /\ lookup' = [lookup EXCEPT ![l] = IF found[l] = NoEntry THEN "failed" ELSE "found"]
        /\ UNCHANGED found
     \/ /\ lookup' = [lookup EXCEPT ![l] = "failed"]
        /\ found' = [found EXCEPT ![l] = NoEntry]
  /\ UNCHANGED <<now, entry, readAt>>

\* A bug to avoid: an entry needs two expiries.
CleanupLate(t) ==
  IF t % Period = 0 /\ entry # NoEntry /\ t - entry.seen > 2 * PeerEntryExpiry
    THEN NoEntry ELSE entry

\* cleanupExpiredPeers: what is left of the entry at time t.
Cleanup(t) ==
  IF t % Period = 0 /\ entry # NoEntry /\ t - entry.seen > PeerEntryExpiry
    THEN NoEntry ELSE entry

Tick ==
  /\ now < MaxTime
  /\ now' = now + 1
  /\ entry' = Cleanup(now')
  /\ UNCHANGED <<lookup, found, readAt>>

\* The server is closed and started again: the table was in its memory.
Restart ==
  /\ entry # NoEntry
  /\ entry' = NoEntry
  /\ UNCHANGED <<now, lookup, found, readAt>>

-----------------------------------------------------------------------------

\* No client is given an entry that outlived its expiry by a cleanup period or
\* more: LookupPeer does not look at LastSeen, so the ticker alone decides.
FoundIsRecent ==
  \A l \in Looker :
    lookup[l] = "found" => readAt[l] - found[l].seen < PeerEntryExpiry + Period
=============================================================================
