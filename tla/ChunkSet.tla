------------------------------ MODULE ChunkSet ------------------------------
(***************************************************************************)
(* What the content-addressed store promises its callers: a set of chunks  *)
(* with atomic operations.  A stored chunk is its hash, since the hash     *)
(* determines the bytes.                                                   *)
(***************************************************************************)
CONSTANTS Thread, Hash

VARIABLES
  stored,  \* the chunks in the store
  arg,     \* the chunk a thread's current or last call is about
  ret      \* the result of a thread's last call, "none" while it runs

vars == <<stored, arg, ret>>

Init ==
  /\ stored = {}
  /\ arg \in [Thread -> Hash]
  /\ ret = [t \in Thread |-> "none"]

Begin(t, h) ==
  /\ arg' = [arg EXCEPT ![t] = h]
  /\ ret' = [ret EXCEPT ![t] = "none"]
  /\ UNCHANGED stored

\* Put ends: "new" if this call added the chunk, "exists" if it was there.
Put(t) ==
  /\ ret[t] = "none"
  /\ ret' = [ret EXCEPT ![t] = IF arg[t] \in stored THEN "exists" ELSE "new"]
  /\ stored' = stored \cup {arg[t]}
  /\ UNCHANGED arg

\* An operation fails without effect.
Fail(t) ==
  /\ ret[t] = "none"
  /\ ret' = [ret EXCEPT ![t] = "error"]
  /\ UNCHANGED <<stored, arg>>

\* Get, Has and Verify find the chunk, which is never damaged, or do not.
Lookup(t, h) ==
  /\ arg' = [arg EXCEPT ![t] = h]
  /\ \E result \in IF h \in stored THEN {"data", "present", "valid"}
                                   ELSE {"absent"} :
       ret' = [ret EXCEPT ![t] = result]
  /\ UNCHANGED stored

Delete(t, h) ==
  /\ stored' = stored \ {h}
  /\ arg' = [arg EXCEPT ![t] = h]
  /\ ret' = [ret EXCEPT ![t] = "deleted"]

\* VerifyAll ends.
Finish(t) ==
  /\ ret[t] = "none"
  /\ ret' = [ret EXCEPT ![t] = "walked"]
  /\ UNCHANGED <<stored, arg>>

\* The callers in T die without an answer; the store is as it was.
Crash(T) ==
  /\ ret' = [t \in Thread |-> IF t \in T THEN "none" ELSE ret[t]]
  /\ UNCHANGED <<stored, arg>>

Next ==
  \/ \E t \in Thread : \/ \E h \in Hash : Begin(t, h) \/ Lookup(t, h) \/ Delete(t, h)
                       \/ Put(t) \/ Fail(t) \/ Finish(t)
  \/ \E T \in SUBSET Thread : Crash(T)

Spec == Init /\ [][Next]_vars
=============================================================================
