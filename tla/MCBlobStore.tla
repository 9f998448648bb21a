----------------------------- MODULE MCBlobStore -----------------------------
(* Instances of BlobStore for TLC. *)
EXTENDS BlobStore

CONSTANTS p1, p2, t1, t2, t3

\* Two or three goroutines of one process: one BlobStore, one mutex.
OneProcess == [t \in Thread |-> p1]

\* A "serve" and a "sync" process on the same directory.
TwoProcesses == [t \in Thread |-> IF t = t1 THEN p1 ELSE p2]
=============================================================================
