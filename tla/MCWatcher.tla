----------------------------- MODULE MCWatcher -----------------------------
(* A file at the root and one in a directory that is made later. *)
EXTENDS Watcher, TLC

CONSTANTS f, g, root, sub

\* Two chunks in a later second, or one chunk or none in the same.
MCWrites == {<<3, 1>>, <<1, 0>>, <<0, 0>>}

MCDirOf == f :> root @@ g :> sub
=============================================================================
