----------------------------- MODULE MCSyncStore -----------------------------
(* The root, a directory, its child and a sibling, reserved under three    *)
(* ids by clients that call whatever they like.                            *)
EXTENDS SyncStore
CONSTANTS a, b
MCPath == {<< >>, <<a>>, <<a, b>>, <<b>>}
Symmetric == Permutations(Id)
=============================================================================
