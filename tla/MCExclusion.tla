----------------------------- MODULE MCExclusion -----------------------------
(* Two requests, each a sync or a removal, for a directory and its child.  *)
EXTENDS SyncSystem
CONSTANTS a, b
MCPath == {<<a>>, <<a, b>>}
Symmetric == Permutations(Id) \cup Permutations(Worker)
=============================================================================
