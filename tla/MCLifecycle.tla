----------------------------- MODULE MCLifecycle -----------------------------
(* One reservation and two processes that may be started for it, with any  *)
(* two faults.                                                             *)
EXTENDS SyncSystem
CONSTANT a
MCPath == {<<a>>}
AllFaults == {"unreachable", "lost", "launch", "duplicate", "sigterm", "crash"}
Symmetric == Permutations(Worker)
=============================================================================
