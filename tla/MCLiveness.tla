----------------------------- MODULE MCLiveness -----------------------------
(* One reservation and two processes that may be started for it, with any  *)
(* one fault, under fairness.                                              *)
EXTENDS SyncSystem
CONSTANT a
MCPath == {<<a>>}
AllFaults == {"unreachable", "lost", "launch", "duplicate", "sigterm", "crash"}
=============================================================================
