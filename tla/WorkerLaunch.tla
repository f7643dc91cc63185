----------------------------- MODULE WorkerLaunch -----------------------------
(***************************************************************************)
(* What a launch promises, and all that SyncSystem's Launch and            *)
(* LaunchFails assume of it: at most one worker is started, success is     *)
(* reported of one that was, and an error says nothing: the worker may     *)
(* have been started, or may be later.                                     *)
(***************************************************************************)
EXTENDS Naturals

VARIABLES started, outcome

Init == started = 0 /\ outcome = "none"

Start ==
  /\ started = 0 /\ outcome # "ok"
  /\ started' = 1
  /\ UNCHANGED outcome

Return ==
  /\ outcome = "none"
  /\ outcome' = "error" \/ (outcome' = "ok" /\ started = 1)
  /\ UNCHANGED started

(* A local process is there when Start returns.                            *)
StartAndReturn ==
  /\ started = 0 /\ outcome = "none"
  /\ started' = 1 /\ outcome' = "ok"

Next == Start \/ Return \/ StartAndReturn

Spec == Init /\ [][Next]_<<started, outcome>>
=============================================================================
