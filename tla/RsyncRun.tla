------------------------------- MODULE RsyncRun -------------------------------
(***************************************************************************)
(* What a run of rsync is to the worker that starts it: it ends by itself  *)
(* or, once the context is cancelled, within KillGrace; startSync returns  *)
(* after it has ended, and with the cancellation rather than its exit.     *)
(* RsyncProcess keeps this with goroutines, signals and a process group;   *)
(* SyncWorker is built on it.                                              *)
(***************************************************************************)
EXTENDS Naturals

CONSTANT KillGrace

VARIABLES phase,        \* off, run, exited, returned, over or lost
          stop,         \* the context is cancelled
          left,         \* what a cancelled rsync has left of its grace
          exit,         \* how it ended
          result        \* what startSync returned

vars == <<phase, stop, left, exit, result>>

(* The run is to come, or cmd.Start has succeeded.                         *)
Init ==
  /\ phase \in {"off", "run"}
  /\ stop \in BOOLEAN
  /\ left = IF phase = "run" THEN KillGrace ELSE 0
  /\ exit = "none" /\ result = "none"

Start ==
  /\ phase = "off" /\ phase' = "run" /\ left' = KillGrace
  /\ UNCHANGED <<stop, exit, result>>

Cancel == stop' = TRUE /\ UNCHANGED <<phase, left, exit, result>>

Exits ==
  /\ phase = "run" /\ phase' = "exited" /\ left' = 0
  /\ exit' \in {"ok", "fail"}
  /\ UNCHANGED <<stop, result>>

Returns ==
  /\ phase = "exited" /\ phase' = "returned"
  /\ result' = IF stop THEN "canceled" ELSE exit
  /\ UNCHANGED <<stop, left, exit>>

(* A cancelled rsync has no second more than KillGrace.                    *)
Second ==
  /\ phase = "run" /\ stop /\ left > 0 /\ left' = left - 1
  /\ UNCHANGED <<phase, stop, exit, result>>

(* The worker is done with the result, or is killed and waits no more.     *)
Leave(p) ==
  /\ phase' = p /\ left' = 0 /\ exit' = "none" /\ result' = "none"
  /\ UNCHANGED stop

Over == phase = "returned" /\ Leave("over")

Killed == phase # "lost" /\ Leave("lost")

Next == Start \/ Cancel \/ Exits \/ Returns \/ Second \/ Over \/ Killed

Spec == Init /\ [][Next]_vars
=============================================================================
