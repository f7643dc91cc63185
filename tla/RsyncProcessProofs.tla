-------------------------- MODULE RsyncProcessProofs --------------------------
(* What startSync promises, whatever the group and the grace period.       *)
EXTENDS RsyncProcess, TLAPS

(* The order in which the goroutines finish: Wait returns only for an      *)
(* empty group, nobody joins a group again, startSync returns after both   *)
(* goroutines, and signals are sent for a cancelled context only.          *)
Handover ==
  /\ waiter # "wait" => group = {}
  /\ caller # "waitResult" => waiter = "done"
  /\ caller = "returned" => watcher = "done"
  /\ watcher \in {"recheck", "term", "timer"} => ctx
  /\ signalled # "none" => ctx
  /\ caller = "returned" /\ signalled # "none" => result = "canceled"

(* While the context is cancelled the watcher's clock is ahead of the time *)
(* that has passed; when it is done, the group is gone.                    *)
Clock ==
  /\ watcher # "timer" /\ watcher # "done" => timer = KillGrace
  /\ watcher \in {"select", "recheck", "term"} => since = 0
  /\ watcher = "timer" => since + timer <= KillGrace
  /\ watcher = "done" => group = {}

(* The inductive invariant.                                                *)
IInv == ProcessTypeOK /\ Handover /\ Clock

(* It holds before rsync is started.                                       *)
LEMMA InitIInv == Init => IInv
BY ProcessAssumption DEF Init, IInv, ProcessTypeOK, Handover, Clock, Process

(* Every step of rsync, its group and the watcher keeps it.                *)
LEMMA NextIInv == IInv /\ [Next]_vars => IInv'
<1> SUFFICES ASSUME IInv, [Next]_vars PROVE IInv'
  OBVIOUS
<1> USE ProcessAssumption DEF IInv, ProcessTypeOK, Handover, Clock
<1>1. ASSUME NEW p \in Process, NEW r \in {"ok", "fail"}, ProcessExits(p, r)
      PROVE  IInv'
  BY <1>1 DEF ProcessExits
<1>2. CASE Cancel
  BY <1>2 DEF Cancel
<1>3. CASE Waiter
  BY <1>3 DEF Waiter, WaitReturns
<1>4. CASE WatcherSeesExit
  BY <1>4 DEF WatcherSeesExit, processDone
<1>5. CASE WatcherSeesCancel
  BY <1>5 DEF WatcherSeesCancel
<1>6. CASE SignalTerm
  BY <1>6 DEF SignalTerm
<1>7. CASE SignalKill
  <2>1. group' = {}
    BY <1>7 DEF SignalKill, Killed
  <2>2. QED
    BY <1>7, <2>1 DEF SignalKill
<1>8. CASE Caller
  BY <1>8 DEF Caller, WatcherJoined, Returned
<1>9. CASE Second
  BY <1>9 DEF Second, TimerFired
<1>10. CASE UNCHANGED vars
  BY <1>10 DEF vars
<1>11. QED
  BY <1>1, <1>2, <1>3, <1>4, <1>5, <1>6, <1>7, <1>8, <1>9, <1>10 DEF Next

(* The variables of startSync, its goroutines and the process group keep   *)
(* their types.                                                            *)
THEOREM ProcessTypeCorrect == Spec => []ProcessTypeOK
<1>1. IInv => ProcessTypeOK
  BY DEF IInv
<1>2. QED
  BY <1>1, InitIInv, NextIInv, PTL DEF Spec

(* However large the group and whichever process ignores SIGTERM,          *)
(* startSync returns with no process of it running and no watcher left.    *)
THEOREM ProcessNothingLeft == Spec => []NothingLeftBehind
<1>1. IInv => NothingLeftBehind
  BY DEF IInv, Handover, NothingLeftBehind
<1>2. QED
  BY <1>1, InitIInv, NextIInv, PTL DEF Spec

(* startSync reports a signalled rsync as cancelled.                       *)
THEOREM ProcessSignalledIsCanceled == Spec => []SignalledIsCanceled
<1>1. IInv => SignalledIsCanceled
  BY DEF IInv, Handover, SignalledIsCanceled
<1>2. QED
  BY <1>1, InitIInv, NextIInv, PTL DEF Spec

(* terminateProcessGroupOnCancel empties the group within KillGrace of the *)
(* cancellation: the assumption SyncWorker makes of rsync.                 *)
THEOREM ProcessGoneInGrace == Spec => []GoneInGrace
<1>1. IInv => GoneInGrace
  BY ProcessAssumption DEF IInv, ProcessTypeOK, Handover, Clock, GoneInGrace
<1>2. QED
  BY <1>1, InitIInv, NextIInv, PTL DEF Spec

-----------------------------------------------------------------------------
(* How rsync ended is known once it has.                                   *)
ExitKnown == exit = "none" => Leader \in group

(* rsync's exit is kept when the rest of its group ends or is killed.      *)
LEMMA ExitStaysKnown == IInv /\ ExitKnown /\ [Next]_vars => ExitKnown'
<1> SUFFICES ASSUME IInv, ExitKnown, [Next]_vars PROVE ExitKnown'
  OBVIOUS
<1> USE DEF ExitKnown
<1>1. ASSUME NEW p \in Process, NEW r \in {"ok", "fail"}, ProcessExits(p, r)
      PROVE  ExitKnown'
  BY <1>1 DEF ProcessExits
<1>2. CASE SignalKill
  BY <1>2 DEF SignalKill
<1>3. CASE UNCHANGED <<exit, group>>
  BY <1>3
<1> QED BY <1>1, <1>2, <1>3 DEF Next, vars, Cancel, Waiter, WaitReturns, WatcherSeesExit,
           WatcherSeesCancel, SignalTerm, Caller, Second

(* Every step of goroutines and processes is one of the run of rsync, or   *)
(* not to be seen from outside.                                            *)
LEMMA ProcessStep == IInv /\ ExitKnown /\ [Next]_vars => [Run!Next]_(Run!vars)
<1> SUFFICES ASSUME IInv, ExitKnown, [Next]_vars PROVE [Run!Next]_(Run!vars)
  OBVIOUS
<1> USE DEF Run!vars
(* The last process of the group is rsync's end.                           *)
<1>1. ASSUME group' \subseteq group, exit' \in {exit, "ok", "fail"},
             group' = {} => exit' # "none", group' # {} \/ group # {},
             UNCHANGED <<ctx, caller, result, since>>
      PROVE  [Run!Next]_(Run!vars)
  <2>1. CASE group' # {}
    BY <1>1, <2>1
  <2>2. CASE group' = {}
    <3>1. caller # "returned"
      BY <1>1, <2>2 DEF IInv, Handover, ProcessTypeOK
    <3>2. exit' \in {"ok", "fail"}
      BY <1>1, <2>2 DEF IInv, ProcessTypeOK
    <3>3. Run!Exits
      BY <1>1, <2>2, <3>1, <3>2 DEF Run!Exits
    <3> QED BY <3>3 DEF Run!Next
  <2> QED BY <2>1, <2>2
<1>2. ASSUME NEW p \in Process, NEW r \in {"ok", "fail"}, ProcessExits(p, r)
      PROVE  [Run!Next]_(Run!vars)
  <2>1. group' = {} => exit' # "none"
    BY <1>2, ExitStaysKnown DEF ExitKnown
  <2> QED BY <1>1, <1>2, <2>1 DEF ProcessExits
<1>3. CASE SignalKill
  <2>1. CASE group = {}
    BY <1>3, <2>1 DEF SignalKill
  <2>2. CASE group # {}
    <3>1. group' = {} => exit' # "none"
      BY <1>3, ExitStaysKnown DEF ExitKnown
    <3> QED BY <1>1, <1>3, <2>2, <3>1 DEF SignalKill
  <2> QED BY <2>1, <2>2
<1>4. CASE Cancel
  BY <1>4 DEF Cancel, Run!Cancel, Run!Next
<1>5. CASE Caller
  <2>1. group = {} /\ group' = {} /\ UNCHANGED <<ctx, exit>>
    BY <1>5 DEF Caller, IInv, Handover
  <2>2. CASE caller' = "watcherDone"
    BY <1>5, <2>1, <2>2 DEF Caller
  <2>3. CASE caller' = "returned"
    BY <1>5, <2>1, <2>3 DEF Caller, Returned, Run!Returns, Run!Next
  <2> QED BY <1>5, <2>2, <2>3 DEF Caller
(* A cancelled group that runs has its watcher at the timer.               *)
<1>6. CASE Second
  <2>1. CASE group = {} \/ ~ctx
    BY <1>6, <2>1 DEF Second
  <2>2. CASE group # {} /\ ctx
    <3>1. watcher = "timer" /\ timer > 0 /\ caller # "returned"
      BY <1>6, <2>2, ProcessAssumption
         DEF Second, TimerFired, IInv, ProcessTypeOK, Handover, Clock
    <3>2. since < KillGrace
      BY <3>1, ProcessAssumption DEF IInv, ProcessTypeOK, Clock
    <3>3. since' = since + 1 /\ UNCHANGED <<group, ctx, exit, caller, result>>
      BY <1>6, <2>2, <3>1, <3>2, ProcessAssumption DEF Second, IInv, ProcessTypeOK
    <3>4. KillGrace - since > 0 /\ KillGrace - since' = (KillGrace - since) - 1
      BY <3>2, <3>3, ProcessAssumption DEF IInv, ProcessTypeOK
    <3> QED BY <2>2, <3>3, <3>4 DEF Run!Second, Run!Next
  <2> QED BY <2>1, <2>2
<1>7. CASE UNCHANGED <<group, exit, ctx, caller, result, since>>
  BY <1>7
<1> QED BY <1>2, <1>3, <1>4, <1>5, <1>6, <1>7
        DEF Next, vars, Waiter, WaitReturns, WatcherSeesExit, WatcherSeesCancel, SignalTerm

(* startSync, its goroutines and the process group of rsync together are   *)
(* the run of rsync SyncWorker is built on, for every group and grace.     *)
THEOREM ProcessIsRsyncRun == Spec => IsRsyncRun
<1>1. Init => Run!Init
  BY ProcessAssumption DEF Init, Run!Init, Process
<1>2. Init => ExitKnown
  BY DEF Init, ExitKnown, Process
<1> QED BY <1>1, <1>2, InitIInv, NextIInv, ExitStaysKnown, ProcessStep, PTL
        DEF Spec, IsRsyncRun, Run!Spec
=============================================================================
