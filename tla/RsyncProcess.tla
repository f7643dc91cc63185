----------------------------- MODULE RsyncProcess -----------------------------
(***************************************************************************)
(* startSync of main.go from cmd.Start on: the calling goroutine, the      *)
(* waiter goroutine around cmd.Wait, the watcher goroutine                 *)
(* terminateProcessGroupOnCancel, and the process group of rsync.  Wait    *)
(* returns when rsync has been reaped and the pipes are closed, so not     *)
(* before the last descendant that holds them (ssh, a remote shell) ends.  *)
(* SyncWorker uses the result: a cancelled rsync is gone in KillGrace.     *)
(***************************************************************************)
EXTENDS Integers

CONSTANTS Leader,       \* rsync itself
          Descendant,   \* processes of its group that hold its pipes
          KillGrace     \* 5 s: from SIGTERM to SIGKILL

VARIABLES
  group,        \* the processes of the group that run
  exit,         \* how rsync ended
  ctx,          \* the sync's context is cancelled
  waiter,       \* the goroutine around cmd.Wait
  watcher,      \* the goroutine that watches the context
  timer,        \* what is left of the watcher's timer
  caller,       \* startSync itself
  result,       \* what it returned
  signalled,    \* the last signal sent to the group
  since         \* seconds since the context was cancelled

vars == <<group, exit, ctx, waiter, watcher, timer, caller, result, signalled,
          since>>

ASSUME ProcessAssumption == KillGrace \in Nat /\ Leader \notin Descendant

Process == Descendant \cup {Leader}

ProcessTypeOK ==
  /\ group \subseteq Process
  /\ exit \in {"none", "ok", "fail"}
  /\ ctx \in BOOLEAN
  /\ waiter \in {"wait", "close", "send", "done"}
  /\ watcher \in {"select", "recheck", "term", "timer", "done"}
  /\ timer \in 0..KillGrace
  /\ caller \in {"waitResult", "watcherDone", "returned"}
  /\ result \in {"none", "ok", "fail", "canceled"}
  /\ signalled \in {"none", "TERM", "KILL"}
  /\ since \in Nat

(* cmd.Start has succeeded; the context may be cancelled already.          *)
Init ==
  /\ group = Process
  /\ exit = "none"
  /\ ctx \in BOOLEAN
  /\ waiter = "wait"
  /\ watcher = "select"
  /\ timer = KillGrace
  /\ caller = "waitResult"
  /\ result = "none"
  /\ signalled = "none"
  /\ since = 0

-----------------------------------------------------------------------------
(* A process ends, by itself or because of SIGTERM, which it may ignore.   *)
ProcessExits(p, r) ==
  /\ p \in group
  /\ group' = group \ {p}
  /\ exit' = IF p = Leader THEN r ELSE exit
  /\ UNCHANGED <<ctx, waiter, watcher, timer, caller, result, signalled, since>>

Cancel ==
  /\ ~ctx
  /\ ctx' = TRUE
  /\ UNCHANGED <<group, exit, waiter, watcher, timer, caller, result, signalled,
                 since>>

(* cmd.Wait, close(processDone), waitResult <- err.                        *)
WaitReturns ==
  /\ waiter = "wait"
  /\ group = {}
  /\ waiter' = "close"
  /\ UNCHANGED <<group, exit, ctx, watcher, timer, caller, result, signalled,
                 since>>

Waiter ==
  \/ WaitReturns
  \/ /\ waiter \in {"close", "send"}
     /\ waiter' = IF waiter = "close" THEN "send" ELSE "done"
     /\ UNCHANGED <<group, exit, ctx, watcher, timer, caller, result, signalled,
                    since>>

processDone == waiter \in {"send", "done"}

-----------------------------------------------------------------------------
(* terminateProcessGroupOnCancel.  A select may take either ready case.    *)

WatcherSeesExit ==
  /\ watcher \in {"select", "recheck", "timer"}
  /\ processDone
  /\ watcher' = "done"
  /\ UNCHANGED <<group, exit, ctx, waiter, timer, caller, result, signalled,
                 since>>

WatcherSeesCancel ==
  /\ \/ watcher = "select" /\ ctx /\ watcher' = "recheck"
     \/ watcher = "recheck" /\ ~processDone /\ watcher' = "term"
  /\ UNCHANGED <<group, exit, ctx, waiter, timer, caller, result, signalled,
                 since>>

SignalTerm ==
  /\ watcher = "term"
  /\ watcher' = "timer"
  /\ signalled' = "TERM"
  /\ UNCHANGED <<group, exit, ctx, waiter, timer, caller, result, since>>

(* Mutant: only rsync is killed, not its group.                            *)
KilledMutant == {Leader}

(* signalProcessGroup sends to the negative pid.                           *)
Killed == Process

(* Mutant: the timer fires a second late.                                  *)
TimerFiredMutant == timer < 0

TimerFired == timer = 0

SignalKill ==
  /\ watcher = "timer"
  /\ TimerFired
  /\ watcher' = "done"
  /\ signalled' = "KILL"
  /\ group' = group \ Killed
  /\ exit' = IF Leader \in group THEN "fail" ELSE exit
  /\ UNCHANGED <<ctx, waiter, timer, caller, result, since>>

-----------------------------------------------------------------------------
(* Mutant: the exit of rsync is looked at first.                           *)
ReturnedMutant == exit

(* startSync prefers the context's error to that of rsync.                 *)
Returned == IF ctx THEN "canceled" ELSE exit

(* Mutant: startSync does not wait for the watcher.                        *)
WatcherJoinedMutant == TRUE

WatcherJoined == watcher = "done"

Caller ==
  /\ \/ /\ caller = "waitResult"
        /\ waiter = "done"
        /\ caller' = "watcherDone"
        /\ UNCHANGED result
     \/ /\ caller = "watcherDone"
        /\ WatcherJoined
        /\ caller' = "returned"
        /\ result' = Returned
  /\ UNCHANGED <<group, exit, ctx, waiter, watcher, timer, signalled, since>>

-----------------------------------------------------------------------------
(* Goroutines do not wait a second for a step they can take.  since counts *)
(* until the grace is over and the call has returned.                      *)
Second ==
  /\ ctx => watcher \notin {"select", "recheck"}
  /\ watcher # "term"
  /\ watcher = "timer" => ~TimerFired
  /\ timer' = IF watcher = "timer" THEN timer - 1 ELSE timer
  /\ since' = IF ctx /\ caller # "returned" /\ since <= KillGrace
              THEN since + 1 ELSE since
  /\ UNCHANGED <<group, exit, ctx, waiter, watcher, caller, result, signalled>>

Next ==
  \/ \E p \in Process, r \in {"ok", "fail"} : ProcessExits(p, r)
  \/ Cancel \/ Waiter
  \/ WatcherSeesExit \/ WatcherSeesCancel \/ SignalTerm \/ SignalKill
  \/ Caller \/ Second

Spec == Init /\ [][Next]_vars

(* Goroutines run and time passes; no process need end by itself.          *)
FairSpec ==
  /\ Spec
  /\ WF_vars(Waiter) /\ WF_vars(Caller) /\ WF_vars(Second)
  /\ WF_vars(WatcherSeesExit \/ WatcherSeesCancel \/ SignalTerm \/ SignalKill)

-----------------------------------------------------------------------------
(* startSync returns only when nothing of the group is left that could     *)
(* write to the directory, and no signal can follow that would reach a     *)
(* stranger under a number used again.                                     *)
NothingLeftBehind == caller = "returned" => group = {} /\ watcher = "done"

(* A sync whose processes were signalled is never taken for a success or   *)
(* a failure of rsync: it was cancelled.                                   *)
SignalledIsCanceled ==
  caller = "returned" /\ signalled # "none" => result = "canceled"

(* What SyncWorker assumes of this code: KillGrace after the cancellation  *)
(* no process of the group runs, even if all of them ignore SIGTERM.       *)
GoneInGrace == since > KillGrace => group = {}

(* startSync and its goroutines are the run of rsync that SyncWorker is    *)
(* built on: with every process deaf to SIGTERM and every race of exit,    *)
(* cancellation and timer, the group as a whole ends within KillGrace, and *)
(* startSync returns after that, with the cancellation before the exit.    *)
Run == INSTANCE RsyncRun
  WITH phase  <- IF group # {} THEN "run"
                 ELSE IF caller = "returned" THEN "returned" ELSE "exited",
       stop   <- ctx,
       left   <- IF group # {} THEN KillGrace - since ELSE 0,
       exit   <- IF group # {} THEN "none" ELSE exit

IsRsyncRun == Run!Spec

(* terminateProcessGroupOnCancel says of SIGKILL: "If it has not           *)
(* completed, kill descendants".  The select may take the timer's case     *)
(* when the other one is ready as well, so a completed Wait does not keep  *)
(* the signal from a process group that no longer is rsync's.              *)
KillsOnlyUnfinished ==
  [][signalled' = "KILL" /\ signalled # "KILL" => ~processDone]_vars

(* A cancelled startSync returns, even if rsync is gone and a descendant   *)
(* keeps the pipes open.                                                   *)
CancelReturns == ctx ~> caller = "returned"
=============================================================================
