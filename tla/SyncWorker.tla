------------------------------ MODULE SyncWorker ------------------------------
(***************************************************************************)
(* The sync worker process: runSyncWorkerWithNotifications of              *)
(* sync_worker.go and startSync of main.go.  A worker is a process started *)
(* for one reservation.  Its main goroutine claims the reservation, runs   *)
(* rsync and records the outcome; its monitor goroutine reports progress   *)
(* every second, renewing the lease, and cancels the shared context when   *)
(* the report fails or its reply asks to stop; rsync is a process of its   *)
(* own, killed KillGrace after the context is cancelled.                   *)
(*                                                                         *)
(* The model's second is the Tick of the store.  A goroutine with a        *)
(* deadline acts before it: due[w] is the time left for the monitor's      *)
(* select or Redis call (0 when it has ended), grace[w] the time a         *)
(* cancelled rsync may still run.  Everything else may take any time.  A   *)
(* script takes effect when its call returns; the time its reply may       *)
(* really have been under way is given to the monitor's next deadline.     *)
(***************************************************************************)
EXTENDS RedisClient

CONSTANTS
  Worker,       \* worker processes
  NoJob,        \* the job of a process not started yet
  Poll,         \* 1 s: the monitor's ticker
  CallTimeout,  \* the longest a Redis call of the monitor takes
  KillGrace     \* 5 s: from SIGTERM to SIGKILL

VARIABLES
  job,          \* job[w]: the reservation named by --sync_worker
  main,         \* main[w]: where the main goroutine is
  monitor,      \* monitor[w]: where the monitor is, or what it sent on done
  cancelled,    \* cancelled[w]: the worker's context is cancelled
  rsync,        \* rsync[w]: the rsync process and its exit
  dir,          \* dir[w]: current.Path
  seen,         \* seen[w]: current.Progress
  report,       \* report[w]: the progress the monitor is sending
  outcome,      \* outcome[w]: runErr, then the state to record
  saved,        \* saved[w]: no error from the final progress and finish
  due, grace,   \* the deadlines
  events        \* events[i]: the notifications published for reservation i

ASSUME WorkerAssumption ==
  /\ NoJob \notin Id
  /\ {Poll, CallTimeout, KillGrace} \subseteq Nat

(* 1 + 5 + 5 + 5 against 120: a monitor that loses Redis right after a     *)
(* renewal still stops rsync before the lease is over.                     *)
ASSUME LeaseOutlastsWorker ==
  Poll + CallTimeout + CallTimeout + KillGrace < LeaseTTL

Main == {"off", "claim", "check", "recheck", "start", "wait", "cancel", "join",
         "final", "finish", "notify", "exit", "dead"}
Monitor == {"off", "select", "update", "nil", "err", "dead"}
Event == {"start", "complete", "cancelled", "error"}

local == <<job, dir>>
proc  == <<rsync, seen, grace>>
moni  == <<monitor, report, due>>
final == <<outcome, saved>>
workerVars == <<local, main, moni, cancelled, proc, final, events>>

WorkerTypeOK ==
  /\ job \in [Worker -> Id \cup {NoJob}]
  /\ main \in [Worker -> Main]
  /\ monitor \in [Worker -> Monitor]
  /\ cancelled \in [Worker -> BOOLEAN]
  /\ rsync \in [Worker -> {"none", "run", "ok", "fail"}]
  /\ dir \in [Worker -> Path \cup {NoRecord}]
  /\ seen \in [Worker -> 0..MaxProgress]
  /\ report \in [Worker -> 0..MaxProgress]
  /\ outcome \in [Worker -> FinalState]
  /\ saved \in [Worker -> BOOLEAN]
  /\ due \in [Worker -> Nat]
  /\ grace \in [Worker -> Nat]
  /\ events \in [Id -> Seq(Event)]

WorkerInit ==
  /\ job = [w \in Worker |-> NoJob]
  /\ main = [w \in Worker |-> "off"]
  /\ monitor = [w \in Worker |-> "off"]
  /\ cancelled = [w \in Worker |-> FALSE]
  /\ rsync = [w \in Worker |-> "none"]
  /\ dir = [w \in Worker |-> NoRecord]
  /\ seen = [w \in Worker |-> 0]
  /\ report = [w \in Worker |-> 0]
  /\ outcome = [w \in Worker |-> "completed"]
  /\ saved = [w \in Worker |-> TRUE]
  /\ due = [w \in Worker |-> 0]
  /\ grace = [w \in Worker |-> KillGrace]
  /\ events = [i \in Id |-> << >>]

Alive(w) == main[w] \notin {"off", "exit", "dead"}

Notify(e, i) == events' = [events EXCEPT ![i] = Append(@, e)]

Goto(w, from, to) == main[w] = from /\ main' = [main EXCEPT ![w] = to]

Result(w, r) == outcome' = [outcome EXCEPT ![w] = r]

(* Mutant: the call of cancel() is forgotten.                              *)
CancelContextMutant(w) == UNCHANGED cancelled

CancelContext(w) == cancelled' = [cancelled EXCEPT ![w] = TRUE]

(* Mutant: the stop flag of a reply is ignored.                            *)
StopSeenMutant(w) == FALSE

(* The record a call returns carries the stop flag.                        *)
StopSeen(w) == records[job[w]].stop

-----------------------------------------------------------------------------
(* The launcher starts the process; its first call claims the reservation. *)

StartWorker(w, i) ==
  /\ Goto(w, "off", "claim")
  /\ job' = [job EXCEPT ![w] = i]
  /\ UNCHANGED <<dir, moni, cancelled, proc, final, events>>

(* Claimed: the monitor starts, and a stop requested earlier cancels the   *)
(* context at once.                                                        *)
ClaimSucceeds(w) ==
  /\ Goto(w, "claim", "check")
  /\ CallReplies(job[w], Claim)
  /\ dir' = [dir EXCEPT ![w] = records[job[w]].path]
  /\ cancelled' = [cancelled EXCEPT ![w] = @ \/ StopSeen(w)]
  /\ monitor' = [monitor EXCEPT ![w] = "select"]
  /\ due' = [due EXCEPT ![w] = Poll + CallTimeout]
  /\ UNCHANGED <<job, report, proc, final, events>>

ClaimFails(w) ==
  /\ Goto(w, "claim", "exit")
  /\ CallFails(job[w], Claim, cancelled[w])
  /\ UNCHANGED <<local, moni, cancelled, proc, final, events>>

-----------------------------------------------------------------------------
(* The monitor.  Its select may take either branch when both are ready.    *)

(* Mutant: the goroutine returns without sending.                          *)
MonitorReturnsMutant(w, v) ==
  /\ monitor' = [monitor EXCEPT ![w] = "off"]
  /\ due' = [due EXCEPT ![w] = 0]

(* The goroutine sends v on done and returns.                              *)
MonitorReturns(w, v) ==
  /\ monitor' = [monitor EXCEPT ![w] = v]
  /\ due' = [due EXCEPT ![w] = 0]

MonitorSeesCancel(w) ==
  /\ monitor[w] = "select"
  /\ cancelled[w]
  /\ MonitorReturns(w, "nil")
  /\ UNCHANGED <<records, faults, local, main, report, cancelled, proc, final,
                 events>>

MonitorTicks(w) ==
  /\ monitor[w] = "select"
  /\ monitor' = [monitor EXCEPT ![w] = "update"]
  /\ report' = [report EXCEPT ![w] = seen[w]]
  /\ due' = [due EXCEPT ![w] = CallTimeout]
  /\ UNCHANGED <<records, faults, local, main, cancelled, proc, final, events>>

MonitorReported(w) ==
  /\ monitor[w] = "update"
  /\ CallReplies(job[w], Progress(report[w]))
  /\ \/ StopSeen(w) /\ CancelContext(w) /\ MonitorReturns(w, "nil")
     \/ /\ ~StopSeen(w)
        /\ monitor' = [monitor EXCEPT ![w] = "select"]
        /\ due' = [due EXCEPT ![w] = @ + Poll]
        /\ UNCHANGED cancelled
  /\ UNCHANGED <<local, main, report, proc, final, events>>

(* The call's context derives from the worker's, so it also fails once     *)
(* that is cancelled.                                                      *)
MonitorFails(w) ==
  /\ monitor[w] = "update"
  /\ CallFails(job[w], Progress(report[w]), cancelled[w])
  /\ CancelContext(w)
  /\ MonitorReturns(w, "err")
  /\ UNCHANGED <<local, main, report, proc, final, events>>

-----------------------------------------------------------------------------
(* The main goroutine up to the start of rsync.  The context is looked at  *)
(* before and after the start notification, then no more until rsync runs. *)

ContextIsDone(w) ==
  /\ cancelled[w]
  /\ Goto(w, "check", "cancel") \/ Goto(w, "recheck", "cancel")
  /\ Result(w, "cancelled")
  /\ UNCHANGED <<records, faults, local, moni, cancelled, proc, saved, events>>

NotifyStart(w) ==
  /\ ~cancelled[w]
  /\ Goto(w, "check", "recheck")
  /\ Notify("start", job[w])
  /\ UNCHANGED <<records, faults, local, moni, cancelled, proc, final>>

CallStartSync(w) ==
  /\ ~cancelled[w]
  /\ Goto(w, "recheck", "start")
  /\ UNCHANGED <<records, faults, local, moni, cancelled, proc, final, events>>

(* startSync: MkdirAll and cmd.Start, either of which may fail.            *)
StartRsync(w) ==
  /\ \/ /\ Goto(w, "start", "wait")
        /\ rsync' = [rsync EXCEPT ![w] = "run"]
        /\ UNCHANGED outcome
     \/ Goto(w, "start", "cancel") /\ Result(w, "failed") /\ UNCHANGED rsync
  /\ UNCHANGED <<records, faults, local, moni, cancelled, seen, grace, saved,
                 events>>

(* rsync is a separate process group: it outlives a killed worker.         *)
RsyncReports(w, n) ==
  /\ rsync[w] = "run"
  /\ main[w] = "wait"
  /\ seen' = [seen EXCEPT ![w] = n]
  /\ UNCHANGED <<records, faults, local, main, moni, cancelled, rsync, grace,
                 final, events>>

RsyncExits(w, r) ==
  /\ rsync[w] = "run"
  /\ rsync' = [rsync EXCEPT ![w] = r]
  /\ UNCHANGED <<records, faults, local, main, moni, cancelled, seen, grace,
                 final, events>>

(* Mutant: a cancelled startSync does not wait for rsync.                  *)
StartSyncReturnsMutant(w) ==
  /\ cancelled[w] \/ rsync[w] # "run"
  /\ Goto(w, "wait", "cancel")
  /\ Result(w, IF cancelled[w] THEN "cancelled"
               ELSE IF rsync[w] = "ok" THEN "completed" ELSE "failed")
  /\ UNCHANGED <<records, faults, local, moni, cancelled, proc, saved, events>>

(* startSync returns the context's error first, then that of rsync.        *)
StartSyncReturns(w) ==
  /\ rsync[w] # "run"
  /\ Goto(w, "wait", "cancel")
  /\ Result(w, IF cancelled[w] THEN "cancelled"
               ELSE IF rsync[w] = "ok" THEN "completed" ELSE "failed")
  /\ UNCHANGED <<records, faults, local, moni, cancelled, proc, saved, events>>

-----------------------------------------------------------------------------
(* The main goroutine after rsync: stop and join the monitor, record.      *)

CancelMonitor(w) ==
  /\ Goto(w, "cancel", "join")
  /\ CancelContext(w)
  /\ UNCHANGED <<records, faults, local, moni, proc, final, events>>

JoinMonitor(w) ==
  /\ monitor[w] \in {"nil", "err"}
  /\ Goto(w, "join", "final")
  /\ Result(w, IF monitor[w] = "err" THEN "failed" ELSE outcome[w])
  /\ UNCHANGED <<records, faults, local, moni, cancelled, proc, saved, events>>

(* One of the two closing calls, made under contexts of their own.         *)
Saves(w, o) ==
  \/ CallReplies(job[w], o) /\ UNCHANGED saved
  \/ CallFails(job[w], o, FALSE) /\ saved' = [saved EXCEPT ![w] = FALSE]

(* Mutant: what the monitor sent last is sent again.                       *)
LastProgressMutant(w) == Progress(report[w])

LastProgress(w) == Progress(seen[w])

FinalProgress(w) ==
  /\ Goto(w, "final", "finish")
  /\ Saves(w, LastProgress(w))
  /\ UNCHANGED <<local, moni, cancelled, proc, outcome, events>>

FinishRecord(w) ==
  /\ Goto(w, "finish", "notify")
  /\ Saves(w, Finish(outcome[w]))
  /\ UNCHANGED <<local, moni, cancelled, proc, outcome, events>>

(* Mutant: the recorded state is published as the event.                   *)
EndEventMutant(w) ==
  IF outcome[w] = "failed" \/ ~saved[w] THEN "error" ELSE outcome[w]

EndEvent(w) ==
  IF outcome[w] = "failed" \/ ~saved[w] THEN "error"
  ELSE IF outcome[w] = "cancelled" THEN "cancelled" ELSE "complete"

NotifyEnd(w) ==
  /\ Goto(w, "notify", "exit")
  /\ Notify(EndEvent(w), job[w])
  /\ UNCHANGED <<records, faults, local, moni, cancelled, proc, final>>

-----------------------------------------------------------------------------
(* The process is asked to end, which cancels the parent of its context,   *)
(* or is killed, which leaves its rsync behind.                            *)

Sigterm(w) ==
  /\ Alive(w)
  /\ Fault("sigterm")
  /\ cancelled' = [cancelled EXCEPT ![w] = TRUE]
  /\ UNCHANGED <<records, local, main, moni, proc, final, events>>

Crash(w) ==
  /\ Alive(w)
  /\ Fault("crash")
  /\ main' = [main EXCEPT ![w] = "dead"]
  /\ monitor' = [monitor EXCEPT ![w] = IF @ = "off" THEN "off" ELSE "dead"]
  /\ due' = [due EXCEPT ![w] = 0]
  /\ UNCHANGED <<records, local, report, cancelled, proc, final, events>>

WorkerStep(w) ==
  \/ ClaimSucceeds(w) \/ ClaimFails(w)
  \/ MonitorSeesCancel(w) \/ MonitorTicks(w)
  \/ MonitorReported(w) \/ MonitorFails(w)
  \/ ContextIsDone(w) \/ NotifyStart(w) \/ CallStartSync(w) \/ StartRsync(w)
  \/ \E n \in 0..MaxProgress : RsyncReports(w, n)
  \/ \E r \in {"ok", "fail"} : RsyncExits(w, r)
  \/ StartSyncReturns(w) \/ CancelMonitor(w) \/ JoinMonitor(w)
  \/ FinalProgress(w) \/ FinishRecord(w) \/ NotifyEnd(w)
  \/ Sigterm(w) \/ Crash(w)

-----------------------------------------------------------------------------
(* A second passes only when nobody is at a deadline.                      *)

Watching(w) == monitor[w] \in {"select", "update"}

(* rsync has been told to end and its worker is there to kill it.          *)
Ending(w) == cancelled[w] /\ main[w] = "wait" /\ rsync[w] = "run"

(* Mutant: a process group that ignores SIGTERM is not killed.             *)
WorkerOnTimeMutant(w) ==
  (Watching(w) => due[w] > 0) /\ ~(cancelled[w] /\ main[w] = "start")

WorkerOnTime(w) ==
  /\ Watching(w) => due[w] > 0
  /\ Ending(w) => grace[w] > 0
  /\ ~(cancelled[w] /\ main[w] = "start")

WorkerSecond ==
  /\ \A w \in Worker : WorkerOnTime(w)
  /\ due' = [w \in Worker |-> IF Watching(w) THEN due[w] - 1 ELSE due[w]]
  /\ grace' = [w \in Worker |-> IF Ending(w) THEN grace[w] - 1 ELSE grace[w]]
  /\ UNCHANGED <<local, main, monitor, report, cancelled, rsync, seen, final,
                 events>>
=============================================================================
