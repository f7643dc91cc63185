--------------------------- MODULE SyncSystemProofs ---------------------------
(***************************************************************************)
(* What the whole system guarantees for every number of workers, requests, *)
(* paths and faults, and for all times that satisfy LeaseOutlastsWorker    *)
(* and WebAssumption.  All of it follows from one inductive invariant.     *)
(***************************************************************************)
EXTENDS SyncSystem, SyncStoreProofs

(* A worker that has claimed its reservation has started its monitor.      *)
HasClaimed(w) == monitor[w] # "off"

(* Where a request can be whose worker was launched.                       *)
Launched == {"launched", "cleanup", "notify", "launchError", "dead"}

(* Where the goroutines of a worker can be at the same time.               *)
Control(w) ==
  /\ main[w] = "off" <=> job[w] = NoJob
  /\ main[w] \in {"off", "claim"} => ~HasClaimed(w)
  /\ main[w] \in {"check", "recheck", "start", "wait", "cancel", "join"} =>
       monitor[w] \in {"select", "update", "nil", "err"}
  /\ main[w] \in {"final", "finish", "notify"} => monitor[w] \in {"nil", "err"}
  /\ main[w] = "exit" => monitor[w] \in {"off", "nil", "err"}
  /\ main[w] = "dead" => monitor[w] \in {"off", "dead"}
  /\ monitor[w] \in {"nil", "err"} => cancelled[w]
  /\ rsync[w] # "none" => HasClaimed(w) /\ main[w] \notin {"check", "recheck", "start"}

(* The deadlines of a worker are those it was given or less.               *)
Deadlines(w) ==
  /\ monitor[w] = "select" => due[w] <= Poll + CallTimeout
  /\ monitor[w] = "update" => due[w] <= CallTimeout
  /\ grace[w] <= KillGrace

(* A reservation is made once, launched as a sync or kept by a removal.    *)
Provenance(i) ==
  /\ request[i] = "idle" => records[i] = NoRecord /\ events[i] = << >>
  /\ Beating(i) => request[i] \in {"deleting", "join"}
  /\ request[i] = "deleting" => Beating(i) \/ heartbeat[i] = "err"
  /\ request[i] \in {"launch", "launched", "cleanup", "notify", "launchError"}
       /\ Present(i) => records[i].state # "removing"

(* A worker works for a request that launched it.                          *)
JobLaunched(w) == job[w] # NoJob => request[job[w]] \in Launched

(* A claim is made once: its reservation is never queued again.            *)
ClaimIsFinal(w) ==
  HasClaimed(w) /\ Present(job[w]) => records[job[w]].state # "queued"

(* No two workers have claimed the same reservation.                       *)
ClaimIsSole ==
  \A v, w \in Worker : v # w /\ HasClaimed(v) /\ HasClaimed(w) => job[v] # job[w]

(* The worker's record, and how many seconds of it are left at least.      *)
Holds(w, margin) ==
  /\ Live(job[w])
  /\ records[job[w]].state = "running"
  /\ records[job[w]].path = dir[w]
  /\ margin < records[job[w]].ttl

(* A lease outlasts the deadlines ahead: of the monitor, which renews it,  *)
(* and of rsync, which is killed before it is over.                        *)
LeaseOutlasts(w) ==
  /\ monitor[w] = "select" => Holds(w, due[w] + CallTimeout + KillGrace)
  /\ monitor[w] = "update" => Holds(w, due[w] + KillGrace)
  /\ main[w] = "start" => Holds(w, KillGrace)
  /\ Transferring(w) => Holds(w, grace[w])

(* The same of a removal and its heartbeats.                               *)
Keeps(i, margin) ==
  /\ Live(i)
  /\ records[i].state = "removing"
  /\ records[i].path = target[i]
  /\ margin < records[i].ttl

(* See LeaseOutlasts.                                                      *)
BeatOutlasts(i) ==
  /\ heartbeat[i] = "select" =>
       hbDue[i] <= HeartbeatPoll + HeartbeatTimeout /\ Keeps(i, hbDue[i] + HeartbeatTimeout)
  /\ heartbeat[i] = "update" => hbDue[i] <= HeartbeatTimeout /\ Keeps(i, hbDue[i])

(* The inductive invariant.                                                *)
SystemInv ==
  /\ SystemTypeOK
  /\ \A w \in Worker : Control(w) /\ Deadlines(w)
  /\ \A i \in Id : Provenance(i)
  /\ \A w \in Worker : JobLaunched(w) /\ ClaimIsFinal(w)
  /\ ClaimIsSole
  /\ \A w \in Worker : LeaseOutlasts(w)
  /\ \A i \in Id : BeatOutlasts(i)

-----------------------------------------------------------------------------
(* The fields updateScript writes, and that it writes one record only.     *)
LEMMA UpdateFields ==
  ASSUME StoreTypeOK, NEW i \in Id, NEW o \in Operation, Update(i, o)
  PROVE  /\ Live(i) /\ records[i] \in Record /\ records'[i] \in Record /\ Present(i)'
         /\ records'[i].path = records[i].path
         /\ o.op = "claim" => records[i].state = "queued" /\ records'[i].state = "running"
         /\ o.op = "finish" => records'[i].state = o.state
         /\ o.op = "launch_failed" /\ records[i].state = "queued" =>
              records'[i].state = "failed"
         /\ o.op = "launch_failed" /\ records[i].state # "queued" =>
              records'[i].state = records[i].state /\ records'[i].stop
         /\ o.op \in {"heartbeat", "progress"} => records'[i].state = records[i].state
         /\ o.op = "progress" => records'[i].progress = o.progress
         /\ o.op # "progress" => records'[i].progress = records[i].progress
         /\ records[i].stop => records'[i].stop
         /\ records'[i].state \in ActiveState => records'[i].ttl = LeaseTTL
         /\ \A j \in Id \ {i} : records'[j] = records[j]
<1> DEFINE r == records[i]
           t == Applied(r, o)
           Written(u) ==
             /\ u \in Record
             /\ o.op = "claim" => u.state = "running"
             /\ o.op = "finish" => u.state = o.state
             /\ o.op = "launch_failed" /\ r.state = "queued" => u.state = "failed"
             /\ o.op = "launch_failed" /\ r.state # "queued" => u.state = r.state /\ u.stop
             /\ o.op \in {"heartbeat", "progress"} => u.state = r.state
             /\ o.op = "progress" => u.progress = o.progress
             /\ o.op # "progress" => u.progress = r.progress
<1>1. Live(i) /\ r \in Record /\ (o.op = "claim" => r.state = "queued")
  BY DEF Update, Accepts, Live, Present, StoreTypeOK
<1>2. records'[i] = Renewed(t) /\ \A j \in Id \ {i} : records'[j] = records[j]
  BY DEF Update, StoreTypeOK
<1>3. Renewed(t) \in Record /\ Renewed(t).path = r.path /\ (r.stop => Renewed(t).stop)
  BY <1>1, UpdatedRecord
<1>4. Written(t)
  <2>1. CASE o = Claim
    BY <1>1, <2>1 DEF Claim, Applied, Record, ActiveState
  <2>2. CASE o = LaunchFailed
    BY <1>1, <2>2 DEF LaunchFailed, Applied, FailedLaunch, Record, FinalState
  <2>3. CASE o = Heartbeat
    BY <1>1, <2>3 DEF Heartbeat, Applied
  <2>4. ASSUME NEW n \in 0..MaxProgress, o = Progress(n)
        PROVE  Written(t)
    BY <1>1, <2>4 DEF Progress, Applied, Record
  <2>5. ASSUME NEW f \in FinalState, o = Finish(f)
        PROVE  Written(t)
    BY <1>1, <2>5 DEF Finish, Applied, Record
  <2> QED BY <2>1, <2>2, <2>3, <2>4, <2>5 DEF Operation
<1>5. /\ Renewed(t).state = t.state
      /\ Renewed(t).progress = t.progress
      /\ Renewed(t).stop = t.stop
      /\ Renewed(t).state \in ActiveState => Renewed(t).ttl = LeaseTTL
  BY <1>4 DEF Renewed, Record, active
<1>6. Present(i)'
  BY <1>2, <1>3, StoreAssumption DEF Present
<1> QED BY <1>1, <1>2, <1>3, <1>4, <1>5, <1>6

(* The record of j is left alone, marked to stop or renewed by somebody    *)
(* else, or dropped when it has expired.                                   *)
Calm(j) ==
  /\ Present(j)' =>
       /\ Present(j)
       /\ records'[j].path = records[j].path
       /\ records'[j].state = records[j].state
       /\ records'[j].progress = records[j].progress
       /\ records[j].stop => records'[j].stop
  /\ Live(j) => Live(j)' /\ records'[j].ttl \in {records[j].ttl, LeaseTTL}
  /\ Live(j)' => Live(j)

(* A record nobody wrote is calm.                                          *)
LEMMA UnchangedIsCalm ==
  ASSUME NEW j \in Id, records'[j] = records[j]
  PROVE  Calm(j)
BY DEF Calm, Present, Live, active

(* Dropping expired records and marking records to stop disturbs nobody.   *)
LEMMA DropIsCalm ==
  ASSUME StoreTypeOK, NEW D \in SUBSET Expired, records' = Without(D), NEW j \in Id
  PROVE  Calm(j)
BY DEF StoreTypeOK, Without, Expired, Calm, Present, Live, active

(* stopScript changes the stop flag of a record and nothing else.          *)
LEMMA StopIsCalm ==
  ASSUME StoreTypeOK, NEW p \in Path, Stop(p), NEW j \in Id
  PROVE  Calm(j)
<1>1. CASE j \in Stoppable(p)
  <2>1. records[j] \in Record /\ Live(j)
    BY <1>1 DEF Stoppable, Live, Present, StoreTypeOK
  <2>2. records'[j] = [records[j] EXCEPT !.stop = TRUE]
    BY <1>1 DEF Stop, StoreTypeOK
  <2>3. records'[j] \in Record
    BY <2>1, <2>2, WrittenRecords
  <2> QED BY <2>1, <2>2, <2>3, StoreAssumption, WrittenRecords
          DEF Calm, Present, Live, active, Record
<1>2. CASE j \notin Stoppable(p)
  BY <1>2, UnchangedIsCalm DEF Stop, StoreTypeOK
<1> QED BY <1>1, <1>2

(* A granted reservation is new, and disturbs no other.                    *)
LEMMA GrantFields ==
  ASSUME StoreTypeOK, NEW i \in Id, NEW p \in Path, NEW s \in {"queued", "removing"},
         records[i] = NoRecord, ReserveGranted(i, p, s)
  PROVE  /\ ReserveFresh(i, p, s)
         /\ Live(i)'
         /\ records'[i].path = p
         /\ records'[i].state = s
         /\ ~records'[i].stop
         /\ records'[i].ttl = QueuedTTL
         /\ \A j \in Id \ {i} : Calm(j)
<1>1. ReserveFresh(i, p, s)
  BY DEF ReserveFresh
<1>2. records'[i] = NewRecord(p, s)
  BY DEF ReserveGranted, Without, StoreTypeOK
<1>3. \A j \in Id \ {i} : Calm(j)
  BY <1>1, GrantIsExclusive DEF Calm, Present, Live, active
<1> QED BY <1>1, <1>2, <1>3, GrantIsExclusive DEF NewRecord

(* A call for i disturbs no other reservation; nor i itself, if it is a    *)
(* heartbeat, or the clean-up after a launch that did start a worker.      *)
LEMMA UpdateIsCalm ==
  ASSUME StoreTypeOK, NEW i \in Id, NEW o \in Operation, Update(i, o)
  PROVE  /\ \A j \in Id \ {i} : Calm(j)
         /\ \/ o.op = "heartbeat"
            \/ o.op = "launch_failed" /\ records[i].state # "queued"
            => Calm(i)
<1>1. \A j \in Id \ {i} : Calm(j)
  BY UpdateFields, UnchangedIsCalm
<1>2. ASSUME \/ o.op = "heartbeat"
             \/ o.op = "launch_failed" /\ records[i].state # "queued"
      PROVE  Calm(i)
  <2>1. Live(i) /\ Present(i)'
    BY UpdateFields
  <2>2. /\ records'[i].state = records[i].state
        /\ records'[i].path = records[i].path
        /\ records'[i].progress = records[i].progress
        /\ records[i].stop => records'[i].stop
    BY <1>2, UpdateFields
  <2>3. records'[i].ttl = LeaseTTL /\ LeaseTTL > 0
    BY <2>1, <2>2, UpdateFields, StoreAssumption DEF Live, active
  <2> QED BY <2>1, <2>2, <2>3 DEF Calm, Live, active, Present
<1> QED BY <1>1, <1>2

-----------------------------------------------------------------------------
(* The arguments of a worker's calls are operations of the store.          *)
LEMMA CallsAreOperations ==
  ASSUME WorkerTypeOK, NEW w \in Worker
  PROVE  /\ {Claim, LaunchFailed, Heartbeat} \subseteq Operation
         /\ Progress(report[w]) \in Operation
         /\ LastProgress(w) \in Operation
         /\ Finish(outcome[w]) \in Operation
         /\ \A b \in BOOLEAN : Finish(IF b THEN "completed" ELSE "failed") \in Operation
BY DEF WorkerTypeOK, Operation, LastProgress, FinalState

(* A call that ends in an error has run its script, or left the hash       *)
(* alone.                                                                  *)
LEMMA FailedCall ==
  ASSUME NEW i, NEW o, NEW c, CallFails(i, o, c)
  PROVE  Update(i, o) \/ UNCHANGED records
BY DEF CallFails

(* A worker touches its own reservation only, and by a call.               *)
LEMMA WorkerCalls ==
  ASSUME SystemTypeOK, NEW w \in Worker, Control(w), WorkerStep(w)
  PROVE  /\ job[w] \in Id
         /\ UNCHANGED records \/ \E o \in Operation : Update(job[w], o)
<1> USE CallsAreOperations, FailedCall DEF SystemTypeOK
<1>1. job[w] \in Id
  BY DEF WorkerTypeOK, Control, HasClaimed, WorkerStep, ClaimSucceeds, ClaimFails,
         MonitorSeesCancel, MonitorTicks, MonitorReported, MonitorFails,
         ContextIsDone, NotifyStart, CallStartSync, StartRsync, RsyncReports,
         RsyncExits, StartSyncReturns, CancelMonitor, JoinMonitor, FinalProgress,
         FinishRecord, NotifyEnd, Sigterm, Crash, Goto, Alive
<1>2. CASE ClaimSucceeds(w) \/ ClaimFails(w)
  BY <1>1, <1>2 DEF ClaimSucceeds, ClaimFails, CallReplies
<1>3. CASE MonitorReported(w) \/ MonitorFails(w)
  BY <1>1, <1>3 DEF MonitorReported, MonitorFails, CallReplies
<1>4. CASE FinalProgress(w) \/ FinishRecord(w)
  BY <1>1, <1>4 DEF FinalProgress, FinishRecord, Saves, CallReplies
<1>5. CASE \/ MonitorSeesCancel(w) \/ MonitorTicks(w) \/ ContextIsDone(w)
           \/ NotifyStart(w) \/ CallStartSync(w) \/ StartRsync(w)
           \/ \E n \in 0..MaxProgress : RsyncReports(w, n)
           \/ \E r \in {"ok", "fail"} : RsyncExits(w, r)
           \/ StartSyncReturns(w) \/ CancelMonitor(w) \/ JoinMonitor(w)
           \/ NotifyEnd(w) \/ Sigterm(w) \/ Crash(w)
  BY <1>1, <1>5
     DEF MonitorSeesCancel, MonitorTicks, ContextIsDone, NotifyStart, CallStartSync,
         StartRsync, RsyncReports, RsyncExits, StartSyncReturns, CancelMonitor,
         JoinMonitor, NotifyEnd, Sigterm, Crash
<1> QED BY <1>2, <1>3, <1>4, <1>5 DEF WorkerStep

(* A handler reserves an id nobody has used, or calls for its own.         *)
LEMMA WebCalls ==
  ASSUME SystemTypeOK, NEW i \in Id, Provenance(i), WebStep(i)
  PROVE  \/ UNCHANGED records
         \/ \E p \in Path, s \in {"queued", "removing"} : ReserveFresh(i, p, s)
         \/ \E p \in Path : ReserveRefused(p)
         \/ \E o \in Operation : Update(i, o)
<1> USE FailedCall DEF SystemTypeOK
<1>1. ASSUME NEW p \in Path, NEW s \in {"queued", "removing"},
             ReserveReplies(i, p, s) \/ ReserveFails(i, p, s)
      PROVE  \/ UNCHANGED records \/ ReserveFresh(i, p, s) \/ ReserveRefused(p)
  BY <1>1 DEF ReserveReplies, ReserveFails, Fresh, Provenance, ReserveFresh
<1>2. CASE \E p \in Path : StartReserve(i, p) \/ RemoveReserve(i, p)
  BY <1>1, <1>2 DEF StartReserve, RemoveReserve
<1>3. CASE CleanupLaunch(i)
  BY <1>3 DEF CleanupLaunch, CallReplies, Operation
<1>4. CASE HeartbeatReplies(i) \/ HeartbeatFails(i)
  BY <1>4 DEF HeartbeatReplies, HeartbeatFails, CallReplies, Operation
<1>5. CASE RemoveFinish(i)
  <2> DEFINE o == Finish(IF deleted[i] THEN "completed" ELSE "failed")
  <2>1. o \in Operation
    BY DEF Operation, FinalState
  <2> QED BY <1>5, <2>1 DEF RemoveFinish, CallReplies
<1>6. CASE \/ HeartbeatTicks(i) \/ HeartbeatEnds(i)
           \/ \E ok \in BOOLEAN : RemoveAllReturns(i, ok)
           \/ RemoveJoin(i) \/ WebCrash(i)
  BY <1>6 DEF HeartbeatTicks, HeartbeatEnds, RemoveAllReturns, RemoveJoin, WebCrash
<1> QED BY <1>2, <1>3, <1>4, <1>5, <1>6 DEF WebStep

(* Whatever the system does, the store sees a step of its own.             *)
LEMMA SystemUsesStore ==
  ASSUME SystemInv, [Next]_vars
  PROVE  [StoreNext]_records
<1> USE DEF SystemInv
<1>1. ASSUME NEW i \in Id, WebStep(i) PROVE [StoreNext]_records
  BY <1>1, WebCalls DEF StoreNext
<1>2. ASSUME NEW p \in Path, CancelSync(p) PROVE [StoreNext]_records
  BY <1>2 DEF StoreNext, CancelSync
<1>3. CASE ListSyncs
  BY <1>3 DEF StoreNext, ListSyncs
<1>4. ASSUME NEW i \in Id, Launch(i) \/ LaunchFails(i) \/ NotifyLaunchError(i)
      PROVE  UNCHANGED records
  BY <1>4 DEF Launch, LaunchFails, NotifyLaunchError
<1>5. ASSUME NEW i \in Id, NEW w \in Worker, Relaunch(w, i) PROVE UNCHANGED records
  BY <1>5 DEF Relaunch
<1>6. ASSUME NEW w \in Worker, WorkerStep(w) PROVE [StoreNext]_records
  BY <1>6, WorkerCalls DEF StoreNext
<1>7. CASE Second
  BY <1>7 DEF StoreNext, Second
<1>8. CASE UNCHANGED vars
  BY <1>8 DEF vars
<1> QED BY <1>1, <1>2, <1>3, <1>4, <1>5, <1>6, <1>7, <1>8 DEF Next

-----------------------------------------------------------------------------
(* Types.  The store's is its own lemma; the rest goes action by action.   *)
LEMMA CallCountsFaults ==
  ASSUME faults \in Nat, NEW i, NEW o, NEW c, CallReplies(i, o) \/ CallFails(i, o, c)
  PROVE  faults' \in Nat
BY DEF CallReplies, CallFails, NoReply, Fault

(* An announcement extends the story of one reservation.                   *)
LEMMA NotifyType ==
  ASSUME events \in [Id -> Seq(Event)], NEW i \in Id, NEW e \in Event, Notify(e, i)
  PROVE  events' \in [Id -> Seq(Event)]
BY DEF Notify

(* A started worker process has well-typed state.                          *)
LEMMA StartWorkerType ==
  ASSUME WorkerTypeOK, NEW w \in Worker, NEW i \in Id, StartWorker(w, i)
  PROVE  WorkerTypeOK'
BY DEF WorkerTypeOK, StartWorker, Goto, moni, proc, final, Main

(* Every step of a worker keeps the types of the workers' variables.       *)
LEMMA WorkerTypeStep ==
  ASSUME SystemTypeOK, NEW w \in Worker, Control(w), WorkerStep(w)
  PROVE  WorkerTypeOK' /\ faults' \in Nat
<1> USE WorkerAssumption
    DEF WorkerTypeOK, SystemTypeOK, Goto, Result, CancelContext, MonitorReturns,
        local, proc, moni, final
<1>0. job[w] \in Id
  BY WorkerCalls
<1>1. CASE ClaimSucceeds(w)
  <2>1. records[job[w]].path \in Path
    BY <1>0, <1>1 DEF ClaimSucceeds, CallReplies, Update, Accepts, Live, Present,
                      StoreTypeOK, Record
  <2>2. cancelled' \in [Worker -> BOOLEAN]
    <3>1. (cancelled[w] \/ StopSeen(w)) \in BOOLEAN
      OBVIOUS
    <3> QED BY <1>1, <3>1 DEF ClaimSucceeds
  <2>3. Poll + CallTimeout \in Nat
    OBVIOUS
  <2> QED BY <1>1, <2>1, <2>2, <2>3 DEF ClaimSucceeds, CallReplies, Main, Monitor
<1>2. CASE ClaimFails(w)
  BY <1>2, CallCountsFaults DEF ClaimFails, Main
<1>3. CASE MonitorSeesCancel(w)
  BY <1>3 DEF MonitorSeesCancel, Monitor
<1>4. CASE MonitorTicks(w)
  BY <1>4 DEF MonitorTicks, Monitor
<1>5. CASE MonitorReported(w)
  <2>1. due[w] + Poll \in Nat
    OBVIOUS
  <2>2. /\ UNCHANGED <<faults, job, dir, main, report, rsync, seen, grace, outcome,
                       saved, events>>
        /\ CancelContext(w) \/ UNCHANGED cancelled
        /\ \E v \in {"nil", "select"} : monitor' = [monitor EXCEPT ![w] = v]
        /\ \E n \in {0, due[w] + Poll} : due' = [due EXCEPT ![w] = n]
    BY <1>5 DEF MonitorReported, CallReplies
  <2>3. cancelled' \in [Worker -> BOOLEAN]
    BY <2>2
  <2>4. monitor' \in [Worker -> Monitor]
    BY <2>2 DEF Monitor
  <2>5. due' \in [Worker -> Nat]
    BY <2>1, <2>2
  <2> QED BY <2>2, <2>3, <2>4, <2>5
<1>6. CASE MonitorFails(w)
  BY <1>6, CallCountsFaults DEF MonitorFails, Monitor
<1>7. CASE ContextIsDone(w)
  BY <1>7 DEF ContextIsDone, Main, FinalState
<1>8. CASE NotifyStart(w)
  BY <1>0, <1>8, NotifyType DEF NotifyStart, Main, Event
<1>9. CASE CallStartSync(w)
  BY <1>9 DEF CallStartSync, Main
<1>10. CASE StartRsync(w)
  BY <1>10 DEF StartRsync, Main, FinalState
<1>11. ASSUME NEW n \in 0..MaxProgress, RsyncReports(w, n)
       PROVE  WorkerTypeOK' /\ faults' \in Nat
  BY <1>11 DEF RsyncReports
<1>12. ASSUME NEW r \in {"ok", "fail"}, RsyncExits(w, r)
       PROVE  WorkerTypeOK' /\ faults' \in Nat
  BY <1>12 DEF RsyncExits
<1>13. CASE StartSyncReturns(w)
  BY <1>13 DEF StartSyncReturns, Main, FinalState
<1>14. CASE CancelMonitor(w)
  BY <1>14 DEF CancelMonitor, Main
<1>15. CASE JoinMonitor(w)
  BY <1>15 DEF JoinMonitor, Main, FinalState
<1>16. CASE FinalProgress(w)
  BY <1>16, CallCountsFaults DEF FinalProgress, Saves, Main
<1>17. CASE FinishRecord(w)
  BY <1>17, CallCountsFaults DEF FinishRecord, Saves, Main
<1>18. CASE NotifyEnd(w)
  <2>1. EndEvent(w) \in Event
    BY DEF EndEvent, Event
  <2> QED BY <1>0, <1>18, <2>1, NotifyType DEF NotifyEnd, Main
<1>19. CASE Sigterm(w)
  BY <1>19 DEF Sigterm, Fault
<1>20. CASE Crash(w)
  BY <1>20 DEF Crash, Fault, Main, Monitor
<1> QED BY <1>1, <1>2, <1>3, <1>4, <1>5, <1>6, <1>7, <1>8, <1>9, <1>10, <1>11, <1>12,
           <1>13, <1>14, <1>15, <1>16, <1>17, <1>18, <1>19, <1>20 DEF WorkerStep

(* Every step of a handler keeps the types of the handlers' variables.     *)
LEMMA WebTypeStep ==
  ASSUME SystemTypeOK, NEW i \in Id, WebStep(i)
  PROVE  WebTypeOK' /\ faults' \in Nat
<1> USE WebAssumption
    DEF WebTypeOK, SystemTypeOK, Answer, Request, HeartbeatReturns, removal
<1>1. ASSUME NEW p \in Path, NEW s \in {"queued", "removing"}, ReserveFails(i, p, s)
      PROVE  WebTypeOK' /\ faults' \in Nat
  BY <1>1 DEF ReserveFails, Fault
<1>2. ASSUME NEW p \in Path, StartReserve(i, p)
      PROVE  WebTypeOK' /\ faults' \in Nat
  BY <1>1, <1>2 DEF StartReserve, ReserveReplies
<1>3. ASSUME NEW p \in Path, RemoveReserve(i, p)
      PROVE  WebTypeOK' /\ faults' \in Nat
  <2>1. HeartbeatPoll + HeartbeatTimeout \in Nat
    OBVIOUS
  <2> QED BY <1>1, <1>3, <2>1 DEF RemoveReserve, ReserveReplies
<1>4. CASE CleanupLaunch(i)
  BY <1>4, CallCountsFaults DEF CleanupLaunch
<1>5. CASE HeartbeatTicks(i)
  BY <1>5 DEF HeartbeatTicks
<1>6. CASE HeartbeatReplies(i)
  BY <1>6, CallCountsFaults DEF HeartbeatReplies
<1>7. CASE HeartbeatFails(i)
  BY <1>7, CallCountsFaults DEF HeartbeatFails
<1>8. CASE HeartbeatEnds(i)
  BY <1>8 DEF HeartbeatEnds
<1>9. ASSUME NEW ok \in BOOLEAN, RemoveAllReturns(i, ok)
      PROVE  WebTypeOK' /\ faults' \in Nat
  BY <1>9 DEF RemoveAllReturns
<1>10. CASE RemoveJoin(i)
  BY <1>10 DEF RemoveJoin
<1>11. CASE RemoveFinish(i)
  BY <1>11, CallCountsFaults DEF RemoveFinish
<1>12. CASE WebCrash(i)
  BY <1>12 DEF WebCrash, Fault
<1> QED BY <1>2, <1>3, <1>4, <1>5, <1>6, <1>7, <1>8, <1>9, <1>10, <1>11, <1>12 DEF WebStep

-----------------------------------------------------------------------------
(* What a step leaves alone keeps its part of the invariant.               *)

SameWorker(w) ==
  /\ job'[w] = job[w] /\ dir'[w] = dir[w] /\ main'[w] = main[w]
  /\ monitor'[w] = monitor[w] /\ cancelled'[w] = cancelled[w]
  /\ rsync'[w] = rsync[w] /\ seen'[w] = seen[w]
  /\ outcome'[w] = outcome[w] /\ saved'[w] = saved[w]
  /\ due'[w] = due[w] /\ grace'[w] = grace[w]

(* See SameWorker.                                                         *)
SameRequest(i) ==
  /\ request'[i] = request[i] /\ heartbeat'[i] = heartbeat[i]
  /\ hbDue'[i] = hbDue[i] /\ target'[i] = target[i]

(* The part of the invariant that is about one worker, or one request.     *)
WorkerInv(w) == Control(w) /\ Deadlines(w) /\ ClaimIsFinal(w) /\ LeaseOutlasts(w)

(* See WorkerInv.                                                          *)
RequestInv(i) == Provenance(i) /\ BeatOutlasts(i)

(* A step of one worker is invisible to the others, and to reservations    *)
(* other than its own.                                                     *)
LEMMA WorkerFrame ==
  ASSUME SystemTypeOK, NEW v \in Worker, Control(v), WorkerStep(v)
  PROVE  /\ job'[v] = job[v]
         /\ \A w \in Worker \ {v} : SameWorker(w)
         /\ \A j \in Id \ {job[v]} : Calm(j) /\ events'[j] = events[j]
<1> USE DEF SystemTypeOK
<1>0. job[v] \in Id /\ \A j \in Id \ {job[v]} : Calm(j)
  BY WorkerCalls, UpdateIsCalm, UnchangedIsCalm
<1> DEFINE Frame == /\ job'[v] = job[v]
                    /\ \A w \in Worker \ {v} : SameWorker(w)
                    /\ \A j \in Id \ {job[v]} : events'[j] = events[j]
<1> USE <1>0
    DEF WorkerTypeOK, SameWorker, Goto, Result, CancelContext, MonitorReturns, Notify,
        local, proc, moni, final
<1>1. CASE ClaimSucceeds(v) \/ ClaimFails(v)
  BY <1>1 DEF ClaimSucceeds, ClaimFails
<1>2. CASE MonitorSeesCancel(v) \/ MonitorTicks(v)
  BY <1>2 DEF MonitorSeesCancel, MonitorTicks
<1>3. CASE MonitorReported(v)
  BY <1>3 DEF MonitorReported
<1>4. CASE MonitorFails(v)
  BY <1>4 DEF MonitorFails
<1>5. CASE ContextIsDone(v) \/ NotifyStart(v) \/ CallStartSync(v)
  BY <1>5 DEF ContextIsDone, NotifyStart, CallStartSync
<1>6. CASE StartRsync(v)
  BY <1>6 DEF StartRsync
<1>7. CASE \/ \E n \in 0..MaxProgress : RsyncReports(v, n)
           \/ \E r \in {"ok", "fail"} : RsyncExits(v, r)
  BY <1>7 DEF RsyncReports, RsyncExits
<1>8. CASE StartSyncReturns(v) \/ CancelMonitor(v) \/ JoinMonitor(v)
  BY <1>8 DEF StartSyncReturns, CancelMonitor, JoinMonitor
<1>9. CASE FinalProgress(v) \/ FinishRecord(v)
  BY <1>9 DEF FinalProgress, FinishRecord, Saves
<1>10. CASE NotifyEnd(v)
  BY <1>10 DEF NotifyEnd
<1>11. CASE Sigterm(v) \/ Crash(v)
  BY <1>11 DEF Sigterm, Crash
<1>12. Frame
  BY <1>1, <1>2, <1>3, <1>4, <1>5, <1>6, <1>7, <1>8, <1>9, <1>10, <1>11 DEF WorkerStep
<1> QED BY <1>0, <1>12

(* The bounds the timing assumptions give.                                 *)
LEMMA Margins ==
  ASSUME WorkerTypeOK, NEW w \in Worker, Deadlines(w)
  PROVE  /\ monitor[w] = "select" => due[w] + CallTimeout + KillGrace < LeaseTTL
         /\ monitor[w] = "update" => due[w] + KillGrace < LeaseTTL
         /\ KillGrace < LeaseTTL
         /\ grace[w] < LeaseTTL
BY WorkerAssumption, LeaseOutlastsWorker, StoreAssumption DEF Deadlines, WorkerTypeOK

(* A calm record still outlasts what it outlasted.                         *)
LEMMA HoldsKept ==
  ASSUME NEW w \in Worker, NEW m, m < LeaseTTL, Holds(w, m), Calm(job[w]),
         job'[w] = job[w], dir'[w] = dir[w]
  PROVE  /\ Live(job[w])'
         /\ records'[job[w]].state = "running"
         /\ records'[job[w]].path = dir'[w]
         /\ m < records'[job[w]].ttl
BY DEF Holds, Calm, Live

(* A worker that nothing happens to, and whose claim is calm, keeps its    *)
(* invariant.                                                              *)
LEMMA WorkerKept ==
  ASSUME WorkerTypeOK, NEW w \in Worker, WorkerInv(w), SameWorker(w),
         HasClaimed(w) => Calm(job[w])
  PROVE  WorkerInv(w)'
<1> USE DEF SameWorker, WorkerInv
<1>1. Control(w)' /\ Deadlines(w)'
  BY DEF Control, Deadlines, HasClaimed
<1>2. ClaimIsFinal(w)'
  BY DEF ClaimIsFinal, Calm, HasClaimed, Present
<1>3. monitor[w] \in {"select", "update"} \/ main[w] = "start" \/ Transferring(w) =>
        HasClaimed(w)
  BY DEF Control, HasClaimed, Transferring
<1>4. Transferring(w)' <=> Transferring(w)
  BY DEF Transferring
<1>5. LeaseOutlasts(w)'
  BY <1>3, <1>4, HoldsKept, Margins DEF LeaseOutlasts, Holds, Live, Present
<1> QED BY <1>1, <1>2, <1>5

(* So does a request.                                                      *)
LEMMA RequestKept ==
  ASSUME WebTypeOK, NEW i \in Id, RequestInv(i), SameRequest(i), Calm(i),
         events'[i] = events[i]
  PROVE  RequestInv(i)'
<1> USE DEF SameRequest, RequestInv
<1>1. Provenance(i)'
  BY DEF Provenance, Beating, Calm, Present
<1>2. BeatOutlasts(i)'
  BY WebAssumption, StoreAssumption
     DEF BeatOutlasts, Keeps, Calm, Live, Present, WebTypeOK
<1> QED BY <1>1, <1>2

-----------------------------------------------------------------------------
(* The steps of a worker.                                                  *)

(* Its reservation was launched, so no handler is removing under that id.  *)
LEMMA OwnRequest ==
  ASSUME SystemInv, NEW w \in Worker, WorkerStep(w), UNCHANGED webVars
  PROVE  RequestInv(job[w])' /\ JobLaunched(w)'
<1> USE DEF SystemInv
<1>1. job[w] \in Id /\ job'[w] = job[w] /\ job[w] # NoJob
  BY WorkerCalls, WorkerFrame, WorkerAssumption
<1>2. request[job[w]] \in Launched /\ ~Beating(job[w])
  BY <1>1 DEF JobLaunched, Provenance, Launched
<1>3. /\ request'[job[w]] = request[job[w]]
      /\ heartbeat'[job[w]] = heartbeat[job[w]]
  BY DEF webVars, removal
<1>4. /\ request[job[w]] # "dead" /\ Present(job[w]) => records[job[w]].state # "removing"
      /\ records'[job[w]] # NoRecord => Present(job[w])
      /\ records'[job[w]].state \in {records[job[w]].state, "running"} \cup FinalState
  <2>1. CASE UNCHANGED records
    BY <1>1, <1>2, <2>1 DEF Provenance, Launched, Present
  <2>2. ASSUME NEW o \in Operation, Update(job[w], o)
        PROVE  /\ Present(job[w])
               /\ records'[job[w]].state \in {records[job[w]].state, "running"} \cup FinalState
    <3>1. o.op \in {"claim", "launch_failed", "heartbeat", "progress"}
            \/ (o.op = "finish" /\ o.state \in FinalState)
      BY DEF Operation, Claim, LaunchFailed, Heartbeat, Progress, Finish
    <3> QED BY <1>1, <2>2, <3>1, UpdateFields DEF SystemTypeOK, Live, FinalState
  <2> QED BY <1>1, <1>2, <2>1, <2>2, WorkerCalls DEF Provenance, Launched
<1>5. Provenance(job[w])'
  BY <1>1, <1>2, <1>3, <1>4 DEF Provenance, Launched, Beating, Present, FinalState
<1>6. BeatOutlasts(job[w])'
  BY <1>1, <1>2, <1>3 DEF BeatOutlasts, Beating
<1>7. JobLaunched(w)'
  BY <1>1, <1>2, <1>3 DEF JobLaunched
<1> QED BY <1>1, <1>5, <1>6, <1>7 DEF RequestInv
(* Nothing has happened to a worker's record, or its progress was saved:   *)
(* the lease it had is kept or renewed.                                    *)
LEMMA HoldsAfterReport ==
  ASSUME StoreTypeOK, NEW w \in Worker, job[w] \in Id, job'[w] = job[w], dir'[w] = dir[w],
         NEW n \in 0..MaxProgress, UNCHANGED records \/ Update(job[w], Progress(n)),
         NEW m, Holds(w, m), m < LeaseTTL
  PROVE  /\ Live(job[w])'
         /\ records'[job[w]].state = "running"
         /\ records'[job[w]].path = dir'[w]
         /\ m < records'[job[w]].ttl
<1>1. CASE UNCHANGED records
  BY <1>1 DEF Holds, Live, Present, active
<1>2. CASE Update(job[w], Progress(n))
  <2>1. Progress(n) \in Operation /\ Progress(n).op = "progress"
    BY DEF Operation, Progress
  <2>2. /\ records'[job[w]].state = records[job[w]].state
        /\ records'[job[w]].path = records[job[w]].path
        /\ Present(job[w])'
        /\ records'[job[w]].state \in ActiveState => records'[job[w]].ttl = LeaseTTL
    BY <1>2, <2>1, UpdateFields
  <2> QED BY <2>2, StoreAssumption DEF Holds, Live, active, Present, ActiveState
<1> QED BY <1>1, <1>2

(* A worker's own steps keep what is known of it: each is taken where the  *)
(* lease lasts for all that may follow, or renews it.                      *)
LEMMA OwnStep ==
  ASSUME SystemInv, NEW w \in Worker, WorkerStep(w)
  PROVE  WorkerInv(w)'
<1>1. /\ SystemTypeOK /\ StoreTypeOK /\ WorkerTypeOK
      /\ Control(w) /\ Deadlines(w) /\ ClaimIsFinal(w) /\ LeaseOutlasts(w)
  BY DEF SystemInv, SystemTypeOK
<1>2. job[w] \in Id /\ job'[w] = job[w]
  BY <1>1, WorkerCalls, WorkerFrame
<1>3. report[w] \in 0..MaxProgress /\ due[w] \in Nat /\ grace[w] \in Nat
  BY <1>1 DEF WorkerTypeOK
<1> DEFINE Reported == UNCHANGED records \/ Update(job[w], Progress(report[w]))
           Lasts(m) == /\ Live(job[w])'
                       /\ records'[job[w]].state = "running"
                       /\ records'[job[w]].path = dir'[w]
                       /\ m < records'[job[w]].ttl
           Kept == /\ Control(w)' /\ Deadlines(w)'
                   /\ HasClaimed(w)' => HasClaimed(w)
                   /\ Reported /\ dir'[w] = dir[w]
                   /\ monitor'[w] = "select" => Lasts(due'[w] + CallTimeout + KillGrace)
                   /\ monitor'[w] = "update" => Lasts(due'[w] + KillGrace)
                   /\ main'[w] = "start" => Lasts(KillGrace)
                   /\ main'[w] = "wait" /\ rsync'[w] = "run" => Lasts(grace'[w])
<1>4. ASSUME Kept
      PROVE  WorkerInv(w)'
  <2>1. CASE UNCHANGED records
    BY <1>1, <1>2, <1>4, <2>1
       DEF ClaimIsFinal, HasClaimed, Present, WorkerInv, LeaseOutlasts, Holds,
           Transferring
  <2>2. CASE Update(job[w], Progress(report[w]))
    <3>1. Progress(report[w]) \in Operation /\ Progress(report[w]).op = "progress"
      BY <1>3 DEF Operation, Progress
    <3>2. records'[job[w]].state = records[job[w]].state /\ Live(job[w])
      BY <1>1, <1>2, <2>2, <3>1, UpdateFields
    <3>3. ClaimIsFinal(w)'
      BY <1>1, <1>2, <1>4, <3>2 DEF ClaimIsFinal, HasClaimed, Present, Live
    <3> QED BY <1>2, <1>4, <3>3 DEF WorkerInv, LeaseOutlasts, Holds, Transferring
  <2> QED BY <1>4, <2>1, <2>2
<1>5. ASSUME Reported, dir'[w] = dir[w]
      PROVE  \A m, n \in Nat : Holds(w, m) /\ m < LeaseTTL /\ n <= m => Lasts(n)
  <2> SUFFICES ASSUME NEW m \in Nat, NEW n \in Nat, Holds(w, m), m < LeaseTTL, n <= m
               PROVE  Lasts(n)
    OBVIOUS
  <2>1. Holds(w, n) /\ n < LeaseTTL
    BY <1>1, <1>2, StoreAssumption DEF Holds, StoreTypeOK, Live, Present, Record
  <2> QED BY <1>1, <1>2, <1>3, <1>5, <2>1, HoldsAfterReport
<1>6. /\ monitor[w] = "select" => due[w] + CallTimeout + KillGrace < LeaseTTL
      /\ monitor[w] = "update" => due[w] + KillGrace < LeaseTTL
      /\ KillGrace < LeaseTTL
      /\ grace[w] < LeaseTTL
  BY <1>1, Margins
<1>7. CASE ClaimSucceeds(w)
  <2>1. /\ Live(job[w])'
        /\ records'[job[w]].state = "running"
        /\ records'[job[w]].path = records[job[w]].path
        /\ records'[job[w]].ttl = LeaseTTL
    <3>1. Claim \in Operation /\ Claim.op = "claim"
      BY DEF Operation, Claim
    <3>2. Update(job[w], Claim)
      BY <1>7 DEF ClaimSucceeds, CallReplies
    <3>3. /\ records'[job[w]].state = "running" /\ Present(job[w])'
          /\ records'[job[w]].path = records[job[w]].path
          /\ records'[job[w]].state \in ActiveState => records'[job[w]].ttl = LeaseTTL
      BY <1>1, <1>2, <3>1, <3>2, UpdateFields
    <3> QED BY <1>2, <3>3, StoreAssumption DEF Live, active, ActiveState, Present
  <2>2. main'[w] = "check" /\ monitor'[w] = "select" /\ rsync'[w] = "none" /\ grace'[w] = grace[w]
        /\ due'[w] = Poll + CallTimeout /\ dir'[w] = records[job[w]].path
    BY <1>1, <1>7 DEF ClaimSucceeds, Goto, WorkerTypeOK, Control, HasClaimed, proc
  <2> QED BY <1>1, <1>2, <2>1, <2>2, WorkerAssumption, LeaseOutlastsWorker
          DEF WorkerInv, Control, Deadlines, ClaimIsFinal, LeaseOutlasts, Holds,
             HasClaimed, Transferring
<1>8. CASE ClaimFails(w)
  <2>1. main'[w] = "exit" /\ monitor'[w] = "off" /\ rsync'[w] = "none" /\ grace'[w] = grace[w]
        /\ job'[w] = job[w]
    BY <1>1, <1>2, <1>8
       DEF ClaimFails, Goto, WorkerTypeOK, Control, HasClaimed, proc, moni
  <2> QED BY <1>1, <1>2, <2>1, WorkerAssumption
          DEF WorkerInv, Control, Deadlines, ClaimIsFinal, LeaseOutlasts, HasClaimed,
             Transferring
<1>9. CASE FinalProgress(w) \/ FinishRecord(w)
  <2>1. main'[w] \in {"finish", "notify"} /\ monitor'[w] = monitor[w] /\ monitor[w] \in {"nil", "err"}
        /\ cancelled'[w] = cancelled[w]
        /\ rsync'[w] = rsync[w] /\ grace'[w] = grace[w]
    BY <1>1, <1>9 DEF FinalProgress, FinishRecord, Goto, WorkerTypeOK, Control, proc, moni
  <2>2. ClaimIsFinal(w)'
    <3>1. CASE UNCHANGED records
      BY <1>1, <1>2, <2>1, <3>1 DEF ClaimIsFinal, HasClaimed, Present
    <3>2. ASSUME NEW o \in {LastProgress(w), Finish(outcome[w])}, Update(job[w], o)
          PROVE  ClaimIsFinal(w)'
      <4>1. /\ o \in Operation
            /\ o.op = "progress" \/ (o.op = "finish" /\ o.state \in FinalState)
        <5>1. o \in Operation
          BY <1>1, CallsAreOperations
        <5> QED BY <1>1, <5>1 DEF LastProgress, Progress, Finish, WorkerTypeOK
      <4>2. records'[job[w]].state = records[job[w]].state \/ records'[job[w]].state \in FinalState
        BY <1>1, <1>2, <3>2, <4>1, UpdateFields
      <4>3. Present(job[w])
        BY <3>2 DEF Update, Accepts, Live
      <4> QED BY <1>1, <1>2, <2>1, <4>2, <4>3 DEF ClaimIsFinal, HasClaimed, FinalState
    <3> QED BY <1>9, <3>1, <3>2
               DEF FinalProgress, FinishRecord, Saves, CallReplies, CallFails
  <2> QED BY <1>1, <1>2, <2>1, <2>2, WorkerAssumption
          DEF WorkerInv, Control, Deadlines, LeaseOutlasts, HasClaimed, Transferring
<1> HIDE DEF Lasts
<1>10. ASSUME dir'[w] = dir[w], Reported
       PROVE  /\ monitor[w] = "select" => Lasts(due[w] + CallTimeout + KillGrace)
                     /\ Lasts(CallTimeout + KillGrace) /\ Lasts(KillGrace)
              /\ monitor[w] = "update" => Lasts(due[w] + KillGrace) /\ Lasts(KillGrace)
              /\ main[w] = "start" => Lasts(KillGrace) /\ Lasts(grace[w])
              /\ Transferring(w) => Lasts(grace[w])
  <2>1. /\ due[w] + CallTimeout + KillGrace \in Nat /\ CallTimeout + KillGrace \in Nat
        /\ KillGrace \in Nat /\ grace[w] \in Nat /\ due[w] + KillGrace \in Nat
        /\ CallTimeout + KillGrace <= due[w] + CallTimeout + KillGrace
        /\ KillGrace <= due[w] + CallTimeout + KillGrace
        /\ KillGrace <= due[w] + KillGrace
        /\ grace[w] <= KillGrace
    BY <1>1, <1>3, WorkerAssumption DEF Deadlines
  <2>2. monitor[w] = "select" => Lasts(due[w] + CallTimeout + KillGrace)
                     /\ Lasts(CallTimeout + KillGrace) /\ Lasts(KillGrace)
    BY <1>1, <1>5, <1>6, <1>10, <2>1 DEF LeaseOutlasts
  <2>3. monitor[w] = "update" => Lasts(due[w] + KillGrace) /\ Lasts(KillGrace)
    BY <1>1, <1>5, <1>6, <1>10, <2>1 DEF LeaseOutlasts
  <2>4. main[w] = "start" => Lasts(KillGrace) /\ Lasts(grace[w])
    BY <1>1, <1>5, <1>6, <1>10, <2>1 DEF LeaseOutlasts
  <2>5. Transferring(w) => Lasts(grace[w])
    BY <1>1, <1>5, <1>6, <1>10, <2>1 DEF LeaseOutlasts
  <2> QED BY <2>2, <2>3, <2>4, <2>5
<1>11. CASE MonitorReported(w)
  <2>1. Reported /\ Update(job[w], Progress(report[w]))
    BY <1>11 DEF MonitorReported, CallReplies
  <2>2. dir'[w] = dir[w] /\ rsync'[w] = rsync[w] /\ main'[w] = main[w] /\ grace'[w] = grace[w]
    BY <1>11 DEF MonitorReported, local, proc
  <2>3. \/ monitor'[w] = "nil" /\ cancelled'[w]
        \/ monitor'[w] = "select" /\ due'[w] = due[w] + Poll /\ cancelled'[w] = cancelled[w]
    BY <1>1, <1>11 DEF MonitorReported, CancelContext, MonitorReturns, WorkerTypeOK
  <2>4. Lasts(due[w] + Poll + CallTimeout + KillGrace)
    <3>1. Progress(report[w]) \in Operation /\ Progress(report[w]).op = "progress"
      BY <1>3 DEF Operation, Progress
    <3>2. records'[job[w]].state \in ActiveState => records'[job[w]].ttl = LeaseTTL
      BY <1>1, <1>2, <2>1, <3>1, UpdateFields
    <3>3. Lasts(KillGrace)
      BY <1>10, <1>11, <2>1, <2>2 DEF MonitorReported
    <3>4. due[w] + Poll + CallTimeout + KillGrace < LeaseTTL
      BY <1>1, <1>3, <1>11, WorkerAssumption, LeaseOutlastsWorker, StoreAssumption
         DEF MonitorReported, Deadlines
    <3> QED BY <3>2, <3>3, <3>4 DEF Lasts, ActiveState
  <2>5. Kept
    BY <1>1, <1>2, <1>3, <1>10, <1>11, <2>1, <2>2, <2>3, <2>4, WorkerAssumption
       DEF MonitorReported, Control, Deadlines, HasClaimed, Transferring
  <2> QED BY <1>4, <2>5
<1> USE <1>1, <1>2, <1>3, <1>4, <1>10, WorkerAssumption
    DEF Control, Deadlines, HasClaimed, Transferring, WorkerTypeOK
<1>12. CASE MonitorSeesCancel(w)
  <2>1. Kept
    BY <1>12 DEF MonitorSeesCancel, MonitorReturns, local, proc
  <2> QED BY <2>1
<1>13. CASE MonitorTicks(w)
  <2>1. Kept
    BY <1>13 DEF MonitorTicks, local, proc
  <2> QED BY <2>1
<1>14. CASE MonitorFails(w)
  <2>1. Kept
    BY <1>14 DEF MonitorFails, CallFails, CancelContext, MonitorReturns, local, proc
  <2> QED BY <2>1
<1>15. CASE ContextIsDone(w)
  <2>1. Kept
    BY <1>15 DEF ContextIsDone, Goto, local, proc, moni
  <2> QED BY <2>1
<1>16. CASE NotifyStart(w)
  <2>1. Kept
    BY <1>16 DEF NotifyStart, Goto, local, proc, moni
  <2> QED BY <2>1
<1>17. CASE CallStartSync(w)
  <2>1. Kept
    BY <1>17 DEF CallStartSync, Goto, local, proc, moni
  <2> QED BY <2>1
<1>18. CASE StartRsync(w)
  <2>1. Kept
    BY <1>18 DEF StartRsync, Goto, local, moni
  <2> QED BY <2>1
<1>19. CASE StartSyncReturns(w)
  <2>1. Kept
    BY <1>19 DEF StartSyncReturns, Goto, local, proc, moni
  <2> QED BY <2>1
<1>20. CASE CancelMonitor(w)
  <2>1. Kept
    BY <1>20 DEF CancelMonitor, CancelContext, Goto, local, proc, moni
  <2> QED BY <2>1
<1>21. CASE JoinMonitor(w)
  <2>1. Kept
    BY <1>21 DEF JoinMonitor, Goto, local, proc, moni
  <2> QED BY <2>1
<1>22. CASE NotifyEnd(w)
  <2>1. Kept
    BY <1>22 DEF NotifyEnd, Goto, local, proc, moni
  <2> QED BY <2>1
<1>23. CASE Sigterm(w)
  <2>1. Kept
    BY <1>23 DEF Sigterm, local, proc, moni
  <2> QED BY <2>1
<1>24. CASE Crash(w)
  <2>1. Kept
    BY <1>24 DEF Crash, local, proc
  <2> QED BY <2>1
<1>25. ASSUME NEW n \in 0..MaxProgress, RsyncReports(w, n) PROVE WorkerInv(w)'
  <2>1. Kept
    BY <1>25 DEF RsyncReports, local, moni
  <2> QED BY <2>1
<1>26. ASSUME NEW r \in {"ok", "fail"}, RsyncExits(w, r) PROVE WorkerInv(w)'
  <2>1. Kept
    BY <1>26 DEF RsyncExits, local, moni
  <2> QED BY <2>1
<1> QED BY <1>7, <1>8, <1>9, <1>11, <1>12, <1>13, <1>14, <1>15, <1>16, <1>17, <1>18,
           <1>19, <1>20, <1>21, <1>22, <1>23, <1>24, <1>25, <1>26 DEF WorkerStep

(* A worker without a claim can only try to get it, or end.                *)
LEMMA UnclaimedStep ==
  ASSUME SystemTypeOK, NEW w \in Worker, Control(w), WorkerStep(w), ~HasClaimed(w)
  PROVE  /\ UNCHANGED records \/ Update(job[w], Claim)
         /\ HasClaimed(w)' => ClaimSucceeds(w)
         /\ UNCHANGED events
<1>1. ClaimSucceeds(w) \/ ClaimFails(w) \/ Sigterm(w) \/ Crash(w)
  BY
     DEF WorkerStep, Control, HasClaimed, MonitorSeesCancel, MonitorTicks,
         MonitorReported,
         MonitorFails, ContextIsDone, NotifyStart, CallStartSync, StartRsync, RsyncReports,
         RsyncExits, StartSyncReturns, CancelMonitor, JoinMonitor, FinalProgress,
         FinishRecord, NotifyEnd, Goto
<1>2. UNCHANGED records \/ Update(job[w], Claim)
  BY <1>1, FailedCall DEF ClaimSucceeds, ClaimFails, CallReplies, Sigterm, Crash
<1>3. UNCHANGED events
  BY <1>1 DEF ClaimSucceeds, ClaimFails, Sigterm, Crash
<1>4. ~ClaimSucceeds(w) => ~HasClaimed(w)'
  BY <1>1 DEF ClaimFails, Sigterm, Crash, moni, HasClaimed, SystemTypeOK, WorkerTypeOK
<1> QED BY <1>2, <1>3, <1>4

(* A worker's step does not disturb a claim that another worker has.       *)
LEMMA OtherClaims ==
  ASSUME SystemInv, NEW w \in Worker, WorkerStep(w), NEW v \in Worker \ {w}, HasClaimed(v)
  PROVE  /\ job[v] \in Id /\ Calm(job[v])
         /\ ClaimSucceeds(w) => job[v] # job[w]
<1> USE DEF SystemInv
<1>1. job[v] \in Id
  BY DEF Control, HasClaimed, SystemTypeOK, WorkerTypeOK
<1>2. CASE job[v] # job[w]
  BY <1>1, <1>2, WorkerFrame
<1>3. CASE job[v] = job[w]
  <2>1. ~HasClaimed(w)
    BY <1>3 DEF ClaimIsSole
  <2>2. ~Update(job[w], Claim)
    BY <1>3 DEF Update, Accepts, Claim, Live, ClaimIsFinal
  <2>3. UNCHANGED records
    BY <2>1, <2>2, UnclaimedStep
  <2> QED BY <1>1, <2>2, <2>3, UnchangedIsCalm DEF ClaimSucceeds, CallReplies
<1> QED BY <1>2, <1>3

(* A worker step keeps the whole invariant.                                *)
LEMMA WorkerKeepsInv ==
  ASSUME SystemInv, NEW w \in Worker, WorkerStep(w), UNCHANGED webVars
  PROVE  SystemInv'
<1> USE DEF SystemInv
<1>1. SystemTypeOK /\ WorkerTypeOK /\ WebTypeOK /\ StoreTypeOK /\ \A v \in Worker : WorkerInv(v)
  BY DEF SystemTypeOK, WorkerInv
<1>2. \A v \in Worker : WorkerInv(v)'
  <2> SUFFICES ASSUME NEW v \in Worker PROVE WorkerInv(v)'
    OBVIOUS
  <2>1. CASE v = w
    BY <2>1, OwnStep
  <2>2. CASE v # w
    BY <1>1, <2>2, WorkerFrame, OtherClaims, WorkerKept
  <2> QED BY <2>1, <2>2
<1>3. \A i \in Id : RequestInv(i)'
  <2> SUFFICES ASSUME NEW i \in Id PROVE RequestInv(i)'
    OBVIOUS
  <2>1. CASE i = job[w]
    BY <2>1, OwnRequest, WorkerFrame
  <2>2. CASE i # job[w]
    <3>1. SameRequest(i)
      BY DEF SameRequest, webVars, removal
    <3> QED BY <1>1, <2>2, <3>1, WorkerFrame, RequestKept DEF RequestInv
  <2> QED BY <2>1, <2>2
<1>4. \A v \in Worker : job'[v] = job[v] /\ JobLaunched(v)'
  BY WorkerFrame DEF SameWorker, JobLaunched, webVars
<1>5. ClaimIsSole'
  <2> SUFFICES ASSUME NEW a \in Worker, NEW b \in Worker, a # b, HasClaimed(a)', HasClaimed(b)'
               PROVE  job[a] # job[b]
    BY <1>4 DEF ClaimIsSole
  <2>1. \A v \in Worker : HasClaimed(v)' => HasClaimed(v) \/ (v = w /\ ClaimSucceeds(w))
    BY WorkerFrame, UnclaimedStep DEF SameWorker, HasClaimed
  <2> QED BY <2>1, OtherClaims DEF ClaimIsSole
<1>6. SystemTypeOK'
  <2>1. StoreTypeOK'
    BY <1>1, WorkerCalls, StoreTypeStep DEF StoreNext
  <2>2. WebTypeOK'
    BY <1>1 DEF WebTypeOK, webVars, removal
  <2> QED BY <2>1, <2>2, WorkerTypeStep DEF SystemTypeOK
<1> QED BY <1>2, <1>3, <1>4, <1>5, <1>6 DEF WorkerInv, RequestInv

-----------------------------------------------------------------------------
(* The steps of a handler.                                                 *)

(* They are invisible to other requests.                                   *)
LEMMA WebFrame ==
  ASSUME SystemInv, NEW i \in Id, WebStep(i)
  PROVE  \A j \in Id \ {i} : Calm(j) /\ SameRequest(j)
<1> SUFFICES ASSUME NEW j \in Id \ {i} PROVE Calm(j) /\ SameRequest(j)
  OBVIOUS
<1>1. SystemTypeOK /\ StoreTypeOK /\ WebTypeOK /\ Provenance(i)
  BY DEF SystemInv, SystemTypeOK
<1>2. Calm(j)
  <2>1. ASSUME NEW p \in Path, NEW s \in {"queued", "removing"}, ReserveFresh(i, p, s)
        PROVE  Calm(j)
    BY <1>1, <2>1, GrantFields DEF ReserveFresh
  <2>2. ASSUME NEW p \in Path, ReserveRefused(p)
        PROVE  Calm(j)
    BY <1>1, <2>2, DropIsCalm DEF ReserveRefused
  <2> QED BY <1>1, <2>1, <2>2, WebCalls, UpdateIsCalm, UnchangedIsCalm
<1>3. SameRequest(j)
  BY <1>1
     DEF WebStep, StartReserve, CleanupLaunch, RemoveReserve, HeartbeatTicks,
         HeartbeatReplies,
     HeartbeatFails, HeartbeatEnds, RemoveAllReturns, RemoveJoin, RemoveFinish, WebCrash,
     ReserveReplies, ReserveFails, HeartbeatReturns, Answer, removal, WebTypeOK, SameRequest
<1> QED BY <1>2, <1>3

(* A launched reservation is never removed, nor renewed, by a handler.     *)
LEMMA WebSparesClaims ==
  ASSUME SystemInv, NEW i \in Id, WebStep(i), request[i] \in Launched
  PROVE  /\ CleanupLaunch(i) \/ UNCHANGED records
         /\ request'[i] \in Launched
         /\ (Present(i) => records[i].state # "queued") => Calm(i)
<1>1. SystemTypeOK /\ StoreTypeOK /\ WebTypeOK /\ Provenance(i)
  BY DEF SystemInv, SystemTypeOK
<1>2. CleanupLaunch(i) \/ WebCrash(i)
  BY <1>1
     DEF WebStep, StartReserve, CleanupLaunch, RemoveReserve, HeartbeatTicks,
         HeartbeatReplies,
     HeartbeatFails, HeartbeatEnds, RemoveAllReturns, RemoveJoin, RemoveFinish,
     ReserveReplies, ReserveFails, Fresh, Launched, Provenance, Beating
<1>3. request'[i] \in Launched
  BY <1>1, <1>2 DEF CleanupLaunch, WebCrash, Answer, Launched, WebTypeOK
<1>4. ASSUME Present(i) => records[i].state # "queued" PROVE Calm(i)
  <2>1. UNCHANGED records \/ Update(i, LaunchFailed)
    BY <1>2, FailedCall DEF CleanupLaunch, WebCrash, CallReplies
  <2>2. ASSUME Update(i, LaunchFailed) PROVE Calm(i)
    <3>1. LaunchFailed \in Operation /\ LaunchFailed.op = "launch_failed"
      BY DEF Operation, LaunchFailed
    <3>2. Present(i)
      BY <2>2 DEF Update, Accepts, Live
    <3> QED BY <1>1, <1>4, <2>2, <3>1, <3>2, UpdateIsCalm
  <2> QED BY <2>1, <2>2, UnchangedIsCalm
<1> QED BY <1>2, <1>3, <1>4 DEF WebCrash

(* A handler's own steps keep what is known of its request.                *)
LEMMA OwnWebStep ==
  ASSUME SystemInv, NEW i \in Id, WebStep(i), UNCHANGED workerVars
  PROVE  RequestInv(i)'
<1>1. /\ SystemTypeOK /\ StoreTypeOK /\ WebTypeOK
      /\ Provenance(i) /\ BeatOutlasts(i)
      /\ UNCHANGED events
  BY DEF SystemInv, SystemTypeOK, workerVars
<1>2. hbDue[i] \in Nat /\ HeartbeatPoll \in Nat /\ HeartbeatTimeout \in Nat
  BY <1>1, WebAssumption DEF WebTypeOK
<1> USE <1>1 DEF RequestInv
<1>3. ASSUME NEW p \in Path, NEW s \in {"queued", "removing"}, ReserveFails(i, p, s)
      PROVE  RequestInv(i)'
  <2>1. request'[i] \in {"conflict", "error"} /\ heartbeat'[i] = heartbeat[i] /\ ~Beating(i)
    BY <1>3 DEF ReserveFails, Fresh, Answer, removal, Provenance, WebTypeOK
  <2> QED BY <2>1 DEF Provenance, BeatOutlasts, Beating
<1>4. ASSUME NEW p \in Path, NEW s \in {"queued", "removing"}, ReserveReplies(i, p, s)
      PROVE  /\ request[i] = "idle" /\ ~Beating(i)
             /\ Live(i)'
             /\ records'[i].path = p
             /\ records'[i].state = s
             /\ records'[i].ttl = QueuedTTL
  <2>1. request[i] = "idle" /\ records[i] = NoRecord /\ ~Beating(i)
    BY <1>4 DEF ReserveReplies, Fresh, Provenance
  <2> QED BY <1>4, <2>1, GrantFields DEF ReserveReplies
<1>5. ASSUME NEW p \in Path, StartReserve(i, p) PROVE RequestInv(i)'
  <2>1. CASE ReserveReplies(i, p, "queued") /\ Answer(i, "launch") /\ UNCHANGED removal
    <3>1. request'[i] = "launch" /\ heartbeat'[i] = heartbeat[i]
      BY <2>1 DEF Answer, removal, WebTypeOK
    <3>2. records'[i].state = "queued" /\ ~Beating(i)
      BY <1>4, <2>1
    <3> QED BY <3>1, <3>2 DEF Provenance, BeatOutlasts, Beating
  <2> QED BY <1>3, <1>5, <2>1 DEF StartReserve
<1>6. ASSUME NEW p \in Path, RemoveReserve(i, p) PROVE RequestInv(i)'
  <2>1. CASE ReserveFails(i, p, "removing")
    BY <1>3, <2>1
  <2>2. CASE ~ReserveFails(i, p, "removing")
    <3>1. /\ ReserveReplies(i, p, "removing")
          /\ request'[i] = "deleting" /\ heartbeat'[i] = "select" /\ target'[i] = p
          /\ hbDue'[i] = HeartbeatPoll + HeartbeatTimeout
      BY <1>6, <2>2 DEF RemoveReserve, Answer, WebTypeOK
    <3>2. /\ Live(i)' /\ records'[i].path = p /\ records'[i].state = "removing"
          /\ records'[i].ttl = QueuedTTL
      BY <1>4, <3>1
    <3>3. HeartbeatPoll + HeartbeatTimeout + HeartbeatTimeout < QueuedTTL
      BY WebAssumption
    <3> QED BY <3>1, <3>2, <3>3, <1>2 DEF Provenance, BeatOutlasts, Beating, Keeps
  <2> QED BY <2>1, <2>2
<1>7. CASE CleanupLaunch(i)
  <2>1. request[i] = "cleanup" /\ request'[i] = "notify" /\ heartbeat'[i] = heartbeat[i]
    BY <1>7 DEF CleanupLaunch, Answer, removal, WebTypeOK
  <2>2. UNCHANGED records \/ Update(i, LaunchFailed)
    BY <1>7, FailedCall DEF CleanupLaunch, CallReplies
  <2>3. Present(i)' => records'[i].state # "removing"
    <3>1. LaunchFailed \in Operation /\ LaunchFailed.op = "launch_failed"
      BY DEF Operation, LaunchFailed
    <3>2. CASE Update(i, LaunchFailed)
      <4>1. Present(i)
        BY <3>2 DEF Update, Accepts, Live
      <4>2. records'[i].state = "failed" \/ records'[i].state = records[i].state
        BY <3>1, <3>2, UpdateFields
      <4> QED BY <2>1, <4>1, <4>2 DEF Provenance
    <3> QED BY <2>1, <2>2, <3>2 DEF Provenance, Present
  <2> QED BY <2>1, <2>3 DEF Provenance, BeatOutlasts, Beating
<1>8. CASE HeartbeatTicks(i)
  <2>1. /\ heartbeat[i] = "select" /\ heartbeat'[i] = "update" /\ hbDue'[i] = HeartbeatTimeout
        /\ UNCHANGED <<records, request, target>>
    BY <1>8 DEF HeartbeatTicks, WebTypeOK
  <2>2. records[i].ttl \in Nat
    BY <2>1 DEF BeatOutlasts, Keeps, Live, Present, StoreTypeOK, Record
  <2> QED BY <1>2, <2>1, <2>2 DEF Provenance, BeatOutlasts, Beating, Keeps, Live, Present
<1>9. CASE HeartbeatReplies(i)
  <2>1. /\ heartbeat[i] = "update" /\ heartbeat'[i] = "select" /\ hbDue'[i] = hbDue[i] + HeartbeatPoll
        /\ UNCHANGED <<request, target>> /\ Update(i, Heartbeat)
    BY <1>9 DEF HeartbeatReplies, CallReplies, WebTypeOK
  <2>2. Heartbeat \in Operation /\ Heartbeat.op = "heartbeat"
    BY DEF Operation, Heartbeat
  <2>3. Calm(i)
    BY <2>1, <2>2, UpdateIsCalm
  <2>4. records'[i].state \in ActiveState => records'[i].ttl = LeaseTTL
    BY <2>1, <2>2, UpdateFields
  <2>5. hbDue[i] <= HeartbeatTimeout /\ Keeps(i, hbDue[i])
    BY <2>1 DEF BeatOutlasts
  <2>6. /\ Live(i)' /\ records'[i].state = "removing" /\ records'[i].path = target[i]
        /\ records'[i].ttl = LeaseTTL
    BY <2>3, <2>4, <2>5 DEF Calm, Keeps, Live, ActiveState
  <2>7. hbDue[i] + HeartbeatPoll + HeartbeatTimeout < LeaseTTL
        /\ hbDue[i] + HeartbeatPoll <= HeartbeatPoll + HeartbeatTimeout
    <3>1. LeaseTTL \in Nat /\ HeartbeatPoll + HeartbeatTimeout + HeartbeatTimeout < LeaseTTL
      BY WebAssumption, StoreAssumption
    <3>2. hbDue[i] <= HeartbeatTimeout
      BY <2>5
    <3> HIDE <1>1
    <3> QED BY <1>2, <3>1, <3>2
  <2>8. Provenance(i)'
    BY <2>1 DEF Provenance, Beating
  <2> QED BY <2>1, <2>6, <2>7, <2>8 DEF BeatOutlasts, Keeps
<1>10. CASE HeartbeatFails(i) \/ HeartbeatEnds(i)
  <2>1. /\ Beating(i) /\ heartbeat'[i] \in {"nil", "err"}
        /\ heartbeat'[i] = "nil" => request[i] = "join"
        /\ UNCHANGED request
    BY <1>10 DEF HeartbeatFails, HeartbeatEnds, HeartbeatReturns, Beating, WebTypeOK
  <2> QED BY <2>1 DEF Provenance, BeatOutlasts, Beating
<1>11. ASSUME NEW ok \in BOOLEAN, RemoveAllReturns(i, ok) PROVE RequestInv(i)'
  <2>1. request'[i] = "join" /\ UNCHANGED <<records, heartbeat, hbDue, target>>
    BY <1>11 DEF RemoveAllReturns, Answer, WebTypeOK
  <2> QED BY <2>1 DEF Provenance, BeatOutlasts, Beating, Keeps, Live, Present
<1>12. CASE RemoveJoin(i) \/ RemoveFinish(i)
  <2>1. /\ request'[i] \in {"finish", "removed", "removeError"} /\ heartbeat'[i] = heartbeat[i]
        /\ ~Beating(i)
    BY <1>12 DEF RemoveJoin, RemoveFinish, Answer, removal, Provenance, Beating, WebTypeOK
  <2> QED BY <2>1 DEF Provenance, BeatOutlasts, Beating
<1>13. CASE WebCrash(i)
  <2>1. request'[i] = "dead" /\ heartbeat'[i] \in {"off", "dead"}
    BY <1>13 DEF WebCrash, Answer, WebTypeOK
  <2> QED BY <2>1 DEF Provenance, BeatOutlasts, Beating
<1> QED BY <1>5, <1>6, <1>7, <1>8, <1>9, <1>10, <1>11, <1>12, <1>13 DEF WebStep

(* No handler disturbs the reservation a worker has claimed.               *)
LEMMA ClaimUndisturbed ==
  ASSUME SystemInv, NEW i \in Id, WebStep(i), NEW v \in Worker, HasClaimed(v)
  PROVE  job[v] \in Id /\ Calm(job[v])
<1> USE DEF SystemInv
<1>1. job[v] \in Id /\ job[v] # NoJob
  BY WorkerAssumption DEF Control, HasClaimed, SystemTypeOK, WorkerTypeOK
<1>2. CASE job[v] = i
  <2>1. request[i] \in Launched /\ (Present(i) => records[i].state # "queued")
    BY <1>1, <1>2 DEF JobLaunched, ClaimIsFinal
  <2> QED BY <1>1, <1>2, <2>1, WebSparesClaims
<1> QED BY <1>1, <1>2, WebFrame

(* A handler step keeps the whole invariant.                               *)
LEMMA WebKeepsInv ==
  ASSUME SystemInv, NEW i \in Id, WebStep(i), UNCHANGED workerVars
  PROVE  SystemInv'
<1> USE DEF SystemInv
<1>1. /\ SystemTypeOK /\ WorkerTypeOK /\ WebTypeOK /\ StoreTypeOK
      /\ \A v \in Worker : WorkerInv(v)
      /\ UNCHANGED events
  BY DEF SystemTypeOK, WorkerInv, workerVars
<1>2. \A v \in Worker : SameWorker(v)
  BY DEF SameWorker, workerVars, local, moni, proc, final
<1>3. \A v \in Worker : HasClaimed(v) => Calm(job[v])
  BY ClaimUndisturbed
<1>4. \A v \in Worker : WorkerInv(v)'
  BY <1>1, <1>2, <1>3, WorkerKept
<1>5. \A j \in Id : RequestInv(j)'
  BY <1>1, OwnWebStep, WebFrame, RequestKept DEF RequestInv
<1>6. \A v \in Worker : JobLaunched(v)'
  <2>1. \A j \in Id : request[j] \in Launched => request'[j] \in Launched
    BY WebFrame, WebSparesClaims DEF SameRequest
  <2> QED BY <1>1, <1>2, <2>1 DEF JobLaunched, SameWorker, WorkerTypeOK
<1>7. ClaimIsSole'
  BY <1>2 DEF ClaimIsSole, HasClaimed, SameWorker
<1>8. SystemTypeOK'
  <2>1. StoreTypeOK'
    BY <1>1, WebCalls, StoreTypeStep DEF StoreNext
  <2>2. WorkerTypeOK'
    BY <1>1 DEF WorkerTypeOK, workerVars, local, moni, proc, final
  <2> QED BY <1>1, <2>1, <2>2, WebTypeStep DEF SystemTypeOK
<1> QED BY <1>4, <1>5, <1>6, <1>7, <1>8 DEF WorkerInv, RequestInv

(* Stop requests, listings, and a step that does nothing.                  *)
LEMMA QuietKeepsInv ==
  ASSUME SystemInv, UNCHANGED <<faults, workerVars, webVars>>,
         \/ \E p \in Path : Stop(p)
         \/ List
         \/ UNCHANGED records
  PROVE  SystemInv'
<1> USE DEF SystemInv
<1>1. /\ SystemTypeOK /\ WorkerTypeOK /\ WebTypeOK /\ StoreTypeOK
      /\ \A v \in Worker : WorkerInv(v)
      /\ UNCHANGED events
  BY DEF SystemTypeOK, WorkerInv, workerVars
<1>2. /\ \A v \in Worker : SameWorker(v)
      /\ \A i \in Id : SameRequest(i)
  BY DEF SameWorker, SameRequest, workerVars, local, moni, proc, final, webVars, removal
<1>3. \A j \in Id : Calm(j)
  BY <1>1, StopIsCalm, DropIsCalm, UnchangedIsCalm DEF List
<1>4. \A v \in Worker : WorkerInv(v)'
  <2>1. \A v \in Worker : HasClaimed(v) => job[v] \in Id
    BY <1>1 DEF Control, HasClaimed, WorkerTypeOK
  <2> QED BY <1>1, <1>2, <1>3, <2>1, WorkerKept
<1>5. \A i \in Id : RequestInv(i)'
  BY <1>1, <1>2, <1>3, RequestKept DEF RequestInv
<1>6. (\A v \in Worker : JobLaunched(v)') /\ ClaimIsSole'
  <2>1. job' = job /\ monitor' = monitor /\ request' = request
    BY DEF workerVars, local, moni, webVars
  <2> QED BY <2>1 DEF JobLaunched, ClaimIsSole, HasClaimed
<1>7. SystemTypeOK'
  <2>1. StoreTypeOK'
    BY <1>1, StoreTypeStep DEF StoreNext
  <2>2. WorkerTypeOK' /\ WebTypeOK'
    BY <1>1
       DEF WorkerTypeOK, WebTypeOK, workerVars, local, moni, proc, final, webVars, removal
  <2> QED BY <1>1, <2>1, <2>2 DEF SystemTypeOK
<1> QED BY <1>4, <1>5, <1>6, <1>7 DEF WorkerInv, RequestInv

-----------------------------------------------------------------------------
(* The steps in which handler and worker meet.                             *)

(* A worker started for a launched reservation has claimed nothing yet.    *)
LEMMA StartKeepsWorkers ==
  ASSUME SystemInv, NEW w \in Worker, NEW i \in Id, StartWorker(w, i), UNCHANGED records
  PROVE  /\ \A v \in Worker : WorkerInv(v)'
         /\ WorkerTypeOK' /\ ClaimIsSole' /\ UNCHANGED events
         /\ \A v \in Worker \ {w} : SameWorker(v)
         /\ job[w] = NoJob /\ job'[w] = i /\ ~HasClaimed(w) /\ ~HasClaimed(w)'
<1> USE DEF SystemInv
<1>1. /\ WorkerTypeOK /\ \A v \in Worker : WorkerInv(v)
  BY DEF SystemTypeOK, WorkerInv
<1>2. /\ \A v \in Worker \ {w} : SameWorker(v)
      /\ main[w] = "off" /\ main'[w] = "claim" /\ job'[w] = i
      /\ monitor'[w] = monitor[w] /\ rsync'[w] = rsync[w] /\ grace'[w] = grace[w]
      /\ UNCHANGED events
  BY <1>1 DEF StartWorker, Goto, moni, proc, final, SameWorker, WorkerTypeOK
<1>3. job[w] = NoJob /\ ~HasClaimed(w) /\ ~HasClaimed(w)' /\ rsync[w] = "none" /\ i # NoJob
  BY <1>2, WorkerAssumption DEF Control, HasClaimed
<1>4. WorkerInv(w)'
  BY <1>2, <1>3
     DEF WorkerInv, Control, Deadlines, ClaimIsFinal, LeaseOutlasts, Transferring,
         HasClaimed
<1>5. \A v \in Worker \ {w} : WorkerInv(v)'
  <2>1. \A v \in Worker : HasClaimed(v) => job[v] \in Id
    BY <1>1 DEF Control, HasClaimed, WorkerTypeOK
  <2> QED BY <1>1, <1>2, <2>1, UnchangedIsCalm, WorkerKept
<1>6. ClaimIsSole'
  BY <1>2, <1>3 DEF ClaimIsSole, SameWorker, HasClaimed
<1> QED BY <1>1, <1>2, <1>3, <1>4, <1>5, <1>6, StartWorkerType

(* Launching, failing to launch and starting a pod again keep the          *)
(* invariant.                                                              *)
LEMMA LaunchKeepsInv ==
  ASSUME SystemInv, NEW i \in Id,
         Launch(i) \/ LaunchFails(i) \/ NotifyLaunchError(i) \/ \E w \in Worker : Relaunch(w, i)
  PROVE  SystemInv'
<1> USE DEF SystemInv
<1>1. SystemTypeOK /\ WorkerTypeOK /\ WebTypeOK /\ StoreTypeOK
  BY DEF SystemTypeOK
<1>2. UNCHANGED <<records, removal>> /\ faults' \in Nat
  BY <1>1
     DEF Launch, LaunchFails, NotifyLaunchError, Relaunch, Fault, webVars, SystemTypeOK
<1>3. /\ \A j \in Id \ {i} : request'[j] = request[j]
      /\ request' \in [Id -> Request]
      /\ request'[i] \in Launched
      /\ request[i] \in Launched \cup {"launch"}
      /\ request[i] = "dead" <=> request'[i] = "dead"
  <2>1. CASE Launch(i) \/ LaunchFails(i) \/ NotifyLaunchError(i)
    BY <1>1, <2>1
       DEF Launch, LaunchFails, NotifyLaunchError, Answer, WebTypeOK, Launched, Request
  <2>2. ASSUME NEW w \in Worker, Relaunch(w, i)
        PROVE  UNCHANGED request /\ request[i] \in Launched
    BY <2>2, WorkerAssumption DEF Relaunch, JobLaunched, webVars
  <2> QED BY <1>1, <2>1, <2>2 DEF WebTypeOK
<1>4. StoreTypeOK' /\ WebTypeOK'
  BY <1>1, <1>2, <1>3 DEF StoreTypeOK, WebTypeOK, removal
<1> DEFINE Workers == /\ \A v \in Worker : WorkerInv(v)'
                      /\ \A v \in Worker : JobLaunched(v)'
                      /\ WorkerTypeOK' /\ ClaimIsSole'
                      /\ \A j \in Id \ {i} : events'[j] = events[j]
<1>5. ASSUME NEW w \in Worker, StartWorker(w, i) PROVE Workers
  <2>1. /\ \A v \in Worker : WorkerInv(v)'
        /\ WorkerTypeOK' /\ ClaimIsSole' /\ UNCHANGED events
        /\ \A v \in Worker \ {w} : SameWorker(v)
        /\ job'[w] = i
    BY <1>2, <1>5, StartKeepsWorkers
  <2>2. \A v \in Worker : job'[v] \in {job[v], i} /\ job[v] \in Id \cup {NoJob}
    BY <1>1, <2>1 DEF SameWorker, WorkerTypeOK
  <2>3. \A v \in Worker : JobLaunched(v)'
    BY <1>3, <2>2 DEF JobLaunched
  <2> QED BY <2>1, <2>3
<1>6. ASSUME UNCHANGED <<local, main, moni, cancelled, proc, final>>,
             UNCHANGED events \/ Notify("error", i)
      PROVE  Workers
  <2>1. /\ UNCHANGED <<job, dir, main, monitor, report, due, cancelled, rsync, seen, grace, outcome, saved>>
        /\ \A v \in Worker : SameWorker(v)
    BY <1>6 DEF local, moni, proc, final, SameWorker
  <2>2. \A v \in Worker : WorkerInv(v)'
    <3>1. \A v \in Worker : HasClaimed(v) => job[v] \in Id
      BY <1>1 DEF Control, HasClaimed, WorkerTypeOK
    <3> QED BY <1>1, <1>2, <2>1, <3>1, UnchangedIsCalm, WorkerKept DEF WorkerInv
  <2>3. ClaimIsSole' /\ \A v \in Worker : JobLaunched(v)'
    BY <1>1, <1>3, <2>1 DEF ClaimIsSole, HasClaimed, JobLaunched, WorkerTypeOK
  <2>4. events' \in [Id -> Seq(Event)] /\ \A j \in Id \ {i} : events'[j] = events[j]
    <3>1. "error" \in Event
      BY DEF Event
    <3> QED BY <1>1, <1>6, <3>1, NotifyType DEF WorkerTypeOK, Notify
  <2>5. WorkerTypeOK'
    BY <1>1, <2>1, <2>4 DEF WorkerTypeOK
  <2> QED BY <2>2, <2>3, <2>4, <2>5
<1> HIDE DEF Workers
<1>7. Workers
  <2>1. \/ \E w \in Worker : StartWorker(w, i)
        \/ UNCHANGED workerVars
        \/ UNCHANGED <<local, main, moni, cancelled, proc, final>> /\ Notify("error", i)
    BY DEF Launch, LaunchFails, NotifyLaunchError, Relaunch
  <2>2. UNCHANGED workerVars =>
          UNCHANGED <<local, main, moni, cancelled, proc, final>> /\ UNCHANGED events
    BY DEF workerVars
  <2> QED BY <1>5, <1>6, <2>1, <2>2
<1> USE DEF Workers
<1>8. \A j \in Id : RequestInv(j)'
  <2> SUFFICES ASSUME NEW j \in Id PROVE RequestInv(j)'
    OBVIOUS
  <2>1. CASE j = i
    <3>1. ~Beating(i) /\ heartbeat'[i] = heartbeat[i] /\ records'[i] = records[i]
      BY <1>2, <1>3 DEF Provenance, Launched, removal
    <3> QED BY <1>3, <2>1, <3>1
               DEF RequestInv, Provenance, BeatOutlasts, Beating, Launched, Present
  <2>2. CASE j # i
    BY <1>1, <1>2, <1>3, <1>7, <2>2, UnchangedIsCalm, RequestKept
       DEF RequestInv, SameRequest, removal
  <2> QED BY <2>1, <2>2
<1> QED BY <1>2, <1>4, <1>7, <1>8 DEF WorkerInv, RequestInv, SystemTypeOK

-----------------------------------------------------------------------------
(* A second passes for everybody.                                          *)

(* A second changes the ttl of a record and nothing else.                  *)
LEMMA TickFields ==
  ASSUME StoreTypeOK, Tick, NEW j \in Id
  PROVE  /\ Present(j)' <=> Present(j)
         /\ Present(j) => /\ records[j] \in Record
                          /\ records'[j].path = records[j].path
                          /\ records'[j].state = records[j].state
                          /\ records'[j].progress = records[j].progress
                          /\ records'[j].stop = records[j].stop
                          /\ records[j].ttl \in Nat
                          /\ records[j].ttl > 0 => records'[j].ttl = records[j].ttl - 1
                          /\ records[j].ttl = 0 => records'[j].ttl = 0
         /\ Live(j)' => Live(j)
<1>1. CASE Present(j)
  <2>1. records[j] \in Record /\ records'[j] = Aged(records[j])
    BY <1>1 DEF StoreTypeOK, Present, Tick
  <2>2. records'[j] \in Record
    BY <2>1, WrittenRecords
  <2>3. Present(j)'
    BY <2>2, StoreAssumption DEF Present
  <2>4. /\ records'[j].path = records[j].path
        /\ records'[j].state = records[j].state
        /\ records'[j].progress = records[j].progress
        /\ records'[j].stop = records[j].stop
        /\ records[j].ttl \in Nat
        /\ records[j].ttl > 0 => records'[j].ttl = records[j].ttl - 1
        /\ records[j].ttl = 0 => records'[j].ttl = 0
    BY <2>1 DEF Aged, Record
  <2> QED BY <1>1, <2>1, <2>3, <2>4 DEF Live, active
<1>2. CASE ~Present(j)
  BY <1>2 DEF Tick, Present, Live
<1> QED BY <1>1, <1>2

(* Leases and deadlines run down together, and time stops for a worker     *)
(* that has nothing left.                                                  *)
LEMMA SecondKeepsWorker ==
  ASSUME SystemInv, Second, NEW w \in Worker
  PROVE  WorkerInv(w)'
<1>1. /\ SystemTypeOK /\ StoreTypeOK /\ WorkerTypeOK
      /\ Control(w) /\ Deadlines(w) /\ ClaimIsFinal(w) /\ LeaseOutlasts(w)
      /\ Tick /\ WorkerSecond /\ WorkerOnTime(w)
  BY DEF SystemInv, SystemTypeOK, Second, WorkerSecond
<1>2. /\ due[w] \in Nat /\ grace[w] \in Nat /\ CallTimeout \in Nat /\ KillGrace \in Nat
      /\ HasClaimed(w) => job[w] \in Id
  BY <1>1, WorkerAssumption DEF WorkerTypeOK, Control, HasClaimed
<1>3. /\ job' = job /\ dir' = dir /\ main' = main /\ monitor' = monitor
      /\ cancelled' = cancelled /\ rsync' = rsync
      /\ due'[w] = IF Watching(w) THEN due[w] - 1 ELSE due[w]
      /\ grace'[w] = IF Ending(w) THEN grace[w] - 1 ELSE grace[w]
      /\ Watching(w) => due[w] > 0
      /\ Ending(w) => grace[w] > 0
      /\ main[w] = "start" => ~cancelled[w]
  BY <1>1 DEF WorkerSecond, WorkerOnTime, local
<1>4. Control(w)' /\ Deadlines(w)'
  BY <1>1, <1>2, <1>3, WorkerAssumption
     DEF Control, Deadlines, HasClaimed, Watching, Ending
<1>5. ClaimIsFinal(w)'
  BY <1>1, <1>2, <1>3, TickFields DEF ClaimIsFinal, HasClaimed
<1>6. ASSUME HasClaimed(w), NEW m \in Nat, Holds(w, m + 1)
      PROVE  /\ Live(job[w])'
             /\ records'[job[w]].state = "running"
             /\ records'[job[w]].path = dir'[w]
             /\ m < records'[job[w]].ttl
  <2>1. Live(job[w]) /\ records[job[w]].state = "running" /\ records[job[w]].path = dir[w]
        /\ m + 1 < records[job[w]].ttl
    BY <1>6 DEF Holds
  <2> QED BY <1>1, <1>2, <1>3, <1>6, <2>1, TickFields DEF Live, active
<1>7. ASSUME NEW m \in Nat, NEW n \in Nat, n <= m, HasClaimed(w), Holds(w, m)
      PROVE  Holds(w, n)
  BY <1>1, <1>2, <1>7 DEF Holds, Live, Present, StoreTypeOK, Record
<1>8. main[w] = "start" \/ (Transferring(w) /\ ~Ending(w)) => Watching(w)
  BY <1>1, <1>3 DEF Control, Transferring, Ending, Watching
<1>9. /\ Watching(w) => HasClaimed(w) /\ Holds(w, KillGrace + 1)
      /\ Transferring(w) => HasClaimed(w) /\ Holds(w, grace[w])
      /\ monitor[w] = "select" => Holds(w, due[w] + CallTimeout + KillGrace)
      /\ monitor[w] = "update" => Holds(w, due[w] + KillGrace)
  <2>1. CASE monitor[w] = "select"
    <3>1. HasClaimed(w) /\ Holds(w, due[w] + CallTimeout + KillGrace) /\ due[w] > 0
      BY <1>1, <1>3, <2>1 DEF LeaseOutlasts, Watching, HasClaimed
    <3>2. /\ KillGrace + 1 \in Nat /\ due[w] + CallTimeout + KillGrace \in Nat
          /\ KillGrace + 1 <= due[w] + CallTimeout + KillGrace
      BY <1>2, <3>1
    <3>3. Holds(w, KillGrace + 1)
      BY <1>7, <3>1, <3>2
    <3> QED BY <1>1, <2>1, <3>1, <3>3 DEF LeaseOutlasts, HasClaimed
  <2>2. CASE monitor[w] = "update"
    <3>1. HasClaimed(w) /\ Holds(w, due[w] + KillGrace) /\ due[w] > 0
      BY <1>1, <1>3, <2>2 DEF LeaseOutlasts, Watching, HasClaimed
    <3>2. /\ KillGrace + 1 \in Nat /\ due[w] + KillGrace \in Nat
          /\ KillGrace + 1 <= due[w] + KillGrace
      BY <1>2, <3>1
    <3>3. Holds(w, KillGrace + 1)
      BY <1>7, <3>1, <3>2
    <3> QED BY <1>1, <2>2, <3>1, <3>3 DEF LeaseOutlasts, HasClaimed
  <2>3. CASE ~Watching(w)
    BY <1>1, <2>3 DEF LeaseOutlasts, HasClaimed, Watching, Control, Transferring
  <2> QED BY <2>1, <2>2, <2>3 DEF Watching
<1>10. LeaseOutlasts(w)'
  <2> DEFINE Lasts(m) == /\ Live(job[w])'
                         /\ records'[job[w]].state = "running"
                         /\ records'[job[w]].path = dir'[w]
                         /\ m < records'[job[w]].ttl
  <2>1. monitor[w] = "select" => Lasts((due[w] - 1) + CallTimeout + KillGrace)
    <3> SUFFICES ASSUME monitor[w] = "select" PROVE Lasts((due[w] - 1) + CallTimeout + KillGrace)
      OBVIOUS
    <3>1. (due[w] - 1) + CallTimeout + KillGrace \in Nat
          /\ ((due[w] - 1) + CallTimeout + KillGrace) + 1 = due[w] + CallTimeout + KillGrace
      BY <1>2, <1>3 DEF Watching
    <3> QED BY <1>6, <1>9, <3>1 DEF Watching
  <2>2. monitor[w] = "update" => Lasts((due[w] - 1) + KillGrace)
    <3> SUFFICES ASSUME monitor[w] = "update" PROVE Lasts((due[w] - 1) + KillGrace)
      OBVIOUS
    <3>1. (due[w] - 1) + KillGrace \in Nat /\ ((due[w] - 1) + KillGrace) + 1 = due[w] + KillGrace
      BY <1>2, <1>3 DEF Watching
    <3> QED BY <1>6, <1>9, <3>1 DEF Watching
  <2>3. Watching(w) => Lasts(KillGrace) /\ Lasts(grace[w])
    <3>1. Watching(w) => Lasts(KillGrace)
      BY <1>2, <1>6, <1>9
    <3>2. /\ KillGrace + 1 \in Nat /\ grace[w] + 1 \in Nat
          /\ grace[w] + 1 <= KillGrace + 1
      BY <1>1, <1>2 DEF Deadlines
    <3>3. Watching(w) => Holds(w, grace[w] + 1)
      BY <1>7, <1>9, <3>2
    <3> QED BY <1>2, <1>6, <1>9, <3>1, <3>3
  <2>4. Ending(w) => Lasts(grace[w] - 1)
    <3> SUFFICES ASSUME Ending(w) PROVE Lasts(grace[w] - 1)
      OBVIOUS
    <3>1. grace[w] - 1 \in Nat /\ (grace[w] - 1) + 1 = grace[w]
      BY <1>2, <1>3
    <3> QED BY <1>6, <1>9, <3>1 DEF Ending, Transferring
  <2> HIDE DEF Lasts
  <2>5. /\ monitor'[w] = "select" => Lasts(due'[w] + CallTimeout + KillGrace)
        /\ monitor'[w] = "update" => Lasts(due'[w] + KillGrace)
        /\ main'[w] = "start" => Lasts(KillGrace)
        /\ main'[w] = "wait" /\ rsync'[w] = "run" => Lasts(grace'[w])
    BY <1>3, <1>8, <2>1, <2>2, <2>3, <2>4 DEF Watching, Transferring
  <2> QED BY <1>3, <2>5 DEF LeaseOutlasts, Lasts, Holds, Transferring
<1> QED BY <1>4, <1>5, <1>10 DEF WorkerInv

(* The same for a removal and its heartbeats.                              *)
LEMMA SecondKeepsRequest ==
  ASSUME SystemInv, Second, NEW i \in Id
  PROVE  RequestInv(i)'
<1>1. /\ SystemTypeOK /\ StoreTypeOK /\ WebTypeOK
      /\ Provenance(i) /\ BeatOutlasts(i)
      /\ Tick /\ WebSecond /\ UNCHANGED events
  BY DEF SystemInv, SystemTypeOK, Second, WorkerSecond
<1>2. hbDue[i] \in Nat /\ HeartbeatPoll \in Nat /\ HeartbeatTimeout \in Nat
  BY <1>1, WebAssumption DEF WebTypeOK
<1>3. /\ request' = request /\ heartbeat' = heartbeat /\ target' = target
      /\ Beating(i) => hbDue[i] > 0 /\ hbDue'[i] = hbDue[i] - 1
  BY <1>1 DEF WebSecond
<1>4. Provenance(i)'
  <2>1. /\ Present(i)' => Present(i)
        /\ records[i] = NoRecord => records'[i] = NoRecord
        /\ Present(i)' => records'[i].state = records[i].state
    BY <1>1, TickFields DEF Present
  <2> QED BY <1>1, <1>3, <2>1 DEF Provenance, Beating
<1>5. ASSUME NEW m \in Nat, Keeps(i, m + 1)
      PROVE  /\ Live(i)' /\ records'[i].state = "removing"
             /\ records'[i].path = target[i] /\ m < records'[i].ttl
  <2>1. Live(i) /\ records[i].state = "removing" /\ records[i].path = target[i]
        /\ m + 1 < records[i].ttl
    BY <1>5 DEF Keeps
  <2> QED BY <1>1, <1>5, <2>1, TickFields DEF Live, active
<1>6. CASE heartbeat[i] = "select"
  <2>1. /\ hbDue'[i] = hbDue[i] - 1
        /\ hbDue[i] <= HeartbeatPoll + HeartbeatTimeout
        /\ Keeps(i, hbDue[i] + HeartbeatTimeout)
        /\ hbDue[i] > 0
    BY <1>1, <1>3, <1>6 DEF Beating, BeatOutlasts
  <2>2. /\ (hbDue[i] - 1) + HeartbeatTimeout \in Nat
        /\ ((hbDue[i] - 1) + HeartbeatTimeout) + 1 = hbDue[i] + HeartbeatTimeout
        /\ hbDue[i] - 1 <= HeartbeatPoll + HeartbeatTimeout
    BY <1>2, <2>1
  <2> QED BY <1>3, <1>4, <1>5, <1>6, <2>1, <2>2 DEF RequestInv, BeatOutlasts, Keeps
<1>7. CASE heartbeat[i] = "update"
  <2>1. /\ hbDue'[i] = hbDue[i] - 1
        /\ hbDue[i] <= HeartbeatTimeout
        /\ Keeps(i, hbDue[i])
        /\ hbDue[i] > 0
    BY <1>1, <1>3, <1>7 DEF Beating, BeatOutlasts
  <2>2. hbDue[i] - 1 \in Nat /\ (hbDue[i] - 1) + 1 = hbDue[i] /\ hbDue[i] - 1 <= HeartbeatTimeout
    BY <1>2, <2>1
  <2> QED BY <1>3, <1>4, <1>5, <1>7, <2>1, <2>2 DEF RequestInv, BeatOutlasts, Keeps
<1>8. CASE ~Beating(i)
  BY <1>3, <1>4, <1>8 DEF RequestInv, BeatOutlasts, Beating
<1> QED BY <1>6, <1>7, <1>8 DEF Beating

(* The passing of a second keeps the whole invariant.                      *)
LEMMA SecondKeepsInv ==
  ASSUME SystemInv, Second
  PROVE  SystemInv'
<1>1. /\ SystemTypeOK /\ WorkerTypeOK /\ WebTypeOK /\ StoreTypeOK
      /\ Tick /\ WorkerSecond /\ WebSecond /\ UNCHANGED faults
  BY DEF SystemInv, SystemTypeOK, Second
<1>2. job' = job /\ monitor' = monitor /\ request' = request
  BY <1>1 DEF WorkerSecond, WebSecond, local
<1>3. (\A v \in Worker : JobLaunched(v)') /\ ClaimIsSole'
  BY <1>2 DEF SystemInv, JobLaunched, ClaimIsSole, HasClaimed
<1>4. SystemTypeOK'
  <2>1. StoreTypeOK'
    BY <1>1, StoreTypeStep DEF StoreNext
  <2>2. due' \in [Worker -> Nat] /\ grace' \in [Worker -> Nat]
    <3>1. \A w \in Worker : /\ due[w] \in Nat /\ grace[w] \in Nat
                            /\ Watching(w) => due[w] > 0
                            /\ Ending(w) => grace[w] > 0
      BY <1>1 DEF WorkerSecond, WorkerOnTime, WorkerTypeOK
    <3> QED BY <1>1, <3>1 DEF WorkerSecond
  <2>3. WorkerTypeOK'
    BY <1>1, <2>2 DEF WorkerTypeOK, WorkerSecond, local, final
  <2>4. hbDue' \in [Id -> Nat]
    BY <1>1 DEF WebSecond, WebTypeOK
  <2>5. WebTypeOK'
    BY <1>1, <2>4 DEF WebTypeOK, WebSecond
  <2> QED BY <1>1, <2>1, <2>3, <2>5 DEF SystemTypeOK
<1> QED BY <1>3, <1>4, SecondKeepsWorker, SecondKeepsRequest
           DEF SystemInv, WorkerInv, RequestInv

-----------------------------------------------------------------------------
(* Every step of the system keeps the invariant, and it holds at first.    *)
LEMMA SystemInvStep == SystemInv /\ [Next]_vars => SystemInv'
<1> SUFFICES ASSUME SystemInv, [Next]_vars
             PROVE  SystemInv'
  OBVIOUS
<1>1. ASSUME NEW p \in Path, CancelSync(p), UNCHANGED workerVars PROVE SystemInv'
  BY <1>1, QuietKeepsInv DEF CancelSync
<1>2. ASSUME ListSyncs, UNCHANGED workerVars PROVE SystemInv'
  BY <1>2, QuietKeepsInv DEF ListSyncs
<1>3. CASE UNCHANGED vars
  BY <1>3, QuietKeepsInv DEF vars
<1> QED BY <1>1, <1>2, <1>3, WebKeepsInv, LaunchKeepsInv, WorkerKeepsInv, SecondKeepsInv
           DEF Next

(* The invariant holds before anything has happened.                       *)
LEMMA SystemInvInit == Init => SystemInv
<1> SUFFICES ASSUME Init PROVE SystemInv
  OBVIOUS
<1> USE DEF Init, StoreInit, WorkerInit, WebInit
<1>1. SystemTypeOK
  <2>1. StoreTypeOK /\ faults \in Nat
    BY DEF StoreTypeOK
  <2>2. WorkerTypeOK
    BY WorkerAssumption, StoreAssumption DEF WorkerTypeOK, Main, Monitor, FinalState
  <2>3. WebTypeOK
    BY DEF WebTypeOK, Request
  <2> QED BY <2>1, <2>2, <2>3 DEF SystemTypeOK
<1>2. ASSUME NEW w \in Worker PROVE Control(w) /\ Deadlines(w) /\ JobLaunched(w)
                                      /\ ClaimIsFinal(w) /\ LeaseOutlasts(w) /\ ~HasClaimed(w)
  BY WorkerAssumption
     DEF Control, Deadlines, JobLaunched, ClaimIsFinal, LeaseOutlasts, HasClaimed,
         Transferring
<1>3. ASSUME NEW i \in Id PROVE Provenance(i) /\ BeatOutlasts(i)
  BY DEF Provenance, Beating, BeatOutlasts
<1> QED BY <1>1, <1>2, <1>3 DEF SystemInv, ClaimIsSole

(* The control of workers and handlers, their claims and their deadlines   *)
(* fit the leases they hold (sync_worker.go, main.go).                     *)
THEOREM SystemInvariant == Spec => []SystemInv
BY SystemInvInit, SystemInvStep, PTL DEF Spec

(* Every variable of store, workers and handlers keeps its type.           *)
THEOREM SystemTypeCorrect == Spec => []SystemTypeOK
<1>1. SystemInv => SystemTypeOK
  BY DEF SystemInv
<1> QED BY <1>1, SystemInvariant, PTL

(* Workers, handlers and the clock use the store as its own specification  *)
(* allows: reserveScript is never given an id it knows.                    *)
THEOREM SystemImplementsStore == Spec => UsesStore
<1>1. Init => StoreInit
  BY DEF Init
<1>2. SystemInv /\ [Next]_vars => [StoreNext]_records
  BY SystemUsesStore
<1> QED BY <1>1, <1>2, SystemInvariant, PTL DEF Spec, UsesStore, StoreSpec

(* The record of i is dropped, or stays what it was and is not renewed.    *)
LeftAlone(i) ==
  Present(i)' => /\ Present(i)
                 /\ records'[i].state = records[i].state
                 /\ records'[i].ttl <= records[i].ttl

(* What the scripts and the clock do to records they are not called for.   *)
LEMMA OthersLeftAlone ==
  ASSUME StoreTypeOK, NEW i \in Id,
         \/ records'[i] \in {records[i], NoRecord}
         \/ \E p \in Path : Stop(p)
         \/ Tick
  PROVE  LeftAlone(i)
<1>1. Present(i) => records[i] \in Record /\ records[i].ttl \in Nat
  BY DEF StoreTypeOK, Present, Record
<1>2. CASE records'[i] \in {records[i], NoRecord}
  BY <1>1, <1>2 DEF LeftAlone, Present
<1>3. ASSUME NEW p \in Path, Stop(p) PROVE LeftAlone(i)
  <2>1. CASE i \in Stoppable(p)
    <3>1. Present(i) /\ records'[i] = [records[i] EXCEPT !.stop = TRUE]
      BY <1>3, <2>1 DEF Stop, Stoppable, Live, StoreTypeOK
    <3> QED BY <1>1, <3>1 DEF LeftAlone, Record
  <2>2. CASE i \notin Stoppable(p)
    BY <1>1, <1>3, <2>2 DEF Stop, LeftAlone, Present, StoreTypeOK
  <2> QED BY <2>1, <2>2
<1>4. CASE Tick
  BY <1>4, TickFields DEF LeftAlone
<1> QED BY <1>2, <1>3, <1>4

(* Nobody acts for a request that was refused.                             *)
LEMMA RefusedStep ==
  ASSUME SystemInv, [Next]_vars, NEW i \in Id, request[i] \in {"conflict", "error"}
  PROVE  request'[i] = request[i] /\ LeftAlone(i)
<1>1. SystemTypeOK /\ StoreTypeOK /\ WebTypeOK /\ \A j \in Id : Provenance(j)
  BY DEF SystemInv, SystemTypeOK
<1>2. ASSUME NEW j \in Id, WebStep(j)
      PROVE  request'[i] = request[i] /\ LeftAlone(i)
  <2>1. j # i
    BY <1>1, <1>2
       DEF WebStep, StartReserve, CleanupLaunch, RemoveReserve, HeartbeatTicks,
           HeartbeatReplies, HeartbeatFails, HeartbeatEnds, RemoveAllReturns, RemoveJoin,
           RemoveFinish, WebCrash, ReserveReplies, ReserveFails, Fresh, Provenance, Beating
  <2>2. request'[i] = request[i]
    BY <1>2, <2>1, WebFrame DEF SameRequest
  <2>3. ASSUME NEW p \in Path, NEW s \in {"queued", "removing"}, ReserveFresh(j, p, s)
        PROVE  records'[i] \in {records[i], NoRecord}
    BY <1>1, <2>1, <2>3 DEF ReserveFresh, ReserveGranted, Without
  <2>4. ASSUME NEW p \in Path, ReserveRefused(p)
        PROVE  records'[i] \in {records[i], NoRecord}
    BY <2>4 DEF ReserveRefused, Without
  <2>5. ASSUME NEW o \in Operation, Update(j, o)
        PROVE  records'[i] = records[i]
    BY <1>1, <2>1, <2>5, UpdateFields
  <2> QED BY <1>1, <1>2, <2>2, <2>3, <2>4, <2>5, WebCalls, OthersLeftAlone
<1>3. ASSUME NEW p \in Path, CancelSync(p)
      PROVE  request'[i] = request[i] /\ LeftAlone(i)
  BY <1>1, <1>3, OthersLeftAlone DEF CancelSync, webVars
<1>4. CASE ListSyncs
  BY <1>1, <1>4, OthersLeftAlone DEF ListSyncs, List, Without, webVars
<1>5. ASSUME NEW j \in Id, Launch(j) \/ LaunchFails(j) \/ NotifyLaunchError(j)
      PROVE  request'[i] = request[i] /\ LeftAlone(i)
  BY <1>1, <1>5, OthersLeftAlone
     DEF Launch, LaunchFails, NotifyLaunchError, Answer, WebTypeOK
<1>6. ASSUME NEW j \in Id, NEW w \in Worker, Relaunch(w, j)
      PROVE  request'[i] = request[i] /\ LeftAlone(i)
  BY <1>1, <1>6, OthersLeftAlone DEF Relaunch, webVars
<1>7. ASSUME NEW w \in Worker, WorkerStep(w), UNCHANGED webVars
      PROVE  request'[i] = request[i] /\ LeftAlone(i)
  <2>1. /\ job[w] \in Id
        /\ UNCHANGED records \/ \E o \in Operation : Update(job[w], o)
    BY <1>1, <1>7, WorkerCalls DEF SystemInv
  <2>2. job[w] # i
    BY <2>1, WorkerAssumption DEF SystemInv, JobLaunched, Launched
  <2>3. records'[i] = records[i]
    BY <1>1, <2>1, <2>2, UpdateFields
  <2> QED BY <1>1, <1>7, <2>3, OthersLeftAlone DEF webVars
<1>8. CASE Second
  BY <1>1, <1>8, OthersLeftAlone DEF Second, WebSecond
<1>9. CASE UNCHANGED vars
  BY <1>1, <1>9, OthersLeftAlone DEF vars, webVars
<1> QED BY <1>2, <1>3, <1>4, <1>5, <1>6, <1>7, <1>8, <1>9 DEF Next

(* Whoever is answered with a conflict or an error has no sync: if reserve *)
(* did run and only its reply was lost, nobody works for the reservation,  *)
(* claims it or renews it, for any number of requests, workers and faults. *)
THEOREM RefusedRunsOut == Spec => RefusedLapses
<1>1. SystemInv /\ SystemInv' /\ [Next]_vars
        => [\A i \in Id : request[i] \in {"conflict", "error"} =>
              /\ \A w \in Worker : job'[w] # i
              /\ Present(i)' => /\ Present(i)
                                /\ records'[i].state = records[i].state
                                /\ records'[i].ttl <= records[i].ttl]_vars
  <2> SUFFICES ASSUME SystemInv, SystemInv', [Next]_vars,
                      NEW i \in Id, request[i] \in {"conflict", "error"}
               PROVE  (\A w \in Worker : job'[w] # i) /\ LeftAlone(i)
    BY DEF LeftAlone
  <2>1. request'[i] = request[i] /\ LeftAlone(i)
    BY RefusedStep
  <2>2. ASSUME NEW w \in Worker, job'[w] = i PROVE FALSE
    <3>1. i # NoJob
      BY WorkerAssumption
    <3> QED BY <2>1, <2>2, <3>1 DEF SystemInv, JobLaunched, Launched
  <2> QED BY <2>1, <2>2
<1> QED BY <1>1, SystemInvariant, PTL DEF Spec, RefusedLapses

(* While a worker of sync_worker.go lives, its rsync runs only under a     *)
(* live lease of its own, however calls fail, hang or reply late: the      *)
(* monitor's and rsync's deadlines are over before the lease is.           *)
THEOREM TransferIsLeased == Spec => []LeaseCoversTransfer
<1>1. SystemInv => LeaseCoversTransfer
  BY DEF SystemInv, LeaseCoversTransfer, LeaseOutlasts, Holds
<1> QED BY <1>1, SystemInvariant, PTL

(* However often a worker is launched for a reservation, updateScript lets *)
(* one of them claim it, and only that one runs rsync.                     *)
THEOREM TransferIsSole == Spec => []OneTransfer
<1>1. SystemInv => OneTransfer
  BY DEF SystemInv, OneTransfer, Control, ClaimIsSole
<1> QED BY <1>1, SystemInvariant, PTL

(* removeWithRedis keeps its reservation until its heartbeats fail, as     *)
(* long as a recursive deletion may take.                                  *)
THEOREM RemovalIsLeased == Spec => []RemovalLeased
<1>1. SystemInv => RemovalLeased
  BY DEF SystemInv, RemovalLeased, BeatOutlasts, Keeps, Beating
<1> QED BY <1>1, SystemInvariant, PTL

(* No directory is written by rsync or removed while rsync or a removal is *)
(* at work on the same directory, above it or below it: each of them holds *)
(* a lease, and reserveScript lets no two live leases overlap.             *)
THEOREM DirectoriesExclusive == Spec => []DirectoryExclusive
<1>1. SystemInv /\ ExclusiveLeases => DirectoryExclusive
  <2> SUFFICES ASSUME SystemInv, ExclusiveLeases PROVE DirectoryExclusive
    OBVIOUS
  <2> USE DEF SystemInv
  <2>1. ASSUME NEW w \in Worker, Transferring(w)
        PROVE  /\ job[w] \in Id /\ Live(job[w]) /\ records[job[w]].path = dir[w]
               /\ HasClaimed(w) /\ request[job[w]] \in Launched
    <3>1. HasClaimed(w) /\ Live(job[w]) /\ records[job[w]].path = dir[w]
      BY <2>1 DEF LeaseOutlasts, Holds, Control, Transferring
    <3>2. job[w] \in Id /\ job[w] # NoJob
      BY <2>1, WorkerAssumption DEF Control, Transferring, SystemTypeOK, WorkerTypeOK
    <3> QED BY <3>1, <3>2 DEF JobLaunched
  <2>2. ASSUME NEW i \in Id, Removing(i)
        PROVE  Live(i) /\ records[i].path = target[i] /\ request[i] \notin Launched
    BY <2>2 DEF Removing, Provenance, BeatOutlasts, Keeps, Beating, Launched
  <2>3. ASSUME NEW v \in Worker, NEW w \in Worker, v # w, Transferring(v), Transferring(w)
        PROVE  ~overlap(dir[v], dir[w])
    <3>1. job[v] # job[w]
      BY <2>1, <2>3 DEF ClaimIsSole
    <3> QED BY <2>1, <2>3, <3>1 DEF ExclusiveLeases
  <2>4. ASSUME NEW w \in Worker, NEW i \in Id, Transferring(w), Removing(i)
        PROVE  ~overlap(dir[w], target[i])
    <3>1. job[w] # i
      BY <2>1, <2>2, <2>4
    <3> QED BY <2>1, <2>2, <2>4, <3>1 DEF ExclusiveLeases
  <2>5. ASSUME NEW i \in Id, NEW j \in Id, i # j, Removing(i), Removing(j)
        PROVE  ~overlap(target[i], target[j])
    BY <2>2, <2>5 DEF ExclusiveLeases
  <2> QED BY <2>3, <2>4, <2>5 DEF DirectoryExclusive
<1>2. UsesStore => []ExclusiveLeases
  BY StoreExclusive DEF UsesStore
<1> QED BY <1>1, <1>2, SystemInvariant, SystemImplementsStore, PTL

(* What SyncStore promises of its leases holds in the running system, with *)
(* every worker, handler and failure: the store implements the leases, no  *)
(* two live ones overlap, none comes back to life, and a stop stays.       *)
THEOREM SystemKeepsLeases ==
  Spec => ImplementsLeases /\ []ExclusiveLeases /\ NeverRevived /\ StopDurable
<1>1. UsesStore => ImplementsLeases
  BY StoreImplementsLeases DEF UsesStore
<1>2. UsesStore => []ExclusiveLeases
  BY StoreExclusive DEF UsesStore
<1>3. UsesStore => NeverRevived
  BY StoreNeverRevives DEF UsesStore
<1>4. UsesStore => StopDurable
  BY StoreKeepsStops DEF UsesStore
<1> QED BY <1>1, <1>2, <1>3, <1>4, SystemImplementsStore, PTL

-----------------------------------------------------------------------------
(* The run of rsync that a worker sees, one worker at a time.              *)

(* rsync has its grace whole before it runs, and its worker waits for it   *)
(* as long as it does run.                                                 *)
RunControl(w) ==
  /\ rsync[w] = "none" => grace[w] = KillGrace
  /\ rsync[w] = "run" => main[w] \in {"wait", "dead"}

(* The worker is at the same point of the run, or out of it.               *)
RunStep(w) == RunControl(w)' /\ [Run(w)!Next]_(Run(w)!vars)

(* A worker whose rsync is not concerned takes no step of the run, but for *)
(* a cancellation.                                                         *)
LEMMA RunUnseen ==
  ASSUME NEW w \in Worker, RunControl(w), WorkerTypeOK,
         UNCHANGED <<rsync[w], grace[w], outcome[w]>>,
         cancelled'[w] \in {cancelled[w], TRUE},
         RunPhase(w)' = RunPhase(w), main[w] = "wait" => main'[w] = "wait",
         main[w] = "dead" => main'[w] = "dead"
  PROVE  RunStep(w)
<1>1. RunControl(w)'
  BY DEF RunControl
<1>2. CASE cancelled'[w] = cancelled[w]
  BY <1>1, <1>2 DEF RunStep, Run!vars
<1>3. CASE cancelled'[w] = TRUE
  BY <1>1, <1>3 DEF RunStep, Run!Next, Run!Cancel
<1> QED BY <1>1, <1>2, <1>3

(* Every step of a worker is a step of its run of rsync, or none.          *)
LEMMA RunOfWorker ==
  ASSUME SystemTypeOK, NEW w \in Worker, Control(w), RunControl(w), WorkerStep(w)
  PROVE  RunStep(w)
<1> USE DEF SystemTypeOK
<1>0. /\ WorkerTypeOK
      /\ rsync[w] # "none" => main[w] \notin {"off", "claim", "check", "recheck", "start"}
  BY DEF Control
<1>1. CASE MonitorSeesCancel(w) \/ MonitorTicks(w) \/ \E n \in 0..MaxProgress : RsyncReports(w, n)
  <2>1. /\ UNCHANGED <<rsync[w], grace[w], outcome[w], main[w]>>
        /\ cancelled'[w] = cancelled[w]
    BY <1>1 DEF MonitorSeesCancel, MonitorTicks, RsyncReports, proc, final
  <2>2. RunPhase(w)' = RunPhase(w)
    BY <2>1 DEF RunPhase
  <2> QED BY <1>0, <2>1, <2>2, RunUnseen
(* Neither before rsync runs nor after the result was taken.               *)
<1>2. CASE \/ ClaimSucceeds(w) \/ ClaimFails(w) \/ NotifyStart(w) \/ CallStartSync(w)
           \/ FinalProgress(w) \/ FinishRecord(w) \/ NotifyEnd(w)
  <2>1. /\ UNCHANGED <<rsync[w], grace[w], outcome[w]>>
        /\ {main[w], main'[w]} \subseteq {"claim", "check", "recheck", "start", "exit",
                                          "final", "finish", "notify"}
    BY <1>0, <1>2
       DEF ClaimSucceeds, ClaimFails, NotifyStart, CallStartSync, FinalProgress,
           FinishRecord, NotifyEnd, Goto, WorkerTypeOK, proc, final
  <2>2. cancelled'[w] \in {cancelled[w], TRUE}
    BY <1>0, <1>2
       DEF ClaimSucceeds, ClaimFails, NotifyStart, CallStartSync, FinalProgress,
           FinishRecord, NotifyEnd, WorkerTypeOK
  <2>3. RunPhase(w)' = RunPhase(w)
    BY <2>1 DEF RunPhase
  <2> QED BY <1>0, <2>1, <2>2, <2>3, RunUnseen
<1>3. CASE MonitorReported(w) \/ MonitorFails(w) \/ Sigterm(w) \/ CancelMonitor(w)
  <2>1. /\ UNCHANGED <<rsync[w], grace[w], outcome[w]>>
        /\ cancelled'[w] \in {cancelled[w], TRUE}
        /\ main'[w] = main[w] \/ (main[w] = "cancel" /\ main'[w] = "join")
    BY <1>0, <1>3
       DEF MonitorReported, MonitorFails, Sigterm, CancelMonitor, CancelContext, Goto,
           WorkerTypeOK, proc, final
  <2>2. RunPhase(w)' = RunPhase(w)
    BY <2>1 DEF RunPhase
  <2> QED BY <1>0, <2>1, <2>2, RunUnseen
<1>4. CASE ContextIsDone(w)
  <2>1. /\ UNCHANGED <<rsync[w], grace[w]>> /\ cancelled'[w] = cancelled[w]
        /\ main[w] \in {"check", "recheck"} /\ main'[w] = "cancel"
    BY <1>0, <1>4 DEF ContextIsDone, Goto, WorkerTypeOK, proc
  <2>2. rsync[w] = "none" /\ RunPhase(w) = "off" /\ RunPhase(w)' = "off"
    BY <1>0, <2>1 DEF RunPhase
  <2>3. RunControl(w)'
    BY <2>1, <2>2 DEF RunControl
  <2> QED BY <2>1, <2>2, <2>3 DEF RunStep, Run!vars
<1>5. CASE StartRsync(w)
  <2>1. main[w] = "start" /\ rsync[w] = "none" /\ grace'[w] = grace[w] /\ grace[w] = KillGrace
        /\ cancelled'[w] = cancelled[w]
    BY <1>0, <1>5 DEF StartRsync, Goto, RunControl, WorkerTypeOK
  <2>2. CASE main'[w] = "wait" /\ rsync'[w] = "run"
    <3>1. RunPhase(w) = "off" /\ RunPhase(w)' = "run" /\ RunControl(w)'
      BY <2>1, <2>2 DEF RunPhase, RunControl
    <3> QED BY <2>1, <3>1 DEF RunStep, Run!Start, Run!Next
  <2>3. CASE main'[w] = "cancel" /\ rsync'[w] = "none"
    <3>1. RunPhase(w) = "off" /\ RunPhase(w)' = "off" /\ RunControl(w)'
      BY <2>1, <2>3 DEF RunPhase, RunControl
    <3> QED BY <2>1, <3>1 DEF RunStep, Run!vars
  <2> QED BY <1>0, <1>5, <2>1, <2>2, <2>3 DEF StartRsync, Goto, WorkerTypeOK
<1>6. ASSUME NEW r \in {"ok", "fail"}, RsyncExits(w, r) PROVE RunStep(w)
  <2>1. /\ rsync[w] = "run" /\ rsync'[w] = r /\ main'[w] = main[w] /\ main[w] \in {"wait", "dead"}
        /\ cancelled'[w] = cancelled[w]
    BY <1>0, <1>6 DEF RsyncExits, WorkerTypeOK, RunControl
  <2>2. RunControl(w)'
    BY <2>1 DEF RunControl
  <2>3. CASE main[w] = "wait"
    <3>1. RunPhase(w) = "run" /\ RunPhase(w)' = "exited"
      BY <2>1, <2>3 DEF RunPhase
    <3> QED BY <2>1, <2>2, <3>1 DEF RunStep, Run!Exits, Run!Next
  <2>4. CASE main[w] = "dead"
    <3>1. RunPhase(w) = "lost" /\ RunPhase(w)' = "lost"
      BY <2>1, <2>4 DEF RunPhase
    <3> QED BY <2>1, <2>2, <3>1 DEF RunStep, Run!vars
  <2> QED BY <2>1, <2>3, <2>4
<1>7. CASE StartSyncReturns(w)
  <2>1. /\ rsync[w] # "run" /\ main[w] = "wait" /\ main'[w] = "cancel"
        /\ UNCHANGED <<rsync[w], grace[w]>> /\ cancelled'[w] = cancelled[w]
        /\ outcome'[w] = IF cancelled[w] THEN "cancelled"
                         ELSE IF rsync[w] = "ok" THEN "completed" ELSE "failed"
    BY <1>0, <1>7 DEF StartSyncReturns, Goto, Result, WorkerTypeOK, proc
  <2>2. RunControl(w)'
    BY <2>1 DEF RunControl
  <2>3. CASE rsync[w] = "none"
    <3>1. RunPhase(w) = "off" /\ RunPhase(w)' = "off"
      BY <2>1, <2>3 DEF RunPhase
    <3> QED BY <2>1, <2>2, <3>1 DEF RunStep, Run!vars
  <2>4. CASE rsync[w] # "none"
    <3>1. RunPhase(w) = "exited" /\ RunPhase(w)' = "returned" /\ rsync[w] \in {"ok", "fail"}
      BY <1>0, <2>1, <2>4 DEF RunPhase, WorkerTypeOK
    <3>2. RunResult[outcome'[w]] = IF cancelled[w] THEN "canceled" ELSE rsync[w]
      BY <2>1, <3>1 DEF RunResult
    <3> QED BY <2>1, <2>2, <3>1, <3>2 DEF RunStep, Run!Returns, Run!Next
  <2> QED BY <2>3, <2>4
<1>8. CASE JoinMonitor(w)
  <2>1. /\ main[w] = "join" /\ main'[w] = "final"
        /\ UNCHANGED <<rsync[w], grace[w]>> /\ cancelled'[w] = cancelled[w]
    BY <1>0, <1>8 DEF JoinMonitor, Goto, WorkerTypeOK, proc
  <2>2. RunControl(w)'
    BY <2>1 DEF RunControl
  <2>3. CASE rsync[w] = "none"
    <3>1. RunPhase(w) = "off" /\ RunPhase(w)' = "off"
      BY <2>1, <2>3 DEF RunPhase
    <3> QED BY <2>1, <2>2, <3>1 DEF RunStep, Run!vars
  <2>4. CASE rsync[w] # "none"
    <3>1. RunPhase(w) = "returned" /\ RunPhase(w)' = "over"
      BY <2>1, <2>4 DEF RunPhase
    <3> QED BY <2>1, <2>2, <3>1 DEF RunStep, Run!Over, Run!Leave, Run!Next
  <2> QED BY <2>3, <2>4
<1>9. CASE Crash(w)
  <2>1. /\ main[w] # "dead" /\ main'[w] = "dead"
        /\ UNCHANGED <<rsync[w], grace[w]>> /\ cancelled'[w] = cancelled[w]
    BY <1>0, <1>9 DEF Crash, Alive, WorkerTypeOK, proc
  <2>2. RunControl(w)'
    BY <2>1 DEF RunControl
  <2>3. RunPhase(w) # "lost" /\ RunPhase(w)' = "lost"
    BY <2>1 DEF RunPhase
  <2> QED BY <2>1, <2>2, <2>3 DEF RunStep, Run!Killed, Run!Leave, Run!Next
<1> QED BY <1>1, <1>2, <1>3, <1>4, <1>5, <1>6, <1>7, <1>8, <1>9 DEF WorkerStep

(* A step that leaves the worker alone is none of its run.                 *)
LEMMA RunOfOthers ==
  ASSUME NEW w \in Worker, RunControl(w), WorkerTypeOK, SameWorker(w)
  PROVE  RunStep(w)
<1>1. RunPhase(w)' = RunPhase(w)
  BY DEF RunPhase, SameWorker
<1> QED BY <1>1, RunUnseen DEF SameWorker

(* The launch of a worker is none of its run.                              *)
LEMMA RunOfStarted ==
  ASSUME SystemInv, NEW v \in Worker, NEW i \in Id, StartWorker(v, i), UNCHANGED records,
         NEW w \in Worker, RunControl(w)
  PROVE  RunStep(w)
<1>1. WorkerTypeOK /\ Control(w)
  BY DEF SystemInv, SystemTypeOK
<1>2. CASE w # v
  BY <1>1, <1>2, StartKeepsWorkers, RunOfOthers
<1>3. CASE w = v
  <2>1. /\ UNCHANGED <<rsync[w], grace[w], outcome[w]>> /\ cancelled'[w] = cancelled[w]
        /\ main[w] = "off" /\ main'[w] = "claim"
    BY <1>1, <1>3 DEF StartWorker, Goto, WorkerTypeOK, proc, final
  <2>2. RunPhase(w)' = RunPhase(w)
    BY <2>1 DEF RunPhase
  <2> QED BY <1>1, <2>1, <2>2, RunUnseen
<1> QED BY <1>2, <1>3

(* In a second a cancelled rsync loses one of its grace, if it has one.    *)
LEMMA RunOfSecond ==
  ASSUME WorkerTypeOK, NEW w \in Worker, RunControl(w), WorkerSecond
  PROVE  RunStep(w)
<1>1. /\ UNCHANGED <<rsync[w], outcome[w], main[w]>> /\ cancelled'[w] = cancelled[w]
      /\ grace'[w] = IF Ending(w) THEN grace[w] - 1 ELSE grace[w]
      /\ Ending(w) => grace[w] > 0
  BY DEF WorkerSecond, WorkerOnTime, final
<1>2. RunPhase(w)' = RunPhase(w)
  BY <1>1 DEF RunPhase
<1>3. CASE Ending(w)
  <2>1. RunPhase(w) = "run" /\ cancelled[w] /\ rsync[w] = "run" /\ main[w] = "wait"
    BY <1>3 DEF Ending, RunPhase
  <2>2. RunControl(w)'
    BY <1>1, <2>1 DEF RunControl
  <2> QED BY <1>1, <1>2, <1>3, <2>1, <2>2 DEF RunStep, Run!Second, Run!Next
<1>4. CASE ~Ending(w)
  BY <1>1, <1>2, <1>4, RunUnseen
<1> QED BY <1>3, <1>4

(* Whatever the system does, each worker sees a run of rsync.              *)
LEMMA SystemRunStep ==
  ASSUME SystemInv, \A w \in Worker : RunControl(w), [Next]_vars
  PROVE  \A w \in Worker : RunStep(w)
<1> SUFFICES ASSUME NEW w \in Worker PROVE RunStep(w)
  OBVIOUS
<1>0. SystemTypeOK /\ WorkerTypeOK /\ RunControl(w)
  BY DEF SystemInv, SystemTypeOK
<1>1. ASSUME UNCHANGED <<local, main, moni, cancelled, proc, final>> PROVE RunStep(w)
  BY <1>0, <1>1, RunOfOthers DEF SameWorker, local, moni, proc, final
<1>2. ASSUME NEW i \in Id, Launch(i) \/ LaunchFails(i) \/ NotifyLaunchError(i)
      PROVE  RunStep(w)
  <2>1. UNCHANGED workerVars => UNCHANGED <<local, main, moni, cancelled, proc, final>>
    BY DEF workerVars
  <2> QED BY <1>0, <1>1, <1>2, <2>1, RunOfStarted DEF Launch, LaunchFails, NotifyLaunchError
<1>3. ASSUME NEW i \in Id, NEW v \in Worker, Relaunch(v, i) PROVE RunStep(w)
  BY <1>0, <1>3, RunOfStarted DEF Relaunch
<1>4. ASSUME NEW v \in Worker, WorkerStep(v) PROVE RunStep(w)
  <2>1. Control(v)
    BY DEF SystemInv
  <2>2. CASE w = v
    BY <1>0, <1>4, <2>1, <2>2, RunOfWorker
  <2>3. CASE w # v
    BY <1>0, <1>4, <2>1, <2>3, WorkerFrame, RunOfOthers
  <2> QED BY <2>2, <2>3
<1>5. CASE Second
  BY <1>0, <1>5, RunOfSecond DEF Second
<1>6. CASE UNCHANGED workerVars
  BY <1>1, <1>6 DEF workerVars
<1> QED BY <1>2, <1>3, <1>4, <1>5, <1>6 DEF Next, vars

(* Every worker has its rsync as RsyncRun promises and does with it what   *)
(* RsyncRun allows: with ProcessIsRsyncRun of RsyncProcessProofs, what is  *)
(* assumed of startSync here is what its goroutines are shown to do.       *)
THEOREM SystemRunsRsync == Spec => RunsRsync
<1> DEFINE Runs == \A w \in Worker : RunControl(w)
           Step == \A w \in Worker : [Run(w)!Next]_(Run(w)!vars)
<1>1. Init => Runs /\ \A w \in Worker : Run(w)!Init
  BY DEF Init, WorkerInit, RunControl, Run!Init, RunPhase
<1>2. SystemInv /\ Runs /\ [Next]_vars => Runs' /\ Step
  BY SystemRunStep DEF RunStep
<1> QED BY <1>1, <1>2, SystemInvariant, PTL DEF Spec, RunsRsync
=============================================================================
