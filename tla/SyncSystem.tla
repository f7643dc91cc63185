------------------------------ MODULE SyncSystem ------------------------------
(***************************************************************************)
(* The whole system: web replicas, launched workers and the store they     *)
(* share.  Launching a worker is the one step in which web server and      *)
(* worker meet; afterwards they only know each other through the store.    *)
(***************************************************************************)
EXTENDS SyncWorker, WebServer

vars == <<records, faults, workerVars, webVars>>

SystemTypeOK == StoreTypeOK /\ faults \in Nat /\ WorkerTypeOK /\ WebTypeOK

Init == StoreInit /\ faults = 0 /\ WorkerInit /\ WebInit

-----------------------------------------------------------------------------
Launch(i) ==
  /\ request[i] = "launch"
  /\ Answer(i, "launched")
  /\ \E w \in Worker : StartWorker(w, i)
  /\ UNCHANGED <<records, faults, removal>>

(* launchSyncWorker returns an error.  A Kubernetes request that timed out *)
(* may have created the Job all the same.                                  *)
LaunchFails(i) ==
  /\ Fault("launch")
  /\ request[i] = "launch"
  /\ Answer(i, "cleanup")
  /\ UNCHANGED workerVars \/ \E w \in Worker : StartWorker(w, i)
  /\ UNCHANGED <<records, removal>>

NotifyLaunchError(i) ==
  /\ request[i] = "notify"
  /\ Answer(i, "launchError")
  /\ Notify("error", i)
  /\ UNCHANGED <<records, faults, local, main, moni, cancelled, proc, final,
                 removal>>

(* Kubernetes starts the pod of a Job again.                               *)
Relaunch(w, i) ==
  /\ Fault("duplicate")
  /\ \E v \in Worker : job[v] = i
  /\ StartWorker(w, i)
  /\ UNCHANGED <<records, webVars>>

Second == Tick /\ WorkerSecond /\ WebSecond /\ UNCHANGED faults

Next ==
  \/ \E i \in Id : /\ WebStep(i)
                   /\ UNCHANGED workerVars
  \/ \E p \in Path : CancelSync(p) /\ UNCHANGED workerVars
  \/ ListSyncs /\ UNCHANGED workerVars
  \/ \E i \in Id : Launch(i) \/ LaunchFails(i) \/ NotifyLaunchError(i)
  \/ \E i \in Id, w \in Worker : Relaunch(w, i)
  \/ \E w \in Worker : /\ WorkerStep(w)
                       /\ UNCHANGED webVars
  \/ Second

Spec == Init /\ [][Next]_vars

-----------------------------------------------------------------------------
(* Fairness: the Go runtime runs every goroutine that is not blocked, the  *)
(* kernel ends a process group that was sent SIGKILL, and time passes.  A  *)
(* select chooses at random among its ready cases, so it does not pass the *)
(* cancelled context, or the closed done channel of a removal, over for    *)
(* ever: strong fairness of those branches.                                *)
(* Nothing makes rsync end by itself, a user act or a fault happen.        *)

KillRsync(w) == Ending(w) /\ RsyncExits(w, "fail")

Goroutines(w) ==
  /\ WF_vars((ClaimSucceeds(w) \/ ClaimFails(w)) /\ UNCHANGED webVars)
  /\ WF_vars((MonitorSeesCancel(w) \/ MonitorTicks(w)) /\ UNCHANGED webVars)
  /\ SF_vars(MonitorSeesCancel(w) /\ UNCHANGED webVars)
  /\ WF_vars((MonitorReported(w) \/ MonitorFails(w)) /\ UNCHANGED webVars)
  /\ WF_vars((ContextIsDone(w) \/ NotifyStart(w) \/ CallStartSync(w)
              \/ StartRsync(w) \/ StartSyncReturns(w) \/ CancelMonitor(w) \/ JoinMonitor(w)
              \/ FinalProgress(w) \/ FinishRecord(w) \/ NotifyEnd(w))
             /\ UNCHANGED webVars)
  /\ WF_vars(KillRsync(w) /\ UNCHANGED webVars)

Handlers(i) ==
  /\ WF_vars(Launch(i) \/ NotifyLaunchError(i)
             \/ (CleanupLaunch(i) /\ UNCHANGED workerVars))
  /\ WF_vars((HeartbeatTicks(i) \/ HeartbeatReplies(i) \/ HeartbeatFails(i))
             /\ UNCHANGED workerVars)
  /\ SF_vars(HeartbeatEnds(i) /\ UNCHANGED workerVars)
  /\ WF_vars((RemoveJoin(i) \/ RemoveFinish(i)) /\ UNCHANGED workerVars)

FairSpec ==
  /\ Spec
  /\ WF_vars(Second)
  /\ \A w \in Worker : Goroutines(w)
  /\ \A i \in Id : Handlers(i)

-----------------------------------------------------------------------------
(* A worker that is there has rsync writing to its directory.              *)
Transferring(w) == main[w] = "wait" /\ rsync[w] = "run"

(* A removal is deleting and its heartbeats have not failed.               *)
Removing(i) == request[i] = "deleting" /\ heartbeat[i] # "err"

(* "Redis failures cause workers to stop rather than continue without      *)
(* coordination" (README): as long as a worker lives, its rsync runs only  *)
(* under a live lease of its own, whatever calls fail or reply late.       *)
LeaseCoversTransfer ==
  \A w \in Worker : Transferring(w) =>
    /\ Live(job[w])
    /\ records[job[w]].state = "running"
    /\ records[job[w]].path = dir[w]

(* Every worker uses the run of rsync that startSync offers (RsyncProcess) *)
(* and no other: it starts one at most, waits for the end whatever else    *)
(* happens, gives a cancelled one KillGrace, and takes the result as it is.*)
RunPhase(w) ==
  IF main[w] = "dead" THEN "lost"
  ELSE IF rsync[w] = "none" THEN "off"
  ELSE IF main[w] = "wait" THEN IF rsync[w] = "run" THEN "run" ELSE "exited"
  ELSE IF main[w] \in {"cancel", "join"} THEN "returned" ELSE "over"

RunResult == [completed |-> "ok", failed |-> "fail", cancelled |-> "canceled"]

Run(w) == INSTANCE RsyncRun
  WITH phase  <- RunPhase(w),
       stop   <- cancelled[w],
       left   <- IF RunPhase(w) = "run" THEN grace[w] ELSE 0,
       exit   <- IF RunPhase(w) \in {"exited", "returned"} THEN rsync[w] ELSE "none",
       result <- IF RunPhase(w) = "returned" THEN RunResult[outcome[w]] ELSE "none"

RunsRsync ==
  /\ \A w \in Worker : Run(w)!Init
  /\ [][\A w \in Worker : [Run(w)!Next]_(Run(w)!vars)]_vars

(* No directory is written by rsync, or removed, while rsync or a removal  *)
(* is at work on the same directory, above it or below it.                 *)
DirectoryExclusive ==
  /\ \A v, w \in Worker :
       v # w /\ Transferring(v) /\ Transferring(w) => ~overlap(dir[v], dir[w])
  /\ \A w \in Worker, i \in Id :
       Transferring(w) /\ Removing(i) => ~overlap(dir[w], target[i])
  /\ \A i, j \in Id :
       i # j /\ Removing(i) /\ Removing(j) => ~overlap(target[i], target[j])

(* "Kubernetes retries or duplicate invocations cannot run a second rsync  *)
(* against the same reservation" (sync_store.go).                          *)
OneTransfer ==
  \A v, w \in Worker :
    v # w /\ rsync[v] # "none" /\ rsync[w] # "none" => job[v] # job[w]

(* "complete is sent only after rsync succeeds and final state is saved to *)
(* Redis" (README), the last progress rsync showed included.               *)
CompleteIsTrue ==
  \A i \in Id : (\E k \in 1..Len(events[i]) : events[i][k] = "complete") =>
    \E w \in Worker :
      /\ job[w] = i
      /\ rsync[w] = "ok"
      /\ Present(i) => /\ records[i].state = "completed"
                       /\ records[i].progress = seen[w]

(* Events of a reservation tell one story, although workers may be started *)
(* twice and the web server reports a failed launch on its own: one start, *)
(* and nothing but such a report after complete or cancelled.              *)
EventOrder ==
  \A i \in Id : \A k, m \in 1..Len(events[i]) : k < m =>
    /\ events[i][m] = "start" => events[i][k] = "error"
    /\ events[i][k] \in {"complete", "cancelled"} => events[i][m] = "error"

(* "Atomically fail an unclaimed reservation or request stop if claimed"   *)
(* (main.go): when nothing but the launch has failed, the reservation      *)
(* never again holds its directory without being told to stop.             *)
FailedLaunchReleased ==
  \A i \in Id : request[i] \in {"notify", "launchError"} /\ faults <= 1 /\ Live(i) =>
    records[i].state = "running" /\ records[i].stop

(* What is announced of a reservation is true and in order: a success that *)
(* was saved, a failed launch that was cleaned up.                         *)
EventsAreTrue == CompleteIsTrue /\ EventOrder /\ FailedLaunchReleased

(* "Keep the reservation alive during a potentially long recursive         *)
(* deletion" (sync_worker.go), while heartbeats succeed; an answer of 200  *)
(* means they all did.                                                     *)
RemovalLeased ==
  \A i \in Id : request[i] \in {"deleting", "join", "finish"} /\ Beating(i) =>
    /\ Live(i)
    /\ records[i].state = "removing"
    /\ records[i].path = target[i]

(* A reservation that is asked to stop before any worker claims it never   *)
(* gets as far as rsync.                                                   *)
StoppedBeforeClaim ==
  \A i \in Id :
    [](Live(i) /\ records[i].state = "queued" /\ records[i].stop
         => [](\A w \in Worker : job[w] = i => rsync[w] = "none"))

(* A client that was answered with a conflict or an error has no sync and  *)
(* no removal, even if reserve's reply was lost and its reservation is in  *)
(* the hash: no worker is ever started for it, nobody claims, renews or    *)
(* finishes it, and it is not made later.  What is left of it runs out.    *)
RefusedLapses ==
  [][\A i \in Id : request[i] \in {"conflict", "error"} =>
       /\ \A w \in Worker : job'[w] # i
       /\ Present(i)' => /\ Present(i)
                         /\ records'[i].state = records[i].state
                         /\ records'[i].ttl <= records[i].ttl]_vars

(* All that the system does to the hash are calls the store allows for: in *)
(* particular no reservation is made twice.                                *)
UsesStore == StoreSpec

(* A stop request reaches a running rsync: it ends, or its worker died.    *)
StopEndsTransfer ==
  \A w \in Worker :
    (Transferring(w) /\ records[job[w]].stop) ~> ~Transferring(w)

(* A stop request takes effect whenever it comes: before the claim it      *)
(* keeps rsync from starting, later it ends it.                            *)
StopTakesEffect == StoppedBeforeClaim /\ StopEndsTransfer

(* A cancelled worker comes to its end: main goroutine, monitor and rsync  *)
(* never wait for each other for ever.                                     *)
CancelledWorkerEnds == \A w \in Worker : cancelled[w] ~> ~Alive(w)

(* Once RemoveAll has returned the request is answered: the handler does   *)
(* not wait for ever for a heartbeat goroutine that failed earlier or is   *)
(* in the middle of a call.                                                *)
RemovalAnswered ==
  \A i \in Id :
    request[i] = "join" ~> request[i] \in {"removed", "removeError", "dead"}

(* Goroutines that cancel, signal and wait for each other all come to an   *)
(* end, in workers and in removals.                                        *)
NobodyWaitsForever == CancelledWorkerEnds /\ RemovalAnswered

(* A reservation nobody works for any more gives its directory back,       *)
(* wherever its owner died.                                                *)
Owned(i) ==
  \/ \E w \in Worker : job[w] = i /\ Alive(w)
  \/ request[i] \in {"launch", "cleanup", "deleting", "join", "finish"}

OrphanReleased == \A i \in Id : Live(i) ~> (Owned(i) \/ ~Live(i))
-----------------------------------------------------------------------------
(* Two statements about the code that do not hold of it.                   *)

(* A worker whose rsync exits with 0, that nobody asked to stop, and whose *)
(* calls all met a healthy Redis ends in start, complete                   *)
(* (sync_notifications_test.go): it is not recorded as failed.             *)
HealthySyncNotFailed ==
  \A w \in Worker :
    /\ faults = 0
    /\ main[w] = "exit"
    /\ rsync[w] = "ok"
    /\ Present(job[w])
    /\ ~records[job[w]].stop
    => records[job[w]].state # "failed"

(* The reservation of a removal is kept alive during the whole deletion    *)
(* (sync_worker.go), one failed heartbeat or not.                          *)
RemovalKeepsLease == \A i \in Id : request[i] = "deleting" => Live(i)
=============================================================================
