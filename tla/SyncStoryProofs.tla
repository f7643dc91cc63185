--------------------------- MODULE SyncStoryProofs ----------------------------
(***************************************************************************)
(* What the system tells about a reservation, and what it makes of a stop  *)
(* request: the theorems about published events and about stops that come  *)
(* before the claim, on top of the invariant of SyncSystemProofs.          *)
(***************************************************************************)
EXTENDS SyncSystemProofs

(* What is announced, and what is behind it.                               *)

Said(i, E) == \E k \in 1..Len(events[i]) : events[i][k] \in E

(* What a worker that has seen rsync end will record and announce.         *)
Recorded(w) ==
  /\ main[w] \in {"cancel", "join", "final", "finish", "notify"}
       /\ outcome[w] = "completed" => rsync[w] = "ok"
  /\ main[w] \in {"finish", "notify"} /\ saved[w] /\ Present(job[w]) =>
       records[job[w]].progress = seen[w]
  /\ main[w] = "notify" /\ saved[w] /\ Present(job[w]) =>
       records[job[w]].state = outcome[w]

(* The worker that stands behind each announcement.                        *)
Story(i) ==
  /\ Said(i, {"start", "complete", "cancelled"}) =>
       \E w \in Worker : job[w] = i /\ HasClaimed(w) /\ main[w] # "check"
  /\ Said(i, {"complete", "cancelled"}) =>
       \E w \in Worker : job[w] = i /\ HasClaimed(w) /\ main[w] = "exit"
  /\ Said(i, {"complete"}) =>
       \E w \in Worker :
         /\ job[w] = i /\ HasClaimed(w) /\ main[w] = "exit" /\ rsync[w] = "ok"
         /\ Present(i) => /\ records[i].state = "completed"
                          /\ records[i].progress = seen[w]

(* A launch does not fail without a fault.                                 *)
CleanedUp(i) ==
  request[i] \in {"cleanup", "notify", "launchError"} => faults >= 1

(* Inductive together with SystemInv.                                      *)
StoryInv ==
  /\ \A w \in Worker : Recorded(w)
  /\ \A i \in Id : Story(i) /\ CleanedUp(i)
  /\ EventOrder
  /\ FailedLaunchReleased

-----------------------------------------------------------------------------
(* What is announced.  A step is a worker's own, or starts it, or leaves   *)
(* it alone; its claimed record then tells the same as before.             *)

Steady(j) ==
  Present(j)' => /\ Present(j)
                 /\ records'[j].state = records[j].state
                 /\ records'[j].progress = records[j].progress

(* A worker to which nothing happens.                                      *)
Still(w) ==
  /\ job'[w] = job[w] /\ main'[w] = main[w] /\ monitor'[w] = monitor[w]
  /\ cancelled'[w] = cancelled[w] /\ rsync'[w] = rsync[w] /\ seen'[w] = seen[w]
  /\ outcome'[w] = outcome[w] /\ saved'[w] = saved[w]
  /\ HasClaimed(w) => job[w] \in Id /\ Steady(job[w])

(* Whatever happens, a worker acts, is started or is still.                *)
LEMMA OthersAreStill ==
  ASSUME SystemInv, [Next]_vars, NEW w \in Worker
  PROVE  \/ WorkerStep(w)
         \/ main[w] = "off" /\ main'[w] = "claim" /\ ~HasClaimed(w) /\ ~HasClaimed(w)'
              /\ rsync[w] = "none" /\ rsync'[w] = "none"
         \/ Still(w)
<1>1. SystemTypeOK /\ WorkerTypeOK /\ WebTypeOK /\ StoreTypeOK /\ Control(w)
      /\ (HasClaimed(w) => job[w] \in Id)
  BY DEF SystemInv, SystemTypeOK, WorkerTypeOK, Control, HasClaimed
<1>2. ASSUME SameWorker(w), HasClaimed(w) => Calm(job[w]) PROVE Still(w)
  BY <1>1, <1>2 DEF SameWorker, Still, Steady, Calm
<1>3. ASSUME NEW i \in Id, WebStep(i), UNCHANGED workerVars PROVE Still(w)
  <2>1. SameWorker(w)
    BY <1>3 DEF SameWorker, workerVars, local, moni, proc, final
  <2> QED BY <1>2, <1>3, <2>1, ClaimUndisturbed
<1>4. ASSUME UNCHANGED workerVars, (\E p \in Path : Stop(p)) \/ List \/ UNCHANGED records
      PROVE  Still(w)
  <2>1. SameWorker(w)
    BY <1>4 DEF SameWorker, workerVars, local, moni, proc, final
  <2>2. \A j \in Id : Calm(j)
    BY <1>1, <1>4, StopIsCalm, DropIsCalm, UnchangedIsCalm DEF List
  <2> QED BY <1>1, <1>2, <2>1, <2>2
<1>5. ASSUME NEW i \in Id, NEW v \in Worker, StartWorker(v, i), UNCHANGED records
      PROVE  \/ main[w] = "off" /\ main'[w] = "claim" /\ ~HasClaimed(w) /\ ~HasClaimed(w)'
                  /\ rsync[w] = "none" /\ rsync'[w] = "none"
             \/ Still(w)
  <2>1. CASE v = w
    BY <1>1, <1>5, <2>1
       DEF StartWorker, Goto, Control, HasClaimed, moni, proc, WorkerTypeOK
  <2>2. CASE v # w
    BY <1>1, <1>2, <1>5, <2>2, StartKeepsWorkers, UnchangedIsCalm
  <2> QED BY <2>1, <2>2
<1>6. ASSUME NEW i \in Id, NotifyLaunchError(i) PROVE Still(w)
  <2>1. SameWorker(w) /\ UNCHANGED records
    BY <1>6 DEF SameWorker, NotifyLaunchError, local, moni, proc, final
  <2> QED BY <1>1, <1>2, <2>1, UnchangedIsCalm
<1>7. ASSUME NEW v \in Worker \ {w}, WorkerStep(v) PROVE Still(w)
  <2>1. SameWorker(w)
    BY <1>1, <1>7, WorkerFrame DEF SystemInv
  <2> QED BY <1>2, <1>7, <2>1, OtherClaims
<1>8. CASE Second
  <2>1. HasClaimed(w) => Steady(job[w])
    BY <1>1, <1>8, TickFields DEF Steady, Second, WorkerSecond, local
  <2> QED BY <1>1, <1>8, <2>1 DEF Second, WorkerSecond, Still, local, final
<1>9. CASE \E i \in Id : Launch(i) \/ LaunchFails(i) \/ \E v \in Worker : Relaunch(v, i)
  <2>1. UNCHANGED records /\ (UNCHANGED workerVars \/ \E i \in Id, v \in Worker : StartWorker(v, i))
    BY <1>9 DEF Launch, LaunchFails, Relaunch
  <2> QED BY <1>4, <1>5, <2>1
<1>10. CASE UNCHANGED vars
  BY <1>4, <1>10 DEF vars
<1>11. CASE \/ \E p \in Path : CancelSync(p) /\ UNCHANGED workerVars
            \/ ListSyncs /\ UNCHANGED workerVars
  BY <1>4, <1>11 DEF CancelSync, ListSyncs
<1> QED BY <1>3, <1>6, <1>7, <1>8, <1>9, <1>10, <1>11 DEF Next

(* What a worker has claimed, announced or recorded stays so.              *)
LEMMA ClaimedForGood ==
  ASSUME SystemInv, [Next]_vars, NEW w \in Worker, HasClaimed(w)
  PROVE  /\ HasClaimed(w)' /\ job'[w] = job[w] /\ job[w] \in Id
         /\ main[w] # "check" => main'[w] # "check"
         /\ main[w] = "exit" => /\ main'[w] = "exit" /\ seen'[w] = seen[w]
                                /\ rsync[w] = "ok" => rsync'[w] = "ok"
                                /\ Steady(job[w])
<1>1. SystemTypeOK /\ WorkerTypeOK /\ StoreTypeOK /\ Control(w) /\ job[w] \in Id
  BY DEF SystemInv, SystemTypeOK, WorkerTypeOK, Control, HasClaimed
<1>2. CASE Still(w)
  BY <1>1, <1>2 DEF Still, HasClaimed
<1>3. CASE WorkerStep(w)
  <2>1. job'[w] = job[w]
    BY <1>1, <1>3, WorkerFrame
  <2>2. HasClaimed(w)' /\ (main[w] # "check" => main'[w] # "check")
    BY <1>1, <1>3 DEF WorkerStep, Control, HasClaimed, ClaimSucceeds, ClaimFails,
       MonitorSeesCancel, MonitorTicks, MonitorReported,
       MonitorFails, ContextIsDone, NotifyStart, CallStartSync, StartRsync, RsyncReports,
       RsyncExits, StartSyncReturns, CancelMonitor, JoinMonitor, FinalProgress,
       FinishRecord, NotifyEnd, Sigterm, Crash, Goto, MonitorReturns, moni, WorkerTypeOK
  <2>3. ASSUME main[w] = "exit"
        PROVE  \E r \in {"ok", "fail"} : RsyncExits(w, r)
    BY <1>1, <1>3, <2>3 DEF WorkerStep, Control, HasClaimed, ClaimSucceeds, ClaimFails,
       MonitorSeesCancel, MonitorTicks, MonitorReported,
       MonitorFails, ContextIsDone, NotifyStart, CallStartSync, StartRsync, RsyncReports,
       StartSyncReturns, CancelMonitor, JoinMonitor, FinalProgress,
       FinishRecord, NotifyEnd, Sigterm, Crash, Goto, Alive
  <2>4. ASSUME main[w] = "exit"
        PROVE  /\ main'[w] = "exit" /\ seen'[w] = seen[w]
               /\ rsync[w] # "ok"
               /\ Steady(job[w])
    BY <2>1, <2>3, <2>4 DEF RsyncExits, Steady, Present
  <2> QED BY <1>1, <2>1, <2>2, <2>4
<1> QED BY <1>1, <1>2, <1>3, OthersAreStill

(* The closing calls of a worker leave in the record what it announces.    *)
LEMMA RecordedStep ==
  ASSUME SystemInv, [Next]_vars, NEW w \in Worker, Recorded(w)
  PROVE  Recorded(w)'
<1>1. SystemTypeOK /\ WorkerTypeOK /\ StoreTypeOK /\ Control(w)
  BY DEF SystemInv, SystemTypeOK
<1>2. CASE Still(w)
  <2>1. main[w] \in {"finish", "notify"} => HasClaimed(w)
    BY <1>1 DEF Control, HasClaimed
  <2> QED BY <1>2, <2>1 DEF Still, Steady, Recorded
<1>3. CASE main'[w] = "claim"
  BY <1>3 DEF Recorded
<1>4. CASE WorkerStep(w)
  <2>1. job'[w] = job[w] /\ job[w] \in Id
    BY <1>1, <1>4, WorkerFrame, WorkerCalls
  <2>2. CASE FinalProgress(w)
    <3>1. /\ main[w] = "final" /\ main'[w] = "finish" /\ UNCHANGED outcome
          /\ rsync'[w] = rsync[w] /\ seen'[w] = seen[w]
      BY <1>1, <2>2 DEF FinalProgress, Goto, WorkerTypeOK, proc
    <3>2. saved'[w] => Update(job[w], LastProgress(w))
      BY <1>1, <2>2 DEF FinalProgress, Saves, CallReplies, WorkerTypeOK
    <3>3. LastProgress(w) \in Operation
      BY <1>1, CallsAreOperations
    <3>4. LastProgress(w).op = "progress" /\ LastProgress(w).progress = seen[w]
      BY DEF LastProgress, Progress
    <3>5. saved'[w] => records'[job[w]].progress = seen[w]
      BY <1>1, <2>1, <3>2, <3>3, <3>4, UpdateFields
    <3> QED BY <2>1, <3>1, <3>5 DEF Recorded
  <2>3. CASE FinishRecord(w)
    <3>1. /\ main[w] = "finish" /\ main'[w] = "notify" /\ UNCHANGED outcome
          /\ rsync'[w] = rsync[w] /\ seen'[w] = seen[w]
      BY <1>1, <2>3 DEF FinishRecord, Goto, WorkerTypeOK, proc
    <3>2. saved'[w] => Update(job[w], Finish(outcome[w])) /\ saved[w]
      BY <1>1, <2>3 DEF FinishRecord, Saves, CallReplies, WorkerTypeOK
    <3>3. Finish(outcome[w]) \in Operation
      BY <1>1, CallsAreOperations
    <3>4. Finish(outcome[w]).op = "finish" /\ Finish(outcome[w]).state = outcome[w]
      BY DEF Finish
    <3>5. saved'[w] => /\ records'[job[w]].progress = records[job[w]].progress
                       /\ records'[job[w]].state = outcome[w]
                       /\ Present(job[w])
      BY <1>1, <2>1, <3>2, <3>3, <3>4, UpdateFields DEF Live
    <3> QED BY <2>1, <3>1, <3>2, <3>5 DEF Recorded
  <2>4. CASE main[w] \in {"finish", "notify"} /\ ~FinishRecord(w)
    <3>1. NotifyEnd(w) \/ Sigterm(w) \/ Crash(w) \/ \E r \in {"ok", "fail"} : RsyncExits(w, r)
      BY <1>1, <1>4, <2>4 DEF WorkerStep, Control, ClaimSucceeds, ClaimFails,
         MonitorSeesCancel, MonitorTicks, MonitorReported, MonitorFails, ContextIsDone,
         NotifyStart, CallStartSync, StartRsync, RsyncReports, StartSyncReturns,
         CancelMonitor, JoinMonitor, FinalProgress, Goto
    <3>2. /\ main'[w] \in {main[w], "exit", "dead"}
          /\ UNCHANGED <<records, outcome, saved>>
          /\ seen'[w] = seen[w]
          /\ rsync[w] = "ok" => rsync'[w] = "ok"
      BY <1>1, <3>1
         DEF NotifyEnd, Sigterm, Crash, RsyncExits, Goto, WorkerTypeOK, proc, final
    <3> QED BY <2>1, <3>2 DEF Recorded, Present
  <2>5. CASE main[w] \notin {"final", "finish", "notify"} /\ ~FinalProgress(w) /\ ~FinishRecord(w)
    <3>1. /\ main'[w] \notin {"finish", "notify"}
          /\ main'[w] \in {"cancel", "join", "final"} /\ outcome'[w] = "completed" =>
               rsync'[w] = "ok"
      BY <1>1, <1>4, <2>5 DEF WorkerStep, ClaimSucceeds, ClaimFails,
         MonitorSeesCancel, MonitorTicks, MonitorReported, MonitorFails, ContextIsDone,
         NotifyStart, CallStartSync, StartRsync, RsyncReports, RsyncExits, StartSyncReturns,
         CancelMonitor, JoinMonitor, FinalProgress, NotifyEnd, Sigterm, Crash, Goto, Result,
         MonitorReturns, WorkerTypeOK, Recorded, local, proc, final
    <3> QED BY <3>1 DEF Recorded
  <2>6. CASE main[w] = "final" /\ ~FinalProgress(w)
    <3>1. Sigterm(w) \/ Crash(w) \/ \E r \in {"ok", "fail"} : RsyncExits(w, r)
      BY <1>1, <1>4, <2>6 DEF WorkerStep, Control, ClaimSucceeds, ClaimFails,
         MonitorSeesCancel, MonitorTicks, MonitorReported, MonitorFails, ContextIsDone,
         NotifyStart, CallStartSync, StartRsync, RsyncReports, StartSyncReturns,
         CancelMonitor, JoinMonitor, FinishRecord, NotifyEnd, Goto
    <3>2. /\ main'[w] \in {"final", "dead"}
          /\ UNCHANGED outcome
          /\ rsync[w] = "ok" => rsync'[w] = "ok"
      BY <1>1, <2>6, <3>1 DEF Sigterm, Crash, RsyncExits, WorkerTypeOK, proc, final
    <3> QED BY <2>6, <3>2 DEF Recorded
  <2> QED BY <1>1, <2>2, <2>3, <2>4, <2>5, <2>6 DEF FinalProgress, FinishRecord, Goto
<1> QED BY <1>2, <1>3, <1>4, OthersAreStill

(* Who announces what.                                                     *)
LEMMA WhoAnnounces ==
  ASSUME SystemInv, [Next]_vars
  PROVE  \/ UNCHANGED events
         \/ \E i \in Id : Notify("error", i)
         \/ \E w \in Worker : NotifyStart(w) /\ job[w] \in Id
         \/ \E w \in Worker : NotifyEnd(w) /\ job[w] \in Id
<1>1. ASSUME NEW w \in Worker, WorkerStep(w), ~NotifyStart(w), ~NotifyEnd(w)
      PROVE  UNCHANGED events
  BY <1>1 DEF WorkerStep, ClaimSucceeds, ClaimFails,
     MonitorSeesCancel, MonitorTicks, MonitorReported,
     MonitorFails, ContextIsDone, CallStartSync, StartRsync, RsyncReports,
     RsyncExits, StartSyncReturns, CancelMonitor, JoinMonitor, FinalProgress,
     FinishRecord, Sigterm, Crash
<1>2. ASSUME NEW i \in Id,
             Launch(i) \/ LaunchFails(i) \/ NotifyLaunchError(i) \/ \E w \in Worker : Relaunch(w, i)
      PROVE  UNCHANGED events \/ Notify("error", i)
  BY <1>2 DEF Launch, LaunchFails, NotifyLaunchError, Relaunch, StartWorker, workerVars
<1>3. Second => UNCHANGED events
  BY DEF Second, WorkerSecond
<1>4. UNCHANGED workerVars => UNCHANGED events
  BY DEF workerVars
<1>5. UNCHANGED vars => UNCHANGED events
  BY DEF vars, workerVars
<1>6. \A w \in Worker : WorkerStep(w) => job[w] \in Id
  BY WorkerCalls DEF SystemInv
<1> QED BY <1>1, <1>2, <1>3, <1>4, <1>5, <1>6 DEF Next

(* What a notification does to the story of its reservation.               *)
LEMMA Appended ==
  ASSUME events \in [Id -> Seq(Event)], NEW i \in Id, NEW e \in Event, Notify(e, i)
  PROVE  /\ \A j \in Id \ {i} : events'[j] = events[j]
         /\ Len(events[i]) \in Nat
         /\ Len(events'[i]) = Len(events[i]) + 1
         /\ \A k \in 1..Len(events[i]) : events'[i][k] = events[i][k]
         /\ events'[i][Len(events[i]) + 1] = e
         /\ \A E : Said(i, E)' => Said(i, E) \/ e \in E
<1>1. events[i] \in Seq(Event) /\ events'[i] = Append(events[i], e)
      /\ \A j \in Id \ {i} : events'[j] = events[j]
  BY DEF Notify
<1>2. /\ Len(events[i]) \in Nat
      /\ Len(events'[i]) = Len(events[i]) + 1
      /\ \A k \in 1..Len(events[i]) : events'[i][k] = events[i][k]
      /\ events'[i][Len(events[i]) + 1] = e
  BY <1>1
<1>3. ASSUME NEW E, Said(i, E)' PROVE Said(i, E) \/ e \in E
  <2>1. PICK k \in 1..Len(events'[i]) : events'[i][k] \in E
    BY <1>3 DEF Said
  <2>2. k \in 1..Len(events[i]) \/ k = Len(events[i]) + 1
    BY <1>2, <2>1
  <2> QED BY <1>2, <2>1, <2>2 DEF Said
<1> QED BY <1>1, <1>2, <1>3

(* What stands behind an announcement stays there.                         *)
LEMMA WitnessesStay ==
  ASSUME SystemInv, [Next]_vars, NEW i \in Id, Story(i)
  PROVE  /\ Said(i, {"start", "complete", "cancelled"}) =>
              \E w \in Worker : job'[w] = i /\ HasClaimed(w)' /\ main'[w] # "check"
         /\ Said(i, {"complete", "cancelled"}) =>
              \E w \in Worker : job'[w] = i /\ HasClaimed(w)' /\ main'[w] = "exit"
         /\ Said(i, {"complete"}) =>
              \E w \in Worker :
                /\ job'[w] = i /\ HasClaimed(w)' /\ main'[w] = "exit" /\ rsync'[w] = "ok"
                /\ Present(i)' => /\ records'[i].state = "completed"
                                  /\ records'[i].progress = seen'[w]
<1>1. ASSUME Said(i, {"start", "complete", "cancelled"})
      PROVE  \E w \in Worker : job'[w] = i /\ HasClaimed(w)' /\ main'[w] # "check"
  <2>1. PICK w \in Worker : job[w] = i /\ HasClaimed(w) /\ main[w] # "check"
    BY <1>1 DEF Story
  <2> QED BY <2>1, ClaimedForGood
<1>2. ASSUME Said(i, {"complete", "cancelled"})
      PROVE  \E w \in Worker : job'[w] = i /\ HasClaimed(w)' /\ main'[w] = "exit"
  <2>1. PICK w \in Worker : job[w] = i /\ HasClaimed(w) /\ main[w] = "exit"
    BY <1>2 DEF Story
  <2> QED BY <2>1, ClaimedForGood
<1>3. ASSUME Said(i, {"complete"})
      PROVE  \E w \in Worker :
               /\ job'[w] = i /\ HasClaimed(w)' /\ main'[w] = "exit" /\ rsync'[w] = "ok"
               /\ Present(i)' => /\ records'[i].state = "completed"
                                 /\ records'[i].progress = seen'[w]
  <2>1. PICK w \in Worker :
               /\ job[w] = i /\ HasClaimed(w) /\ main[w] = "exit" /\ rsync[w] = "ok"
               /\ Present(i) => /\ records[i].state = "completed"
                                /\ records[i].progress = seen[w]
    BY <1>3 DEF Story
  <2>2. /\ job'[w] = i /\ HasClaimed(w)' /\ main'[w] = "exit" /\ rsync'[w] = "ok"
        /\ seen'[w] = seen[w] /\ Steady(job[w])
    BY <2>1, ClaimedForGood
  <2>3. Present(i)' => Present(i) /\ records'[i].state = records[i].state
                                  /\ records'[i].progress = records[i].progress
    BY <2>1, <2>2 DEF Steady
  <2> QED BY <2>1, <2>2, <2>3
<1> QED BY <1>1, <1>2, <1>3

(* Announcements keep to what stands behind them, and to their order.      *)
LEMMA StoryStep ==
  ASSUME SystemInv, [Next]_vars, StoryInv
  PROVE  (\A i \in Id : Story(i)') /\ EventOrder'
<1>1. SystemTypeOK /\ WorkerTypeOK /\ StoreTypeOK /\ events \in [Id -> Seq(Event)]
      /\ \A i \in Id : Story(i)
  BY DEF SystemInv, SystemTypeOK, WorkerTypeOK, StoryInv
<1>2. ASSUME NEW i \in Id, events'[i] = events[i] PROVE Story(i)'
  <2>1. \A E : Said(i, E)' => Said(i, E)
    BY <1>2 DEF Said
  <2> QED BY <1>1, <2>1, WitnessesStay DEF Story
<1>3. CASE UNCHANGED events
  BY <1>2, <1>3 DEF EventOrder, StoryInv
<1>4. ASSUME NEW i \in Id, NEW e \in Event, Notify(e, i),
             e # "start" \/ ~Said(i, {"start", "complete", "cancelled"}),
             e = "error" \/ ~Said(i, {"complete", "cancelled"})
      PROVE  EventOrder'
  <2> SUFFICES ASSUME NEW j \in Id, NEW k \in 1..Len(events'[j]), NEW m \in 1..Len(events'[j]),
                      k < m
               PROVE  /\ events'[j][m] = "start" => events'[j][k] = "error"
                      /\ events'[j][k] \in {"complete", "cancelled"} => events'[j][m] = "error"
    BY DEF EventOrder
  <2>1. CASE j # i
    BY <1>1, <1>4, <2>1, Appended DEF StoryInv, EventOrder
  <2>2. CASE j = i /\ m \in 1..Len(events[i])
    <3>1. k \in 1..Len(events[i]) /\ events'[i][k] = events[i][k] /\ events'[i][m] = events[i][m]
      BY <1>1, <1>4, <2>2, Appended
    <3> QED BY <2>2, <3>1 DEF StoryInv, EventOrder
  <2>3. CASE j = i /\ m \notin 1..Len(events[i])
    <3>1. m = Len(events[i]) + 1 /\ k \in 1..Len(events[i])
      BY <1>1, <1>4, <2>3, Appended
    <3>2. events'[i][k] = events[i][k] /\ events'[i][m] = e /\ events[i][k] \in Event
      BY <1>1, <1>4, <3>1, Appended
    <3> QED BY <1>4, <2>3, <3>1, <3>2 DEF Said, Event
  <2> QED BY <2>1, <2>2, <2>3
<1>5. ASSUME NEW i \in Id, Notify("error", i) PROVE (\A j \in Id : Story(j)') /\ EventOrder'
  <2>1. "error" \in Event
    BY DEF Event
  <2>2. EventOrder'
    BY <1>4, <1>5, <2>1
  <2>3. /\ Said(i, {"start", "complete", "cancelled"})' => Said(i, {"start", "complete", "cancelled"})
        /\ Said(i, {"complete", "cancelled"})' => Said(i, {"complete", "cancelled"})
        /\ Said(i, {"complete"})' => Said(i, {"complete"})
    BY <1>1, <1>5, <2>1, Appended
  <2>4. Story(i)'
    BY <1>1, <2>3, WitnessesStay DEF Story
  <2> QED BY <1>1, <1>2, <1>5, <2>1, <2>2, <2>4, Appended
<1>6. ASSUME NEW w \in Worker, NEW i \in Id, job[w] = i, NotifyStart(w)
      PROVE  (\A j \in Id : Story(j)') /\ EventOrder'
  <2>1. /\ "start" \in Event /\ Notify("start", i) /\ i \in Id
        /\ main[w] = "check" /\ main'[w] = "recheck" /\ UNCHANGED <<job, monitor>>
        /\ HasClaimed(w)
    BY <1>1, <1>6
       DEF Event, NotifyStart, Goto, WorkerTypeOK, local, moni, SystemInv, Control,
           HasClaimed
  <2>2. ~Said(i, {"start", "complete", "cancelled"}) /\ ~Said(i, {"complete", "cancelled"})
        /\ ~Said(i, {"complete"})
    <3>1. ~Said(i, {"start", "complete", "cancelled"})
      BY <1>1, <1>6, <2>1 DEF Story, SystemInv, ClaimIsSole
    <3> QED BY <3>1 DEF Said
  <2>3. EventOrder'
    BY <1>4, <2>1, <2>2
  <2>4. ~Said(i, {"complete", "cancelled"})' /\ ~Said(i, {"complete"})'
    BY <1>1, <2>1, <2>2, Appended
  <2>5. Story(i)'
    BY <1>6, <2>1, <2>4 DEF Story, HasClaimed
  <2> QED BY <1>1, <1>2, <2>1, <2>3, <2>5, Appended
<1>7. ASSUME NEW w \in Worker, NEW i \in Id, job[w] = i, NotifyEnd(w)
      PROVE  (\A j \in Id : Story(j)') /\ EventOrder'
  <2> DEFINE e == EndEvent(w)
  <2>1. /\ e \in Event /\ e # "start" /\ Notify(e, i)
        /\ main[w] = "notify" /\ main'[w] = "exit"
        /\ UNCHANGED <<job, monitor, rsync, seen, records>>
        /\ HasClaimed(w)
    BY <1>1, <1>7
       DEF Event, NotifyEnd, EndEvent, Goto, WorkerTypeOK, local, moni, proc, SystemInv,
                      Control, HasClaimed
  <2>2. ~Said(i, {"complete", "cancelled"}) /\ ~Said(i, {"complete"})
    <3>1. ~Said(i, {"complete", "cancelled"})
      BY <1>1, <1>7, <2>1 DEF Story, SystemInv, ClaimIsSole
    <3> QED BY <3>1 DEF Said
  <2>3. EventOrder'
    BY <1>4, <2>1, <2>2
  <2>4. Said(i, {"complete"})' => e = "complete"
    BY <1>1, <2>1, <2>2, Appended
  <2>5. e = "complete" => /\ rsync[w] = "ok"
                          /\ Present(i) => /\ records[i].state = "completed"
                                           /\ records[i].progress = seen[w]
    <3>1. e = "complete" => saved[w] /\ outcome[w] = "completed"
      BY <1>1 DEF EndEvent, WorkerTypeOK, FinalState
    <3> QED BY <1>7, <2>1, <3>1 DEF StoryInv, Recorded
  <2>6. Story(i)'
    BY <1>7, <2>1, <2>4, <2>5 DEF Story, HasClaimed, Present
  <2> QED BY <1>1, <1>2, <2>1, <2>3, <2>6, Appended
<1> QED BY <1>3, <1>5, <1>6, <1>7, WhoAnnounces

(* A reservation that was made changes by the calls of its workers and     *)
(* handler and by time; none of them takes a stop request back, or makes   *)
(* it queued again.                                                        *)
LEMMA LaunchedRecord ==
  ASSUME SystemInv, [Next]_vars, NEW i \in Id, request[i] # "idle"
  PROVE  /\ Calm(i) \/ Tick \/ \E o \in Operation : Update(i, o)
         /\ Live(i)' => Live(i)
         /\ Live(i)' /\ records[i].state = "running" /\ records[i].stop =>
              records'[i].state = "running" /\ records'[i].stop
         /\ Present(i)' /\ records'[i].state = "queued" =>
              /\ Present(i) /\ records[i].state = "queued"
              /\ records[i].stop => records'[i].stop
<1>1. SystemTypeOK /\ StoreTypeOK /\ \A w \in Worker : Control(w)
  BY DEF SystemInv, SystemTypeOK
<1>2. Calm(i) \/ Tick \/ \E o \in Operation : Update(i, o)
  <2>1. ASSUME NEW j \in Id, WebStep(j) PROVE Calm(i) \/ \E o \in Operation : Update(i, o)
    <3>1. CASE j = i
      <4> DEFINE f == Finish(IF deleted[i] THEN "completed" ELSE "failed")
      <4>1. {LaunchFailed, Heartbeat, f} \subseteq Operation
        BY DEF Operation, FinalState
      <4>2. UNCHANGED records \/ \E o \in {LaunchFailed, Heartbeat, f} : Update(i, o)
        BY <2>1, <3>1, FailedCall
           DEF WebStep, StartReserve, RemoveReserve, ReserveReplies,
           ReserveFails, Fresh, CleanupLaunch, HeartbeatTicks, HeartbeatReplies, HeartbeatFails,
           HeartbeatEnds, RemoveAllReturns, RemoveJoin, RemoveFinish, WebCrash, CallReplies
      <4> QED BY <4>1, <4>2, UnchangedIsCalm
    <3> QED BY <2>1, <3>1, WebFrame
  <2>2. ASSUME NEW p \in Path, CancelSync(p) PROVE Calm(i)
    BY <1>1, <2>2, StopIsCalm DEF CancelSync
  <2>3. ListSyncs => Calm(i)
    BY <1>1, DropIsCalm DEF ListSyncs, List
  <2>4. ASSUME NEW w \in Worker, WorkerStep(w) PROVE Calm(i) \/ \E o \in Operation : Update(i, o)
    BY <1>1, <2>4, WorkerFrame, WorkerCalls, UnchangedIsCalm
  <2>5. ASSUME NEW j \in Id,
               Launch(j) \/ LaunchFails(j) \/ NotifyLaunchError(j) \/ \E w \in Worker : Relaunch(w, j)
        PROVE  Calm(i)
    BY <2>5, UnchangedIsCalm DEF Launch, LaunchFails, NotifyLaunchError, Relaunch
  <2>6. UNCHANGED vars => Calm(i)
    BY UnchangedIsCalm DEF vars
  <2> QED BY <2>1, <2>2, <2>3, <2>4, <2>5, <2>6 DEF Next, Second
<1>3. CASE Calm(i)
  BY <1>2, <1>3 DEF Calm, Live
<1>4. CASE Tick
  BY <1>1, <1>2, <1>4, TickFields DEF Live
<1>5. ASSUME NEW o \in Operation, Update(i, o)
      PROVE  /\ Live(i)
             /\ records[i].stop => records'[i].stop
             /\ Live(i)' /\ records[i].state = "running" => records'[i].state = "running"
             /\ records'[i].state = "queued" => records[i].state = "queued"
  <2>1. \/ o.op \in {"claim", "launch_failed", "heartbeat", "progress"}
        \/ o.op = "finish" /\ o.state \in FinalState
    BY DEF Operation, Claim, LaunchFailed, Heartbeat, Progress, Finish
  <2> QED BY <1>1, <1>5, <2>1, UpdateFields DEF Live, active, ActiveState, FinalState
<1> QED BY <1>2, <1>3, <1>4, <1>5 DEF Live

(* Faults are only counted up.                                             *)
LEMMA FaultsGrow ==
  ASSUME SystemInv, [Next]_vars
  PROVE  faults \in Nat /\ faults' \in {faults, faults + 1}
<1>1. faults \in Nat
  BY DEF SystemInv, SystemTypeOK
<1>2. ASSUME NEW i, NEW o, NEW c, CallReplies(i, o) \/ CallFails(i, o, c)
      PROVE  faults' \in {faults, faults + 1}
  BY <1>2 DEF CallReplies, CallFails, NoReply, Fault
<1>3. ASSUME NEW w \in Worker, WorkerStep(w) PROVE faults' \in {faults, faults + 1}
  <2>1. CASE ClaimSucceeds(w) \/ ClaimFails(w) \/ MonitorReported(w) \/ MonitorFails(w)
             \/ FinalProgress(w) \/ FinishRecord(w)
    BY <1>2, <2>1
       DEF ClaimSucceeds, ClaimFails, MonitorReported, MonitorFails, FinalProgress,
                      FinishRecord, Saves
  <2> QED BY <1>3, <2>1 DEF WorkerStep, MonitorSeesCancel, MonitorTicks, ContextIsDone,
       NotifyStart, CallStartSync, StartRsync, RsyncReports, RsyncExits, StartSyncReturns,
       CancelMonitor, JoinMonitor, NotifyEnd, Sigterm, Crash, Fault
<1>4. ASSUME NEW i \in Id, WebStep(i) PROVE faults' \in {faults, faults + 1}
  <2>1. CASE CleanupLaunch(i) \/ HeartbeatReplies(i) \/ HeartbeatFails(i) \/ RemoveFinish(i)
    BY <1>2, <2>1 DEF CleanupLaunch, HeartbeatReplies, HeartbeatFails, RemoveFinish
  <2> QED BY <1>4, <2>1
             DEF WebStep, StartReserve, RemoveReserve, ReserveReplies, ReserveFails,
       HeartbeatTicks, HeartbeatEnds, RemoveAllReturns, RemoveJoin, WebCrash, Fault
<1> QED BY <1>1, <1>3, <1>4 DEF Next, CancelSync, ListSyncs, Launch, LaunchFails,
       NotifyLaunchError, Relaunch, Second, Fault, vars

(* The way a failed launch takes through its handler.                      *)
LEMMA FailedLaunchPath ==
  ASSUME SystemInv, [Next]_vars, NEW i \in Id
  PROVE  /\ request'[i] \in {"cleanup", "notify", "launchError"} =>
              request[i] \in {"cleanup", "notify", "launchError"} \/ LaunchFails(i)
         /\ request'[i] \in {"notify", "launchError"} =>
              request[i] \in {"notify", "launchError"} \/ CleanupLaunch(i)
<1>1. WebTypeOK
  BY DEF SystemInv, SystemTypeOK
<1>2. ASSUME NEW j \in Id, WebStep(j)
      PROVE  \/ request'[i] = request[i]
             \/ CleanupLaunch(i) /\ request[i] = "cleanup"
             \/ request'[i] \notin {"cleanup", "notify", "launchError"}
  BY <1>1, <1>2 DEF WebStep, StartReserve, CleanupLaunch, RemoveReserve, HeartbeatTicks,
     HeartbeatReplies, HeartbeatFails, HeartbeatEnds, RemoveAllReturns, RemoveJoin, RemoveFinish,
     WebCrash, ReserveReplies, ReserveFails, Answer, WebTypeOK
<1>3. ASSUME NEW j \in Id,
             Launch(j) \/ LaunchFails(j) \/ NotifyLaunchError(j) \/ \E w \in Worker : Relaunch(w, j)
      PROVE  \/ request'[i] = request[i]
             \/ LaunchFails(i) /\ request'[i] = "cleanup"
             \/ request[i] = "notify"
             \/ request'[i] = "launched"
  BY <1>1, <1>3
     DEF Launch, LaunchFails, NotifyLaunchError, Relaunch, webVars, Answer, WebTypeOK
<1>4. UNCHANGED webVars => request'[i] = request[i]
  BY DEF webVars
<1> QED BY <1>2, <1>3, <1>4 DEF Next, CancelSync, ListSyncs, Second, WebSecond, vars

(* Once a launch has failed there was a fault; and when it was the only    *)
(* one, the clean-up call told the worker to stop or failed the record.    *)
LEMMA CleanUpStep ==
  ASSUME SystemInv, [Next]_vars, StoryInv
  PROVE  (\A i \in Id : CleanedUp(i)') /\ FailedLaunchReleased'
<1>1. /\ SystemTypeOK /\ StoreTypeOK /\ WebTypeOK
      /\ \A i \in Id : CleanedUp(i) /\ Provenance(i)
  BY DEF SystemInv, SystemTypeOK, StoryInv
<1>2. faults \in Nat /\ faults' \in {faults, faults + 1}
  BY FaultsGrow
<1>3. \A i \in Id : CleanedUp(i)'
  BY <1>1, <1>2, FailedLaunchPath DEF CleanedUp, LaunchFails, Fault
<1>4. ASSUME NEW i \in Id, request'[i] \in {"notify", "launchError"}, faults' <= 1, Live(i)'
      PROVE  records'[i].state = "running" /\ records'[i].stop
  <2>1. CASE request[i] \in {"notify", "launchError"}
    <3>1. request[i] # "idle"
      BY <2>1
    <3>2. Live(i)
      BY <1>4, <3>1, LaunchedRecord
    <3>3. records[i].state = "running" /\ records[i].stop
      BY <1>2, <1>4, <2>1, <3>2 DEF StoryInv, FailedLaunchReleased
    <3> QED BY <1>4, <3>1, <3>3, LaunchedRecord
  <2>2. CASE CleanupLaunch(i)
    <3>1. request[i] = "cleanup" /\ faults >= 1
      BY <1>1, <2>2 DEF CleanupLaunch, CleanedUp
    <3>2. UNCHANGED faults
      BY <1>2, <1>4, <3>1
    <3>3. Update(i, LaunchFailed) \/ (~Accepts(i, LaunchFailed) /\ UNCHANGED records)
      BY <1>2, <2>2, <3>2 DEF CleanupLaunch, CallReplies, CallFails, NoReply, Fault
    <3>4. LaunchFailed \in Operation /\ LaunchFailed.op = "launch_failed"
      BY DEF Operation, LaunchFailed
    <3>5. Update(i, LaunchFailed)
      BY <1>4, <3>3, <3>4 DEF Accepts, Live, Present
    <3>6. Live(i) /\ records[i].state \in {"queued", "running"}
      <4>1. Live(i)
        BY <3>5 DEF Update, Accepts
      <4> QED BY <1>1, <3>1, <4>1 DEF Provenance, Live, active, ActiveState
    <3>7. /\ records[i].state = "queued" => records'[i].state = "failed"
          /\ records[i].state # "queued" => records'[i].state = records[i].state /\ records'[i].stop
      BY <1>1, <3>4, <3>5, UpdateFields
    <3> QED BY <1>4, <3>6, <3>7 DEF Live, active, ActiveState
  <2> QED BY <1>4, <2>1, <2>2, FailedLaunchPath
<1> QED BY <1>3, <1>4 DEF FailedLaunchReleased

(* Every step keeps the invariant about announcements.                     *)
LEMMA StoryInvStep == SystemInv /\ StoryInv /\ [Next]_vars => StoryInv'
<1> SUFFICES ASSUME SystemInv, StoryInv, [Next]_vars PROVE StoryInv'
  OBVIOUS
<1>1. \A w \in Worker : Recorded(w)'
  BY RecordedStep DEF StoryInv
<1> QED BY <1>1, StoryStep, CleanUpStep DEF StoryInv

(* Nothing is announced at first.                                          *)
LEMMA StoryInvInit == Init => StoryInv
<1> SUFFICES ASSUME Init PROVE StoryInv
  OBVIOUS
<1> USE DEF Init, StoreInit, WorkerInit, WebInit
<1>1. ASSUME NEW w \in Worker PROVE Recorded(w)
  BY DEF Recorded
<1>2. ASSUME NEW i \in Id PROVE Len(events[i]) = 0 /\ request[i] = "idle"
  OBVIOUS
<1>3. ASSUME NEW i \in Id PROVE Story(i) /\ CleanedUp(i)
  BY <1>2 DEF Story, Said, CleanedUp
<1>4. EventOrder /\ FailedLaunchReleased
  BY <1>2 DEF EventOrder, FailedLaunchReleased
<1> QED BY <1>1, <1>3, <1>4 DEF StoryInv

(* What sync_notifications.go publishes is true and in order, for workers  *)
(* started any number of times: complete is announced by the one worker    *)
(* that claimed the reservation, whose rsync succeeded and whose closing   *)
(* calls left that in the record; a failed launch is announced cleaned up. *)
THEOREM AnnouncedIsTrue == Spec => []EventsAreTrue
<1>1. StoryInv => EventsAreTrue
  <2> SUFFICES ASSUME StoryInv PROVE CompleteIsTrue
    BY DEF EventsAreTrue, StoryInv
  <2> SUFFICES ASSUME NEW i \in Id, NEW k \in 1..Len(events[i]), events[i][k] = "complete"
               PROVE  \E w \in Worker :
                        /\ job[w] = i
                        /\ rsync[w] = "ok"
                        /\ Present(i) => /\ records[i].state = "completed"
                                         /\ records[i].progress = seen[w]
    BY DEF CompleteIsTrue
  <2>1. Said(i, {"complete"})
    BY DEF Said
  <2> QED BY <2>1 DEF StoryInv, Story
<1> QED BY <1>1, StoryInvInit, StoryInvStep, SystemInvariant, PTL DEF Spec

-----------------------------------------------------------------------------
(* A reservation that no worker with it will ever run rsync for.           *)
Doomed(i) ==
  /\ request[i] # "idle"
  /\ Present(i) /\ records[i].state = "queued" => records[i].stop
  /\ \A w \in Worker : job[w] = i =>
       /\ rsync[w] = "none"
       /\ HasClaimed(w) => cancelled[w] /\ main[w] \notin {"start", "wait"}

(* A stop request that finds the reservation queued comes before any       *)
(* claim.                                                                  *)
LEMMA StopDooms ==
  ASSUME SystemInv, NEW i \in Id, Live(i), records[i].state = "queued", records[i].stop
  PROVE  Doomed(i)
<1> USE DEF SystemInv
<1>1. request[i] # "idle"
  BY DEF Live, Present, Provenance
<1>2. ASSUME NEW w \in Worker, job[w] = i PROVE ~HasClaimed(w) /\ rsync[w] = "none"
  BY <1>2 DEF ClaimIsFinal, Live, Control
<1> QED BY <1>1, <1>2 DEF Doomed

(* A worker that claims a stopped reservation is cancelled by its reply.   *)
LEMMA DoomedStays ==
  ASSUME SystemInv, [Next]_vars, NEW i \in Id, Doomed(i)
  PROVE  Doomed(i)'
<1>1. request[i] # "idle" /\ request'[i] # "idle"
  <2>1. WebTypeOK
    BY DEF SystemInv, SystemTypeOK
  <2>2. ASSUME NEW j \in Id, WebStep(j) PROVE request'[i] \in {request[i]} \cup (Request \ {"idle"})
    BY <2>1, <2>2 DEF WebStep, StartReserve, CleanupLaunch, RemoveReserve, HeartbeatTicks,
       HeartbeatReplies, HeartbeatFails, HeartbeatEnds, RemoveAllReturns, RemoveJoin,
       RemoveFinish, WebCrash, ReserveReplies, ReserveFails, Answer, WebTypeOK, Request
  <2>3. ASSUME NEW j \in Id,
               Launch(j) \/ LaunchFails(j) \/ NotifyLaunchError(j) \/ \E w \in Worker : Relaunch(w, j)
        PROVE  request'[i] \in {request[i]} \cup (Request \ {"idle"})
    BY <2>1, <2>3
       DEF Launch, LaunchFails, NotifyLaunchError, Relaunch, webVars, Answer, WebTypeOK,
       Request
  <2>4. UNCHANGED webVars => request'[i] = request[i]
    BY DEF webVars
  <2> QED BY <2>2, <2>3, <2>4
             DEF Doomed, Next, CancelSync, ListSyncs, Second, WebSecond, vars
<1>2. Present(i)' /\ records'[i].state = "queued" => records'[i].stop
  BY <1>1, LaunchedRecord DEF Doomed
<1>3. ASSUME NEW w \in Worker, job'[w] = i
      PROVE  /\ rsync'[w] = "none"
             /\ HasClaimed(w)' => cancelled'[w] /\ main'[w] \notin {"start", "wait"}
  <2>1. WorkerTypeOK /\ SystemTypeOK /\ Control(w)
    BY DEF SystemInv, SystemTypeOK
  <2>2. CASE Still(w)
    BY <1>3, <2>2 DEF Still, Doomed, HasClaimed
  <2>3. CASE WorkerStep(w)
    <3>1. job[w] = i
      BY <1>3, <2>1, <2>3, WorkerFrame
    <3>2. /\ rsync[w] = "none"
          /\ HasClaimed(w) => cancelled[w] /\ main[w] \notin {"start", "wait"}
      BY <3>1 DEF Doomed
    <3>3. CASE ~HasClaimed(w) /\ ~ClaimSucceeds(w)
      <4>1. ~HasClaimed(w)'
        BY <2>1, <2>3, <3>3, UnclaimedStep
      <4>2. rsync'[w] = rsync[w]
        BY <2>1, <2>3, <3>2, <3>3
           DEF WorkerStep, Control, HasClaimed, MonitorSeesCancel, MonitorTicks,
           MonitorReported, MonitorFails, ContextIsDone, NotifyStart, CallStartSync, StartRsync,
           RsyncReports, RsyncExits, StartSyncReturns, CancelMonitor, JoinMonitor, FinalProgress,
           FinishRecord, NotifyEnd, Goto, ClaimFails, Sigterm, Crash, proc
      <4> QED BY <3>2, <4>1, <4>2
    <3>4. CASE ClaimSucceeds(w)
      <4>1. Live(i) /\ records[i].state = "queued"
        BY <3>1, <3>4 DEF ClaimSucceeds, CallReplies, Update, Accepts, Claim
      <4>2. StopSeen(w)
        BY <3>1, <4>1 DEF StopSeen, Doomed, Live
      <4>3. cancelled'[w] /\ main'[w] = "check" /\ rsync'[w] = rsync[w]
        BY <2>1, <3>4, <4>2 DEF ClaimSucceeds, Goto, proc, WorkerTypeOK
      <4> QED BY <3>2, <4>3
    <3>5. CASE HasClaimed(w)
      <4>1. cancelled[w] /\ main[w] \notin {"start", "wait"} /\ rsync[w] = "none"
        BY <3>2, <3>5
      <4> QED BY <2>1, <2>3, <3>5, <4>1
                 DEF WorkerStep, Control, HasClaimed, ClaimSucceeds, ClaimFails,
         MonitorSeesCancel, MonitorTicks, MonitorReported, MonitorFails, ContextIsDone, NotifyStart,
         CallStartSync, StartRsync, RsyncReports, RsyncExits, StartSyncReturns, CancelMonitor,
         JoinMonitor, FinalProgress, FinishRecord, NotifyEnd, Sigterm, Crash, Goto, CancelContext,
         proc, WorkerTypeOK
    <3> QED BY <3>3, <3>4, <3>5
  <2> QED BY <2>2, <2>3, OthersAreStill
<1> QED BY <1>1, <1>2, <1>3 DEF Doomed

(* A stop request that comes before the claim keeps rsync from ever being  *)
(* started for the reservation, whenever workers are launched for it.      *)
THEOREM EarlyStopPreventsRsync == Spec => StoppedBeforeClaim
<1>1. ASSUME NEW i \in Id
      PROVE  Spec => [](Live(i) /\ records[i].state = "queued" /\ records[i].stop
                          => [](\A w \in Worker : job[w] = i => rsync[w] = "none"))
  <2>1. SystemInv /\ Live(i) /\ records[i].state = "queued" /\ records[i].stop => Doomed(i)
    BY StopDooms
  <2>2. SystemInv /\ [Next]_vars /\ Doomed(i) => Doomed(i)'
    BY DoomedStays
  <2>3. Doomed(i) => \A w \in Worker : job[w] = i => rsync[w] = "none"
    BY DEF Doomed
  <2> QED BY <2>1, <2>2, <2>3, SystemInvariant, PTL DEF Spec
<1> QED BY <1>1 DEF StoppedBeforeClaim
=============================================================================
