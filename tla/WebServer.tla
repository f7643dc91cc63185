------------------------------ MODULE WebServer ------------------------------
(***************************************************************************)
(* The request handlers of main.go that touch the store: StartSync,        *)
(* CancelSync, ListSyncs and Remove with removeWithRedis.  Every StartSync *)
(* and Remove makes a fresh uuid, so a request is named by the reservation *)
(* it makes.  Replicas share nothing but the store, so any number of       *)
(* requests may be under way at once, on any of them.                      *)
(***************************************************************************)
EXTENDS RedisClient

CONSTANTS HeartbeatPoll,    \* 1 s: the ticker of a removal
          HeartbeatTimeout  \* the longest a heartbeat call takes

VARIABLES
  request,      \* request[i]: where the handler is, or how it answered
  heartbeat,    \* heartbeat[i]: the removal's goroutine, or what it sent
  hbDue,        \* hbDue[i]: its deadline
  target,       \* target[i]: the directory being removed
  deleted       \* deleted[i]: RemoveAll reported no error

ASSUME WebAssumption ==
  /\ {HeartbeatPoll, HeartbeatTimeout} \subseteq Nat
  /\ HeartbeatPoll + HeartbeatTimeout + HeartbeatTimeout < LeaseTTL
  /\ HeartbeatPoll + HeartbeatTimeout + HeartbeatTimeout < QueuedTTL

Request == {"idle", "launch", "launched", "cleanup", "notify", "launchError",
            "deleting", "join", "finish", "removed", "removeError",
            "conflict", "error", "dead"}

removal == <<heartbeat, hbDue, target, deleted>>
webVars == <<request, removal>>

WebTypeOK ==
  /\ request \in [Id -> Request]
  /\ heartbeat \in [Id -> {"off", "select", "update", "nil", "err", "dead"}]
  /\ hbDue \in [Id -> Nat]
  /\ target \in [Id -> Path \cup {NoRecord}]
  /\ deleted \in [Id -> BOOLEAN]

WebInit ==
  /\ request = [i \in Id |-> "idle"]
  /\ heartbeat = [i \in Id |-> "off"]
  /\ hbDue = [i \in Id |-> 0]
  /\ target = [i \in Id |-> NoRecord]
  /\ deleted = [i \in Id |-> FALSE]

Answer(i, to) == request' = [request EXCEPT ![i] = to]

-----------------------------------------------------------------------------
(* reserve, for StartSync and Remove alike.  When its reply is lost the    *)
(* reservation exists, and the repeated script, which tries the same uuid, *)
(* finds it in its own way: the client sees a conflict or an error.        *)

(* Mutant: a failed request is tried again under the same uuid.            *)
FreshMutant(i) == request[i] \in {"idle", "error"}

(* reserve makes its own uuid.                                             *)
Fresh(i) == request[i] = "idle"

ReserveFails(i, p, s) ==
  /\ Fresh(i)
  /\ \/ ReserveRefused(p) /\ UNCHANGED faults /\ Answer(i, "conflict")
     \/ Fault("unreachable") /\ UNCHANGED records /\ Answer(i, "error")
     \/ /\ Fault("lost")
        /\ ReserveGranted(i, p, s)
        /\ Answer(i, "conflict") \/ Answer(i, "error")
  /\ UNCHANGED removal

ReserveReplies(i, p, s) ==
  /\ Fresh(i)
  /\ ReserveGranted(i, p, s)
  /\ UNCHANGED faults

StartReserve(i, p) ==
  \/ ReserveReplies(i, p, "queued") /\ Answer(i, "launch") /\ UNCHANGED removal
  \/ ReserveFails(i, p, "queued")

(* Mutant: the reservation of a failed launch is left to expire.           *)
CleanupLaunchMutant(i) ==
  /\ request[i] = "cleanup"
  /\ Answer(i, "notify")
  /\ UNCHANGED <<records, faults, removal>>

(* A failed launch may have started a worker: an unclaimed reservation is  *)
(* failed, a claimed one is asked to stop.  The handler goes on whether or *)
(* not this call succeeds.                                                 *)
CleanupLaunch(i) ==
  /\ request[i] = "cleanup"
  /\ CallReplies(i, LaunchFailed) \/ CallFails(i, LaunchFailed, FALSE)
  /\ Answer(i, "notify")
  /\ UNCHANGED removal

-----------------------------------------------------------------------------
(* Remove: a reservation in state removing, kept alive by a goroutine that *)
(* ends for good when a heartbeat fails.                                   *)

RemoveReserve(i, p) ==
  \/ /\ ReserveReplies(i, p, "removing")
     /\ Answer(i, "deleting")
     /\ heartbeat' = [heartbeat EXCEPT ![i] = "select"]
     /\ hbDue' = [hbDue EXCEPT ![i] = HeartbeatPoll + HeartbeatTimeout]
     /\ target' = [target EXCEPT ![i] = p]
     /\ UNCHANGED deleted
  \/ ReserveFails(i, p, "removing")

HeartbeatTicks(i) ==
  /\ heartbeat[i] = "select"
  /\ heartbeat' = [heartbeat EXCEPT ![i] = "update"]
  /\ hbDue' = [hbDue EXCEPT ![i] = HeartbeatTimeout]
  /\ UNCHANGED <<records, faults, request, target, deleted>>

HeartbeatReplies(i) ==
  /\ heartbeat[i] = "update"
  /\ CallReplies(i, Heartbeat)
  /\ heartbeat' = [heartbeat EXCEPT ![i] = "select"]
  /\ hbDue' = [hbDue EXCEPT ![i] = @ + HeartbeatPoll]
  /\ UNCHANGED <<request, target, deleted>>

(* Mutant: the goroutine returns without sending.                          *)
HeartbeatReturnsMutant(i, v) ==
  /\ heartbeat' = [heartbeat EXCEPT ![i] = "off"]
  /\ hbDue' = [hbDue EXCEPT ![i] = 0]

(* The goroutine sends v on heartbeat and returns.                         *)
HeartbeatReturns(i, v) ==
  /\ heartbeat' = [heartbeat EXCEPT ![i] = v]
  /\ hbDue' = [hbDue EXCEPT ![i] = 0]

HeartbeatFails(i) ==
  /\ heartbeat[i] = "update"
  /\ CallFails(i, Heartbeat, FALSE)
  /\ HeartbeatReturns(i, "err")
  /\ UNCHANGED <<request, target, deleted>>

HeartbeatEnds(i) ==
  /\ heartbeat[i] = "select"
  /\ request[i] = "join"
  /\ HeartbeatReturns(i, "nil")
  /\ UNCHANGED <<records, faults, request, target, deleted>>

(* RemoveAll returns, and closing done ends the goroutine.                 *)
RemoveAllReturns(i, ok) ==
  /\ request[i] = "deleting"
  /\ Answer(i, "join")
  /\ deleted' = [deleted EXCEPT ![i] = ok]
  /\ UNCHANGED <<records, faults, heartbeat, hbDue, target>>

RemoveJoin(i) ==
  /\ request[i] = "join"
  /\ heartbeat[i] \in {"nil", "err"}
  /\ Answer(i, "finish")
  /\ UNCHANGED <<records, faults, removal>>

(* The removal is answered with 200 only if RemoveAll, every heartbeat and *)
(* this call succeeded.                                                    *)
RemoveFinish(i) ==
  LET o == Finish(IF deleted[i] THEN "completed" ELSE "failed")
  IN  /\ request[i] = "finish"
      /\ \/ /\ CallReplies(i, o)
            /\ Answer(i, IF deleted[i] /\ heartbeat[i] = "nil"
                         THEN "removed" ELSE "removeError")
         \/ CallFails(i, o, FALSE) /\ Answer(i, "removeError")
      /\ UNCHANGED removal

-----------------------------------------------------------------------------
CancelSync(p) == Stop(p) /\ UNCHANGED <<faults, webVars>>

ListSyncs == List /\ UNCHANGED <<faults, webVars>>

(* The web process dies with its request; workers go on.                   *)
WebCrash(i) ==
  /\ Fault("crash")
  /\ request[i] \in {"launch", "cleanup", "notify", "deleting", "join",
                     "finish"}
  /\ Answer(i, "dead")
  /\ heartbeat' = [heartbeat EXCEPT ![i] = IF @ = "off" THEN "off" ELSE "dead"]
  /\ hbDue' = [hbDue EXCEPT ![i] = 0]
  /\ UNCHANGED <<records, target, deleted>>

WebStep(i) ==
  \/ \E p \in Path : StartReserve(i, p)
  \/ CleanupLaunch(i)
  \/ \E p \in Path : RemoveReserve(i, p)
  \/ HeartbeatTicks(i) \/ HeartbeatReplies(i) \/ HeartbeatFails(i)
  \/ HeartbeatEnds(i)
  \/ \E ok \in BOOLEAN : RemoveAllReturns(i, ok)
  \/ RemoveJoin(i) \/ RemoveFinish(i)
  \/ WebCrash(i)

(* Heartbeats keep their deadlines too.                                    *)
Beating(i) == heartbeat[i] \in {"select", "update"}

WebSecond ==
  /\ \A i \in Id : Beating(i) => hbDue[i] > 0
  /\ hbDue' = [i \in Id |-> IF Beating(i) THEN hbDue[i] - 1 ELSE hbDue[i]]
  /\ UNCHANGED <<request, heartbeat, target, deleted>>
=============================================================================
