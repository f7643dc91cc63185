------------------------------- MODULE Dashboard -------------------------------
(***************************************************************************)
(* The dashboard component of frontend/app.go.  Requests run in goroutines *)
(* (ctx.Async) and overlap; what they bring is handled one at a time by    *)
(* the UI goroutine (ctx.Dispatch).  The lists the server sends are        *)
(* abstracted to the version of its state they were read from.             *)
(***************************************************************************)
EXTENDS Naturals, Bags, SequencesExt

CONSTANTS MaxErrors,    \* 4: messages kept
          MaxVersion,   \* bound on changes of the server's state
          MaxClicks,    \* bound on requests of the user
          MaxFaults,    \* bound on requests that fail while mounted
          Status,       \* HTTP statuses the server answers with
          Body,         \* "garbled" (not JSON), "error" (JSON) or "data"
          Count(_)      \* the number of syncs in a version

ASSUME DashboardAssumption ==
  /\ {MaxErrors, MaxVersion} \subseteq Nat \ {0}
  /\ {MaxClicks, MaxFaults} \subseteq Nat
  /\ \A v \in 0..MaxVersion : Count(v) \in Nat
  /\ Count(0) = 0
  /\ Status \subseteq Nat /\ 200 \in Status
  /\ Body \subseteq {"garbled", "error", "data"} /\ "data" \in Body

VARIABLES
  server,       \* version of the server's state; 0 stands for nothing loaded
  faults,       \* requests that have failed
  clicks,       \* requests the user has made
  work,         \* the requests under way, a bag: equal ones may run together
  active,       \* mounted: the request context is not cancelled
  poll,         \* a poll is scheduled
  syncRefreshInFlight,
  syncRefreshDirsPending,
  dirsLoadComplete,
  syncs, dirs,  \* the versions shown
  errors        \* the messages shown

vars == <<server, faults, clicks, work, active, poll, syncRefreshInFlight,
          syncRefreshDirsPending, dirsLoadComplete, syncs, dirs, errors>>

(* fetchSyncs is "poll" when refreshDirsOnCountChange is set, else "syncs";*)
(* a post is followed by refreshAll or by refreshSyncs.                    *)
Kind == {"user", "dirs", "syncs", "poll", "postAll", "postSyncs"}

Message == {"transport", "decode", "failed"}

Work == [kind : Kind,
         result : {"waiting", "ok", "auth"} \cup Message,
         version : 0..MaxVersion]

Asked(kind) == [kind |-> kind, result |-> "waiting", version |-> 0]

(* ctx.Async: b with one more goroutine, and b without the goroutine w.    *)
Async(b, kind) == b (+) SetToBag({Asked(kind)})
Rest(w) == work (-) SetToBag({w})

DashboardTypeOK ==
  /\ server \in 0..MaxVersion
  /\ faults \in 0..MaxFaults
  /\ clicks \in 0..MaxClicks
  /\ BagToSet(work) \subseteq Work /\ IsABag(work)
  /\ {active, poll, syncRefreshInFlight, syncRefreshDirsPending,
      dirsLoadComplete} \subseteq BOOLEAN
  /\ {syncs, dirs} \subseteq 0..MaxVersion
  /\ errors \in Seq(Message) /\ Len(errors) <= MaxErrors

-----------------------------------------------------------------------------
(* OnMount: refreshAll and schedulePoll.                                   *)
Init ==
  /\ server = 1
  /\ faults = 0 /\ clicks = 0
  /\ work = SetToBag({Asked("user"), Asked("dirs"), Asked("syncs")})
  /\ active = TRUE
  /\ poll = TRUE
  /\ syncRefreshInFlight = TRUE
  /\ syncRefreshDirsPending = FALSE
  /\ dirsLoadComplete = FALSE
  /\ syncs = 0 /\ dirs = 0
  /\ errors = <<>>

(* OnDismount cancels the request context.                                 *)
OnDismount ==
  /\ active
  /\ active' = FALSE
  /\ UNCHANGED <<server, faults, clicks, work, poll, syncRefreshInFlight,
                 syncRefreshDirsPending, dirsLoadComplete, syncs, dirs, errors>>

-----------------------------------------------------------------------------
(* refreshSyncs and refreshAll; b is what else is running.                 *)

(* Mutant: a refresh is started whether or not one is running.             *)
SyncsBusyMutant == FALSE

SyncsBusy == syncRefreshInFlight

refreshSyncs(b, refreshDirsOnCountChange) ==
  \/ /\ SyncsBusy
     /\ syncRefreshDirsPending' =
          (syncRefreshDirsPending \/ refreshDirsOnCountChange)
     /\ work' = b
     /\ UNCHANGED syncRefreshInFlight
  \/ /\ ~SyncsBusy
     /\ syncRefreshInFlight' = TRUE
     /\ work' = Async(b, IF refreshDirsOnCountChange THEN "poll" ELSE "syncs")
     /\ UNCHANGED syncRefreshDirsPending

refreshAll(b) == refreshSyncs(Async(Async(b, "user"), "dirs"), FALSE)

(* Mutant: the list is not cut.                                            *)
pushErrorMutant(message) ==
  IF errors # <<>> /\ Last(errors) = message THEN errors ELSE Append(errors, message)

pushError(message) ==
  LET pushed == Append(errors, message)
  IN  CASE errors # <<>> /\ Last(errors) = message -> errors
        [] OTHER -> SubSeq(pushed,
                           IF Len(pushed) > MaxErrors
                           THEN Len(pushed) - MaxErrors + 1 ELSE 1,
                           Len(pushed))

(* A request that was refused for want of a login leaves the page; the     *)
(* component itself carries on until the browser has gone.                 *)
handleError(w) ==
  errors' = IF w.result = "auth" THEN errors ELSE pushError(w.result)

dismissError(i) ==
  /\ active /\ i \in DOMAIN errors
  /\ errors' = RemoveAt(errors, i)
  /\ UNCHANGED <<server, faults, clicks, work, active, poll, syncRefreshInFlight,
                 syncRefreshDirsPending, dirsLoadComplete, syncs, dirs>>

-----------------------------------------------------------------------------
(* handleSync and handleRemove ("postAll"), handleCancel ("postSyncs").    *)
Click(kind) ==
  /\ active
  /\ clicks < MaxClicks
  /\ clicks' = clicks + 1
  /\ work' = Async(work, kind)
  /\ UNCHANGED <<server, faults, active, poll, syncRefreshInFlight,
                 syncRefreshDirsPending, dirsLoadComplete, syncs, dirs, errors>>

(* Mutant: the callback does not look at active.                           *)
StillPollingMutant == TRUE

StillPolling == active

(* The callback of schedulePoll, which schedules the next one.             *)
Poll ==
  /\ poll
  /\ \/ /\ StillPolling
        /\ refreshSyncs(work, TRUE)
        /\ UNCHANGED poll
     \/ /\ ~StillPolling
        /\ poll' = FALSE
        /\ UNCHANGED <<work, syncRefreshInFlight, syncRefreshDirsPending>>
  /\ UNCHANGED <<server, faults, clicks, active, dirsLoadComplete, syncs, dirs,
                 errors>>

-----------------------------------------------------------------------------
(* The server and the network.                                             *)

ServerChanges ==
  /\ server < MaxVersion
  /\ server' = server + 1
  /\ UNCHANGED <<faults, clicks, work, active, poll, syncRefreshInFlight,
                 syncRefreshDirsPending, dirsLoadComplete, syncs, dirs, errors>>

(* The body is decoded before the status is looked at.                     *)
decodeResponse(status, body) ==
  CASE body = "garbled" -> "decode"
    [] body # "garbled" /\ status = 401 -> "auth"
    [] body # "garbled" /\ status # 401 /\ (status # 200 \/ body = "error") -> "failed"
    [] OTHER -> "ok"

Finished(w, result) ==
  LET version == IF result = "ok" /\ w.kind \in {"dirs", "syncs", "poll"}
                 THEN server ELSE 0
  IN  work' = Rest(w) (+) SetToBag({[kind |-> w.kind, result |-> result,
                                     version |-> version]})

(* The server answers from the state it is in.                             *)
Answer(w, status, body) ==
  LET result == decodeResponse(status, body)
  IN  /\ w.result = "waiting"
      /\ active
      /\ result # "ok" => faults < MaxFaults
      /\ faults' = IF result = "ok" THEN faults ELSE faults + 1
      /\ Finished(w, result)
      /\ UNCHANGED <<server, clicks, active, poll, syncRefreshInFlight,
                     syncRefreshDirsPending, dirsLoadComplete, syncs, dirs, errors>>

(* The connection breaks, the client's 60 s are over, or, after            *)
(* OnDismount, the context is cancelled.                                   *)
TransportFails(w) ==
  /\ w.result = "waiting"
  /\ active => faults < MaxFaults
  /\ faults' = IF active THEN faults + 1 ELSE faults
  /\ Finished(w, "transport")
  /\ UNCHANGED <<server, clicks, active, poll, syncRefreshInFlight,
                 syncRefreshDirsPending, dirsLoadComplete, syncs, dirs, errors>>

-----------------------------------------------------------------------------
(* The dispatched handlers.                                                *)

Arrived(w, kinds) == w.result # "waiting" /\ w.kind \in kinds

ShowUser(w) ==
  /\ Arrived(w, {"user"})
  /\ work' = Rest(w)
  /\ IF w.result = "ok" THEN UNCHANGED errors ELSE handleError(w)
  /\ UNCHANGED <<server, faults, clicks, active, poll, syncRefreshInFlight,
                 syncRefreshDirsPending, dirsLoadComplete, syncs, dirs>>

(* Mutant: a failed load is not a completed one.                           *)
LoadCompleteMutant(w) == dirsLoadComplete \/ w.result = "ok"

LoadComplete(w) == TRUE

ShowDirs(w) ==
  /\ Arrived(w, {"dirs"})
  /\ work' = Rest(w)
  /\ dirsLoadComplete' = LoadComplete(w)
  /\ \/ w.result = "ok" /\ dirs' = w.version /\ UNCHANGED errors
     \/ w.result # "ok" /\ handleError(w) /\ UNCHANGED dirs
  /\ UNCHANGED <<server, faults, clicks, active, poll, syncRefreshInFlight,
                 syncRefreshDirsPending, syncs>>

(* Mutant: the flag is reset when there is a result only.                  *)
FlightOverMutant(w) == w.result = "ok"

FlightOver(w) == TRUE

(* Mutant: the pending poll is forgotten.                                  *)
WantsDirsMutant(w) == w.kind = "poll"

WantsDirs(w) == w.kind = "poll" \/ syncRefreshDirsPending

ShowSyncs(w) ==
  /\ Arrived(w, {"syncs", "poll"})
  /\ syncRefreshInFlight' = ~FlightOver(w)
  /\ syncRefreshDirsPending' = FALSE
  /\ \/ /\ w.result = "ok"
        /\ syncs' = w.version
        /\ work' = IF WantsDirs(w) /\ Count(syncs) # Count(w.version)
                   THEN Async(Rest(w), "dirs") ELSE Rest(w)
        /\ UNCHANGED errors
     \/ /\ w.result # "ok"
        /\ handleError(w)
        /\ work' = Rest(w)
        /\ UNCHANGED syncs
  /\ UNCHANGED <<server, faults, clicks, active, poll, dirsLoadComplete, dirs>>

PostDone(w) ==
  /\ Arrived(w, {"postAll", "postSyncs"})
  /\ \/ /\ w.result = "ok"
        /\ IF w.kind = "postAll" THEN refreshAll(Rest(w))
                                 ELSE refreshSyncs(Rest(w), FALSE)
        /\ UNCHANGED errors
     \/ /\ w.result # "ok"
        /\ handleError(w)
        /\ work' = Rest(w)
        /\ UNCHANGED <<syncRefreshInFlight, syncRefreshDirsPending>>
  /\ UNCHANGED <<server, faults, clicks, active, poll, dirsLoadComplete, syncs,
                 dirs>>

-----------------------------------------------------------------------------
Complete(w) ==
  \/ \E status \in Status, body \in Body : Answer(w, status, body)
  \/ TransportFails(w)

Dispatch(w) == ShowUser(w) \/ ShowDirs(w) \/ ShowSyncs(w) \/ PostDone(w)

Next ==
  \/ OnDismount \/ Poll \/ ServerChanges
  \/ \E kind \in {"postAll", "postSyncs"} : Click(kind)
  \/ \E i \in 1..MaxErrors : dismissError(i)
  \/ \E w \in BagToSet(work) : Complete(w) \/ Dispatch(w)

Spec == Init /\ [][Next]_vars

(* The timer fires, a request ends within the client's timeout, and the UI *)
(* goroutine gets to what is dispatched.  Refreshes of the syncs may go on *)
(* forever and do not keep the other requests from ending.                 *)
FairSpec ==
  /\ Spec
  /\ WF_vars(Poll)
  /\ \A kinds \in {{"syncs", "poll"}, Kind \ {"syncs", "poll"}} :
       WF_vars(\E w \in BagToSet(work) :
                 w.kind \in kinds /\ (Complete(w) \/ Dispatch(w)))

-----------------------------------------------------------------------------
(* The list of syncs never goes back to an older state of the server,      *)
(* however polls, clicks and late responses fall together.                 *)
SyncsNeverRegress == syncs' >= syncs

(* "Loading" is shown only while a listing is on its way.                  *)
LoadingIsTrue ==
  ~dirsLoadComplete => \E w \in BagToSet(work) : w.kind = "dirs"

(* Whatever has failed before, a mounted dashboard comes to show the       *)
(* syncs the server has now.                                               *)
SyncsConverge ==
  server = MaxVersion ~> (syncs = MaxVersion \/ ~active)

(* When the user and the server are quiet and nothing fails any more, a    *)
(* number of syncs that differs from the one shown brings the directories  *)
(* up to date: the poll finds it, or one that joined a refresh under way.  *)
DirsFollowPoll ==
  (/\ server = MaxVersion /\ clicks = MaxClicks /\ faults = MaxFaults
   /\ Count(syncs) # Count(server)
   /\ \A w \in BagToSet(work) :
        /\ w.kind \notin {"postAll", "postSyncs"}
        /\ w.kind = "syncs" => syncRefreshDirsPending)
  ~> (dirs = MaxVersion \/ ~active)

(* After OnDismount the component comes to rest.                           *)
Quiesces == ~active ~> (~poll /\ work = EmptyBag)

(* What is shown is never older than what was shown, nor "Loading" when    *)
(* nothing loads.                                                          *)
ShownIsTrue == [][SyncsNeverRegress /\ LoadingIsTrue']_vars

(* A mounted dashboard comes to show what the server has, a dismounted one *)
(* comes to rest.                                                          *)
DashboardSettles == SyncsConverge /\ DirsFollowPoll /\ Quiesces
=============================================================================
