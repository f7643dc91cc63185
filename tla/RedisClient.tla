----------------------------- MODULE RedisClient -----------------------------
(***************************************************************************)
(* A call of the store as its clients see it.  The Go code runs a script   *)
(* through the go-redis library, which is not part of the repository: this *)
(* module is its contract as sync_store.go uses it.  A call returns the    *)
(* script's reply, or an error.  An error may be the script's own refusal, *)
(* or a failure to reach the server (the script did not run), or a lost    *)
(* reply (it did run; the library may have sent it again, and the repeated *)
(* script was refused).  A call whose context is cancelled may fail in the *)
(* last two ways at any time; otherwise they are faults, and a run allows  *)
(* MaxFaults of the kinds in FaultKind.                                    *)
(***************************************************************************)
EXTENDS SyncStore

CONSTANTS FaultKind, MaxFaults

VARIABLE faults     \* how many faults have happened

ASSUME FaultAssumption ==
  /\ FaultKind \subseteq {"unreachable", "lost", "launch", "duplicate",
                          "sigterm", "crash"}
  /\ MaxFaults \in Nat

Fault(k) == k \in FaultKind /\ faults < MaxFaults /\ faults' = faults + 1

(* The reply of a failed call is missing: by a fault of kind k, or because *)
(* the caller's context was cancelled.                                     *)
NoReply(k, ctxDone) == Fault(k) \/ (ctxDone /\ UNCHANGED faults)

(* update: the script ran and its reply arrived.                           *)
CallReplies(i, o) == Update(i, o) /\ UNCHANGED faults

(* update: the caller gets an error.                                       *)
CallFails(i, o, ctxDone) ==
  \/ ~Accepts(i, o) /\ UNCHANGED <<records, faults>>
  \/ NoReply("unreachable", ctxDone) /\ UNCHANGED records
  \/ NoReply("lost", ctxDone) /\ Update(i, o)
=============================================================================
