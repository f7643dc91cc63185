------------------------------ MODULE SyncStore ------------------------------
(***************************************************************************)
(* The reservation store of sync_store.go: one Redis hash of records, and  *)
(* the Lua scripts that read and write it.  Redis runs a script atomically *)
(* so each script is one action.                                           *)
(*                                                                         *)
(* Time is kept relative: where a record of the code holds the absolute    *)
(* second "expires", a record here holds ttl, the seconds left until then  *)
(* (0 once expires <= now), and Tick is one second passing.  The scripts   *)
(* only ever compare expires with now, or set it to now plus a constant.   *)
(*                                                                         *)
(* A path is the sequence of the segments of a cleaned absolute path, the  *)
(* root being the empty sequence.  Error texts, speed, downloaded and      *)
(* time_left follow progress and state and are left out.                   *)
(***************************************************************************)
EXTENDS Naturals, SequencesExt

CONSTANTS
  Id,           \* the uuids reservations are made under
  Segment,      \* directory names
  Path,         \* the cleaned absolute paths in use
  NoRecord,     \* the absence of a hash field
  QueuedTTL,    \* 600: a reservation that nobody has claimed or renewed
  LeaseTTL,     \* 120: an active record after an update
  RetainTTL,    \* 86400: a finished record
  MaxProgress   \* the largest progress rsync reports

VARIABLE records    \* the Redis hash: records[i] is the record of field i

ActiveState == {"queued", "running", "removing"}
FinalState  == {"completed", "failed", "cancelled"}

Record == [path : Path, state : ActiveState \cup FinalState, stop : BOOLEAN,
           ttl : Nat, progress : 0..MaxProgress]

ASSUME StoreAssumption ==
  /\ Path \subseteq Seq(Segment)
  /\ NoRecord \notin Record \cup Path
  /\ {QueuedTTL, LeaseTTL, RetainTTL} \subseteq Nat \ {0}
  /\ MaxProgress \in Nat

StoreTypeOK == records \in [Id -> Record \cup {NoRecord}]

StoreInit == records = [i \in Id |-> NoRecord]

-----------------------------------------------------------------------------
(* activeLua, the prelude the scripts share.                               *)

Root == << >>

active(r) == r.state \in ActiveState

(* Mutant: the reserved directory is not looked for below the stored one.  *)
overlapMutant(a, b) == a = b \/ a = Root \/ b = Root \/ IsStrictPrefix(b, a)

overlap(a, b) ==
  \/ a = b
  \/ a = Root
  \/ b = Root
  \/ IsStrictPrefix(b, a)
  \/ IsStrictPrefix(a, b)

Present(i) == records[i] # NoRecord

Expired == {i \in Id : Present(i) /\ records[i].ttl = 0}

(* A reservation that still excludes others.                               *)
Live(i) == Present(i) /\ active(records[i]) /\ records[i].ttl > 0

Without(D) == [i \in Id |-> IF i \in D THEN NoRecord ELSE records[i]]

-----------------------------------------------------------------------------
(* reserveScript.  The script walks the hash in an order Redis chooses,    *)
(* dropping expired records on its way, and returns 0 at the first         *)
(* conflict: a refusal may have dropped any part of the expired records.   *)

(* Mutant: a removal under way does not conflict.                          *)
ConflictsMutant(p) ==
  {i \in Id : /\ Live(i)
              /\ records[i].state # "removing"
              /\ overlap(records[i].path, p)}

Conflicts(p) == {i \in Id : Live(i) /\ overlap(records[i].path, p)}

NewRecord(p, s) ==
  [path |-> p, state |-> s, stop |-> FALSE, ttl |-> QueuedTTL, progress |-> 0]

ReserveGranted(i, p, s) ==
  /\ Conflicts(p) = {}
  /\ records' = [Without(Expired) EXCEPT ![i] = NewRecord(p, s)]

ReserveRefused(p) ==
  /\ Conflicts(p) # {}
  /\ \E D \in SUBSET Expired : records' = Without(D)

-----------------------------------------------------------------------------
(* updateScript.  An operation is a record with its name and argument.     *)

Claim         == [op |-> "claim"]
LaunchFailed  == [op |-> "launch_failed"]
Heartbeat     == [op |-> "heartbeat"]
Progress(n)   == [op |-> "progress", progress |-> n]
Finish(s)     == [op |-> "finish", state |-> s]

Operation ==
  {Claim, LaunchFailed, Heartbeat}
    \cup {Progress(n) : n \in 0..MaxProgress} \cup {Finish(s) : s \in FinalState}

(* Mutants: the lease is not looked at; a claim does not ask for queued.   *)
AcceptsExpiredMutant(i, o) ==
  /\ Present(i) /\ active(records[i])
  /\ o.op = "claim" => records[i].state = "queued"

AcceptsClaimedMutant(i, o) == Live(i)

(* The script replies with an error instead: missing, expired or inactive, *)
(* already claimed.                                                        *)
Accepts(i, o) ==
  /\ Live(i)
  /\ o.op = "claim" => records[i].state = "queued"

(* Mutant: a failed launch is given a state of its own.                    *)
FailedLaunchMutant(r) == [r EXCEPT !.state = "launch_failed"]

(* launch_failed may meet a worker that was started all the same.          *)
FailedLaunch(r) ==
  IF r.state = "queued" THEN [r EXCEPT !.state = "failed"]
  ELSE [r EXCEPT !.stop = TRUE]

Applied(r, o) ==
  CASE o.op = "claim"         -> [r EXCEPT !.state = "running"]
    [] o.op = "launch_failed" -> FailedLaunch(r)
    [] o.op = "finish"        -> [r EXCEPT !.state = o.state]
    [] o.op = "progress"      -> [r EXCEPT !.progress = o.progress]
    [] OTHER                  -> r

(* Mutants: the record is written back without its stop flag; the lease of *)
(* a removal is not renewed.                                               *)
RenewedStopMutant(r) ==
  [r EXCEPT !.ttl = IF active(r) THEN LeaseTTL ELSE RetainTTL, !.stop = FALSE]

RenewedRemovalMutant(r) ==
  [r EXCEPT !.ttl = CASE r.state = "removing" -> @
                      [] r.state \in FinalState -> RetainTTL
                      [] OTHER -> LeaseTTL]

Renewed(r) == [r EXCEPT !.ttl = IF active(r) THEN LeaseTTL ELSE RetainTTL]

Update(i, o) ==
  /\ Accepts(i, o)
  /\ records' = [records EXCEPT ![i] = Renewed(Applied(@, o))]

-----------------------------------------------------------------------------
(* listScript drops every expired record.                                  *)
List == records' = Without(Expired)

(* stopScript marks the queued or running reservations of exactly p.       *)
Stoppable(p) ==
  {i \in Id : Live(i) /\ records[i].path = p
                      /\ records[i].state \in {"queued", "running"}}

(* Mutant: a stop request renews the lease.                                *)
StopMutant(p) ==
  records' = [i \in Id |-> IF i \in Stoppable(p)
                           THEN [records[i] EXCEPT !.stop = TRUE, !.ttl = LeaseTTL]
                           ELSE records[i]]

Stop(p) ==
  records' = [i \in Id |-> IF i \in Stoppable(p)
                           THEN [records[i] EXCEPT !.stop = TRUE]
                           ELSE records[i]]

(* One second passes on the Redis server.                                  *)
Aged(r) == [r EXCEPT !.ttl = IF @ = 0 THEN 0 ELSE @ - 1]

Tick == records' = [i \in Id |-> IF Present(i) THEN Aged(records[i])
                                 ELSE NoRecord]

-----------------------------------------------------------------------------
(* Any client may run any script at any time.  Fresh uuids are the only    *)
(* thing a reservation can count on.                                       *)

ReserveFresh(i, p, s) == records[i] = NoRecord /\ ReserveGranted(i, p, s)

StoreNext ==
  \/ \E i \in Id, p \in Path, s \in {"queued", "removing"} : ReserveFresh(i, p, s)
  \/ \E p \in Path : ReserveRefused(p)
  \/ \E i \in Id, o \in Operation : Update(i, o)
  \/ List
  \/ \E p \in Path : Stop(p)
  \/ Tick

StoreSpec == StoreInit /\ [][StoreNext]_records

-----------------------------------------------------------------------------
(* "All reservations share one hash so overlapping paths are checked       *)
(* atomically" (sync_store.go): whatever the clients call, and however     *)
(* leases run out in between, no two live reservations overlap.            *)
ExclusiveLeases ==
  \A i, j \in Id :
    i # j /\ Live(i) /\ Live(j) => ~overlap(records[i].path, records[j].path)

(* A lease that has run out, or a sync that has finished, is never brought *)
(* back: late heartbeats, claims and finishes of an old owner are refused, *)
(* so the record stays dead until it is dropped from the hash.             *)
NeverRevived ==
  [][\A i \in Id : Present(i) /\ ~Live(i) => ~Live(i)']_records

(* A stop request is durable: from the moment stopScript or launch_failed  *)
(* sets it, no claim, heartbeat or progress report of the worker loses it. *)
StopDurable ==
  [][\A i \in Id : Present(i) /\ records[i].stop /\ records'[i] # NoRecord
                     => records'[i].stop]_records

(* The store implements the abstract lease service: a live reservation     *)
(* leases its path, and the scripts grant no lease that overlaps another,  *)
(* move none and end some.                                                 *)
Holding == [i \in Id |-> IF Live(i) THEN records[i].path ELSE NoRecord]

Overlapping == {pq \in Path \X Path : overlap(pq[1], pq[2])}

Leases == INSTANCE PathLease
  WITH Free <- NoRecord, Overlap <- Overlapping, held <- Holding

ImplementsLeases == Leases!LeaseSpec
=============================================================================
