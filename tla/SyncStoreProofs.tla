--------------------------- MODULE SyncStoreProofs ---------------------------
(***************************************************************************)
(* What the reservation store guarantees for every set of ids and paths    *)
(* and every choice of the three time-to-live constants.  The argument     *)
(* rests on two lemmas about a step: only a granted reservation makes a    *)
(* lease (OnlyGrantsLease), and a grant is given only to a fresh id whose  *)
(* path overlaps no live reservation (GrantIsExclusive).                   *)
(***************************************************************************)
EXTENDS SyncStore, TLAPS

(* Overlap does not depend on which of the two paths was reserved first,   *)
(* although the script compares the stored path with the requested one.    *)
LEMMA OverlapSymmetric ==
  ASSUME NEW p, NEW q
  PROVE  overlap(p, q) <=> overlap(q, p)
BY DEF overlap

(* What updateScript writes back is a record of the same path, and a stop  *)
(* request in it is kept.                                                  *)
LEMMA UpdatedRecord ==
  ASSUME NEW r \in Record, NEW o \in Operation
  PROVE  /\ Renewed(Applied(r, o)) \in Record
         /\ Renewed(Applied(r, o)).path = r.path
         /\ r.stop => Renewed(Applied(r, o)).stop
<1> DEFINE Kept(t) == t \in Record /\ t.path = r.path /\ (r.stop => t.stop)
<1>1. Kept(r) /\ Kept([r EXCEPT !.stop = TRUE])
  BY DEF Record
<1>2. ASSUME NEW f \in ActiveState \cup FinalState
      PROVE  Kept([r EXCEPT !.state = f])
  BY DEF Record
<1>3. ASSUME NEW n \in 0..MaxProgress
      PROVE  Kept([r EXCEPT !.progress = n])
  BY DEF Record
<1>4. Kept(Applied(r, o))
  <2>1. CASE o = Claim
    BY <2>1, <1>2 DEF Claim, Applied, ActiveState
  <2>2. CASE o = LaunchFailed
    <3>1. CASE r.state = "queued"
      <4>1. Applied(r, o) = [r EXCEPT !.state = "failed"]
        BY <2>2, <3>1 DEF LaunchFailed, Applied, FailedLaunch
      <4> QED BY <4>1, <1>2 DEF FinalState
    <3>2. CASE r.state # "queued"
      <4>1. Applied(r, o) = [r EXCEPT !.stop = TRUE]
        BY <2>2, <3>2 DEF LaunchFailed, Applied, FailedLaunch
      <4> QED BY <4>1, <1>1
    <3> QED BY <3>1, <3>2
  <2>3. CASE o = Heartbeat
    <3>1. Applied(r, o) = r
      BY <2>3 DEF Heartbeat, Applied
    <3> QED BY <3>1, <1>1
  <2>4. ASSUME NEW n \in 0..MaxProgress, o = Progress(n)
        PROVE  Kept(Applied(r, o))
    BY <2>4, <1>3 DEF Progress, Applied
  <2>5. ASSUME NEW f \in FinalState, o = Finish(f)
        PROVE  Kept(Applied(r, o))
    BY <2>5, <1>2 DEF Finish, Applied
  <2> QED BY <2>1, <2>2, <2>3, <2>4, <2>5 DEF Operation
<1>5. ASSUME NEW t \in Record
      PROVE  /\ Renewed(t) \in Record
             /\ Renewed(t).path = t.path
             /\ Renewed(t).stop = t.stop
  BY StoreAssumption DEF Renewed, Record
<1> QED BY <1>4, <1>5

(* The store's other writes keep records well formed too.                  *)
LEMMA WrittenRecords ==
  /\ \A p \in Path, s \in {"queued", "removing"} : NewRecord(p, s) \in Record
  /\ \A r \in Record : /\ Aged(r) \in Record
                       /\ Aged(r).path = r.path
                       /\ Aged(r).state = r.state
                       /\ Aged(r).stop = r.stop
                       /\ Aged(r).ttl > 0 => r.ttl > 0
  /\ \A r \in Record : LET t == [r EXCEPT !.stop = TRUE]
                       IN  /\ t \in Record
                           /\ t.path = r.path
                           /\ t.state = r.state
                           /\ t.ttl = r.ttl
                           /\ t.stop
<1>1. \A p \in Path, s \in {"queued", "removing"} : NewRecord(p, s) \in Record
  BY StoreAssumption DEF NewRecord, Record, ActiveState
<1>2. ASSUME NEW r \in Record
      PROVE  /\ Aged(r) \in Record
             /\ Aged(r).path = r.path
             /\ Aged(r).state = r.state
             /\ Aged(r).stop = r.stop
             /\ Aged(r).ttl > 0 => r.ttl > 0
  BY DEF Aged, Record
<1>3. ASSUME NEW r \in Record
      PROVE  LET t == [r EXCEPT !.stop = TRUE]
             IN  /\ t \in Record
                 /\ t.path = r.path
                 /\ t.state = r.state
                 /\ t.ttl = r.ttl
                 /\ t.stop
  BY DEF Record
<1> QED BY <1>1, <1>2, <1>3

(* The type of the store's only variable is preserved by every script.     *)
LEMMA StoreTypeStep == StoreTypeOK /\ [StoreNext]_records => StoreTypeOK'
<1> SUFFICES ASSUME StoreTypeOK, [StoreNext]_records
             PROVE  StoreTypeOK'
  OBVIOUS
<1> USE DEF StoreTypeOK
<1>1. ASSUME NEW i \in Id, NEW p \in Path, NEW s \in {"queued", "removing"},
             ReserveFresh(i, p, s)
      PROVE  StoreTypeOK'
  BY <1>1, WrittenRecords DEF ReserveFresh, ReserveGranted, Without
<1>2. ASSUME NEW p \in Path, ReserveRefused(p)
      PROVE  StoreTypeOK'
  BY <1>2 DEF ReserveRefused, Without
<1>3. ASSUME NEW i \in Id, NEW o \in Operation, Update(i, o)
      PROVE  StoreTypeOK'
  <2>1. records[i] \in Record
    BY <1>3 DEF Update, Accepts, Live, Present
  <2> QED BY <1>3, <2>1, UpdatedRecord DEF Update
<1>4. CASE List
  BY <1>4 DEF List, Without
<1>5. ASSUME NEW p \in Path, Stop(p)
      PROVE  StoreTypeOK'
  BY <1>5, WrittenRecords DEF Stop, Stoppable, Live, Present
<1>6. CASE Tick
  BY <1>6, WrittenRecords DEF Tick, Present
<1>7. CASE UNCHANGED records
  BY <1>7
<1> QED BY <1>1, <1>2, <1>3, <1>4, <1>5, <1>6, <1>7 DEF StoreNext

(* A reservation is granted only to an id without a record, and only when  *)
(* its path overlaps none that is live; every other reservation loses at   *)
(* most an expired record.                                                 *)
LEMMA GrantIsExclusive ==
  ASSUME StoreTypeOK,
         NEW i \in Id, NEW p \in Path, NEW s \in {"queued", "removing"},
         ReserveFresh(i, p, s)
  PROVE  /\ ~Live(i) /\ ~Present(i) /\ Live(i)' /\ records'[i].path = p
         /\ ~records'[i].stop
         /\ \A j \in Id : Live(j) => ~overlap(records[j].path, p)
         /\ \A j \in Id \ {i} : /\ Live(j)' <=> Live(j)
                                /\ Live(j) => records'[j] = records[j]
                                /\ records'[j] \in {records[j], NoRecord}
<1> USE DEF StoreTypeOK, ReserveFresh, ReserveGranted
<1>1. ~Live(i) /\ ~Present(i)
  BY DEF Live, Present
<1>2. \A j \in Id : Live(j) => ~overlap(records[j].path, p)
  BY DEF Conflicts
<1>3. records'[i] = NewRecord(p, s)
  BY DEF Without
<1>4. /\ NewRecord(p, s) # NoRecord
      /\ active(NewRecord(p, s))
      /\ NewRecord(p, s).ttl > 0
      /\ NewRecord(p, s).path = p
      /\ ~NewRecord(p, s).stop
  <2>1. NewRecord(p, s) # NoRecord
    BY StoreAssumption, WrittenRecords
  <2>2. QueuedTTL > 0
    BY StoreAssumption
  <2>3. active(NewRecord(p, s))
    BY DEF NewRecord, active, ActiveState
  <2>4. /\ NewRecord(p, s).ttl = QueuedTTL
        /\ NewRecord(p, s).path = p
        /\ NewRecord(p, s).stop = FALSE
    BY DEF NewRecord
  <2> QED BY <2>1, <2>2, <2>3, <2>4
<1>5. Live(i)' /\ records'[i].path = p /\ ~records'[i].stop
  BY <1>3, <1>4 DEF Live, Present
<1>6. ASSUME NEW j \in Id \ {i}
      PROVE  /\ Live(j)' <=> Live(j)
             /\ Live(j) => records'[j] = records[j]
             /\ records'[j] \in {records[j], NoRecord}
  <2>1. records'[j] = IF j \in Expired THEN NoRecord ELSE records[j]
    BY DEF Without
  <2>2. Live(j) => j \notin Expired
    BY DEF Live, Expired
  <2> QED BY <2>1, <2>2 DEF Live, Present, Expired
<1> QED BY <1>1, <1>2, <1>5, <1>6

(* No other step makes a lease, moves one to another path or loses a stop  *)
(* request: claims, heartbeats and finishes of a record that is not live   *)
(* are refused, and the rest only drops, marks or ages records.            *)
LEMMA OnlyGrantsLease ==
  ASSUME StoreTypeOK, [StoreNext]_records,
         ~ \E i \in Id, p \in Path, s \in {"queued", "removing"} :
             ReserveFresh(i, p, s)
  PROVE  \A j \in Id :
           /\ Live(j)' => Live(j) /\ records'[j].path = records[j].path
           /\ Present(j) /\ Present(j)' /\ records[j].stop => records'[j].stop
<1> USE DEF StoreTypeOK
<1> TAKE j \in Id
<1> DEFINE Kept ==
      /\ Live(j)' => Live(j) /\ records'[j].path = records[j].path
      /\ Present(j) /\ Present(j)' /\ records[j].stop => records'[j].stop
<1> SUFFICES Kept
  OBVIOUS
<1>1. ASSUME NEW D, D \subseteq Id, records' = Without(D)
      PROVE  Kept
  BY <1>1 DEF Without, Live, Present
<1>2. ASSUME NEW p \in Path, ReserveRefused(p)
      PROVE  Kept
  BY <1>2, <1>1 DEF ReserveRefused, Expired
<1>3. ASSUME NEW i \in Id, NEW o \in Operation, Update(i, o)
      PROVE  Kept
  <2>1. Live(i) /\ records[i] \in Record
    BY <1>3 DEF Update, Accepts, Live, Present
  <2>2. CASE j = i
    BY <1>3, <2>1, <2>2, UpdatedRecord DEF Update
  <2>3. CASE j # i
    BY <1>3, <2>3 DEF Update, Live, Present
  <2> QED BY <2>2, <2>3
<1>4. CASE List
  BY <1>4, <1>1 DEF List, Expired
<1>5. ASSUME NEW p \in Path, Stop(p)
      PROVE  Kept
  <2>1. CASE j \in Stoppable(p)
    <3>1. Live(j) /\ records[j] \in Record
      BY <2>1 DEF Stoppable, Live, Present
    <3>2. records'[j] = [records[j] EXCEPT !.stop = TRUE]
      BY <1>5, <2>1 DEF Stop
    <3> QED BY <3>1, <3>2, WrittenRecords
  <2>2. CASE j \notin Stoppable(p)
    BY <1>5, <2>2 DEF Stop, Live, Present
  <2> QED BY <2>1, <2>2
<1>6. CASE Tick
  <2>1. CASE Present(j)
    <3>1. records[j] \in Record /\ records'[j] = Aged(records[j])
      BY <1>6, <2>1 DEF Tick, Present
    <3> QED BY <2>1, <3>1, WrittenRecords DEF Live, active
  <2>2. CASE ~Present(j)
    BY <1>6, <2>2 DEF Tick, Present, Live
  <2> QED BY <2>1, <2>2
<1>7. CASE UNCHANGED records
  BY <1>7 DEF Live, Present
<1> QED BY <1>2, <1>3, <1>4, <1>5, <1>6, <1>7 DEF StoreNext

-----------------------------------------------------------------------------
(* Every state of the store is well typed.                                 *)
THEOREM StoreTypeCorrect == StoreSpec => []StoreTypeOK
<1>1. StoreInit => StoreTypeOK
  BY DEF StoreInit, StoreTypeOK
<1> QED BY <1>1, StoreTypeStep, PTL DEF StoreSpec

(* No two live reservations overlap, whatever the clients call and however *)
(* leases run out in between (reserveScript against all other scripts).    *)
THEOREM StoreExclusive == StoreSpec => []ExclusiveLeases
<1>1. StoreInit => ExclusiveLeases
  BY DEF StoreInit, ExclusiveLeases, Live, Present
<1>2. StoreTypeOK /\ ExclusiveLeases /\ [StoreNext]_records => ExclusiveLeases'
  <2> SUFFICES ASSUME StoreTypeOK, ExclusiveLeases, [StoreNext]_records,
                      NEW i \in Id, NEW j \in Id,
                      i # j, Live(i)', Live(j)'
               PROVE  ~overlap(records'[i].path, records'[j].path)
    BY DEF ExclusiveLeases
  <2>1. ASSUME NEW k \in Id, NEW p \in Path, NEW s \in {"queued", "removing"},
               ReserveFresh(k, p, s)
        PROVE  ~overlap(records'[i].path, records'[j].path)
    <3>1. CASE k = i
      BY <2>1, <3>1, GrantIsExclusive, OverlapSymmetric
    <3>2. CASE k = j
      BY <2>1, <3>2, GrantIsExclusive
    <3>3. CASE k # i /\ k # j
      BY <2>1, <3>3, GrantIsExclusive DEF ExclusiveLeases
    <3> QED BY <3>1, <3>2, <3>3
  <2>2. CASE ~ \E k \in Id, p \in Path, s \in {"queued", "removing"} :
                 ReserveFresh(k, p, s)
    BY <2>2, OnlyGrantsLease DEF ExclusiveLeases
  <2> QED BY <2>1, <2>2
<1> QED BY <1>1, <1>2, StoreTypeCorrect, PTL DEF StoreSpec

(* A record that expired or finished stays dead: no late call of an old    *)
(* owner makes it exclude others again (the guard of updateScript).        *)
THEOREM StoreNeverRevives == StoreSpec => NeverRevived
<1>1. StoreTypeOK /\ [StoreNext]_records
        => [\A i \in Id : Present(i) /\ ~Live(i) => ~Live(i)']_records
  <2> SUFFICES ASSUME StoreTypeOK, [StoreNext]_records,
                      NEW i \in Id, Present(i), ~Live(i)
               PROVE  ~Live(i)'
    OBVIOUS
  <2>1. ASSUME NEW k \in Id, NEW p \in Path, NEW s \in {"queued", "removing"},
               ReserveFresh(k, p, s)
        PROVE  ~Live(i)'
    BY <2>1, GrantIsExclusive
  <2> QED BY <2>1, OnlyGrantsLease
<1> QED BY <1>1, StoreTypeCorrect, PTL DEF StoreSpec, NeverRevived

(* A stop request outlives every later script until its record is dropped. *)
THEOREM StoreKeepsStops == StoreSpec => StopDurable
<1>1. StoreTypeOK /\ [StoreNext]_records
        => [\A i \in Id : Present(i) /\ records[i].stop /\ records'[i] # NoRecord
                            => records'[i].stop]_records
  <2> SUFFICES ASSUME StoreTypeOK, [StoreNext]_records, NEW i \in Id,
                      Present(i), records[i].stop, records'[i] # NoRecord
               PROVE  records'[i].stop
    OBVIOUS
  <2>1. ASSUME NEW k \in Id, NEW p \in Path, NEW s \in {"queued", "removing"},
               ReserveFresh(k, p, s)
        PROVE  records'[i].stop
    BY <2>1, GrantIsExclusive
  <2> QED BY <2>1, OnlyGrantsLease DEF Present
<1> QED BY <1>1, StoreTypeCorrect, PTL DEF StoreSpec, StopDurable

(* The store implements the lease service clients reason with: a grant is  *)
(* an acquisition, every other script releases the leases it ends.         *)
THEOREM StoreImplementsLeases == StoreSpec => ImplementsLeases
<1>1. StoreInit => Leases!LeaseInit
  BY DEF StoreInit, Leases!LeaseInit, Holding, Live, Present
<1>2. StoreTypeOK /\ [StoreNext]_records => [Leases!LeaseNext]_Holding
  <2> SUFFICES ASSUME StoreTypeOK, [StoreNext]_records
               PROVE  [Leases!LeaseNext]_Holding
    OBVIOUS
  <2>0. \A j \in Id : Live(j) => records[j].path \in Path
    BY DEF StoreTypeOK, Live, Present, Record
  <2>1. ASSUME NEW i \in Id, NEW p \in Path, NEW s \in {"queued", "removing"},
               ReserveFresh(i, p, s)
        PROVE  Leases!Acquire(i, p)
    <3>1. Holding' = [Holding EXCEPT ![i] = p]
      BY <2>1, GrantIsExclusive DEF Holding
    <3>2. Holding[i] = NoRecord
      BY <2>1, GrantIsExclusive DEF Holding
    <3>3. ASSUME NEW j \in Id, Holding[j] # NoRecord
          PROVE  <<Holding[j], p>> \notin Overlapping
      <4>1. Live(j) /\ Holding[j] = records[j].path
        BY <3>3 DEF Holding
      <4>2. ~overlap(records[j].path, p)
        BY <2>1, <4>1, GrantIsExclusive
      <4> QED BY <4>1, <4>2 DEF Overlapping
    <3> QED BY <3>1, <3>2, <3>3 DEF Leases!Acquire
  <2>2. CASE ~ \E i \in Id, p \in Path, s \in {"queued", "removing"} :
                 ReserveFresh(i, p, s)
    <3> DEFINE D == {i \in Id : ~Live(i)'}
    <3>1. Leases!Release(D)
      BY <2>2, OnlyGrantsLease DEF Leases!Release, Holding
    <3> QED BY <3>1 DEF Leases!LeaseNext
  <2> QED BY <2>1, <2>2 DEF Leases!LeaseNext
<1> QED BY <1>1, <1>2, StoreTypeCorrect, PTL
        DEF StoreSpec, ImplementsLeases, Leases!LeaseSpec
=============================================================================
