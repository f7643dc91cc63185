------------------------------ MODULE PathLease ------------------------------
(***************************************************************************)
(* What the reservation store promises its clients, with everything about  *)
(* Redis, records, states and clocks left out: a lease on a directory is   *)
(* granted to a reservation only while no overlapping directory is leased, *)
(* it is never moved to another directory, and it may end at any time.     *)
(* SyncStore is shown to implement this specification.                     *)
(***************************************************************************)
CONSTANTS Id,               \* reservations
          Path,             \* directories
          Overlap,          \* the pairs of directories not leased together
          Free              \* the holding of a reservation without a lease

VARIABLE held               \* held[i]: the directory reservation i leases

LeaseTypeOK == held \in [Id -> Path \cup {Free}]

LeaseInit == held = [i \in Id |-> Free]

(* A reservation without a lease obtains one that overlaps no other.       *)
Acquire(i, p) ==
  /\ held[i] = Free
  /\ \A j \in Id : held[j] # Free => <<held[j], p>> \notin Overlap
  /\ held' = [held EXCEPT ![i] = p]

(* Any number of leases end: finished, failed, cancelled or expired.       *)
Release(D) == held' = [i \in Id |-> IF i \in D THEN Free ELSE held[i]]

LeaseNext ==
  \/ \E i \in Id, p \in Path : Acquire(i, p)
  \/ \E D \in SUBSET Id : Release(D)

LeaseSpec == LeaseInit /\ [][LeaseNext]_held
=============================================================================
