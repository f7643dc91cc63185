SPECIFICATION Spec
CONSTANTS
  a = a
  Id = {i1}
  Segment = {a}
  Path <- MCPath
  NoRecord = NoRecord
  NoJob = NoJob
  Worker = {w1, w2}
  QueuedTTL = 5
  LeaseTTL = 5
  RetainTTL = 1
  MaxProgress = 1
  Poll = 1
  CallTimeout = 1
  KillGrace = 1
  HeartbeatPoll = 1
  HeartbeatTimeout = 1
  FaultKind <- AllFaults
  MaxFaults = 2
SYMMETRY Symmetric
INVARIANTS SystemTypeOK LeaseCoversTransfer OneTransfer EventsAreTrue
PROPERTIES UsesStore RunsRsync RefusedLapses
