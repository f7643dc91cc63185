SPECIFICATION Spec
CONSTANTS
  a = a
  b = b
  Id = {i1, i2}
  Segment = {a, b}
  Path <- MCPath
  NoRecord = NoRecord
  NoJob = NoJob
  Worker = {w1, w2}
  QueuedTTL = 2
  LeaseTTL = 2
  RetainTTL = 1
  MaxProgress = 0
  Poll = 1
  CallTimeout = 0
  KillGrace = 0
  HeartbeatPoll = 1
  HeartbeatTimeout = 0
  FaultKind = {"unreachable"}
  MaxFaults = 1
SYMMETRY Symmetric
INVARIANTS DirectoryExclusive RemovalLeased
