SPECIFICATION Spec
CONSTANTS
  a = a
  Id = {i1}
  Segment = {a}
  Path <- MCPath
  NoRecord = NoRecord
  NoJob = NoJob
  Worker = {w1, w2}
  QueuedTTL = 5
  LeaseTTL = 5
  RetainTTL = 1
  MaxProgress = 0
  Poll = 1
  CallTimeout = 1
  KillGrace = 1
  HeartbeatPoll = 1
  HeartbeatTimeout = 1
  FaultKind = {"unreachable"}
  MaxFaults = 1
INVARIANT RemovalKeepsLease
