SPECIFICATION StoreSpec
CONSTANTS
  a = a
  b = b
  Id = {i1, i2, i3}
  Segment = {a, b}
  Path <- MCPath
  NoRecord = NoRecord
  QueuedTTL = 2
  LeaseTTL = 1
  RetainTTL = 1
  MaxProgress = 0
SYMMETRY Symmetric
INVARIANTS StoreTypeOK ExclusiveLeases
PROPERTIES NeverRevived StopDurable ImplementsLeases
