SPECIFICATION FairSpec
CONSTANTS
  Path <- MCPath
  Listings <- MCListings
  TooLong = TooLong
  PipeSize = 1
  MaxChanges = 2
INVARIANTS TreeTypeOK SyncedIsTrue OnlyComplete PipeIsRead
PROPERTY CancelAnswers
CHECK_DEADLOCK FALSE
