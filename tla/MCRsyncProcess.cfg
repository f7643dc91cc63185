SPECIFICATION FairSpec
CONSTANTS
  Leader = rsync
  Descendant = {ssh, helper}
  KillGrace = 2
INVARIANTS ProcessTypeOK NothingLeftBehind
PROPERTIES CancelReturns IsRsyncRun
