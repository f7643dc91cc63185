SPECIFICATION FairSpec
CONSTANTS
  MaxErrors = 1
  MaxVersion = 2
  MaxClicks = 1
  MaxFaults = 1
  Count <- MCCount
  Status = {200, 500}
  Body = {"data"}
INVARIANT DashboardTypeOK
PROPERTIES ShownIsTrue DashboardSettles
CHECK_DEADLOCK FALSE
