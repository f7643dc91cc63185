SPECIFICATION Spec
CONSTANTS
  Words <- MCWords
  Ignored = "ignored"
  MaxWords = 3
  MaxToken = 6
  MaxUint = 65535
  Id = "id"
  ServerArgs <- MCServerArgs
  Pods <- MCPods
  ContainerName = {"", "app", "gone"}
  Events <- MCEvents
  Timeout = 2
  MaxLost = 2
  Request = {r1, r2}
  GraceTTL = 2
  KillTTL = 1
  ListTTL = 4
  Replica = {s1, s2}
  Build = {1, 2, 3}
  URL = {"", "app.wasm"}
  IndexOf <- MCIndexOf
  Files <- MCFiles
  NoContent = "none"
  MaxRollouts = 2
  MaxFetches = 3
  Path = {"a", "b"}
  Filter = {"", " ", "a", "x"}
  Blank = {"", " "}
  HasPart <- MCHasPart
  Listings <- MCListings
  MaxChanges = 3
INVARIANTS
  PartsTypeOK FieldsFollowWords WorkerIsApplication BestEffort
  ETagsTellContents
PROPERTIES KeepsPromise ShutdownIsGraceful PageIsTrue
SYMMETRY Symmetric
CHECK_DEADLOCK FALSE
