SPECIFICATION FairSpec
CONSTANTS
  Leader = rsync
  Descendant = {ssh}
  KillGrace = 2
PROPERTY KillsOnlyUnfinished
