CONSTANTS
  Media = {m1}
  MaxPosts = 2
  None = None
  MaxFaults = 1
SPECIFICATION FairSpec
INVARIANTS TypeOK FilesMatchRows
PROPERTIES  DeletionReachesMedia
CHECK_DEADLOCK FALSE
