SPECIFICATION FairSpec
CONSTANTS
  near = near
  far = far
  Peer = {near, far}
  Jobs <- AllJobs
  Chunks = {2}
  Window = 2
  Gap = 1
  Budget = 3
  Limit = 1
  Threshold = 1
  Streak = 3
  Faults = {"lie", "strike"}
  MaxFaults = 1
INVARIANTS MemoryIsBounded ReplaysFindCopies CompletedIsCorrect
PROPERTY Ends
CHECK_DEADLOCK FALSE
