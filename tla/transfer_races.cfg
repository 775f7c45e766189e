SPECIFICATION Spec
CONSTANTS
  near = near
  far = far
  Peer = {near, far}
  Jobs <- Repeats
  Chunks = {1, 3}
  Window = 3
  Gap = 1
  Budget = 2
  Limit = 1
  Threshold = 1
  Streak = 2
  Faults = {"strike", "refuse", "lie", "hangup", "slow", "stall", "busy"}
  MaxFaults = 2
INVARIANTS EachUnitInOnePlace FlightsAreManned SlotsAreHeldByWorkers NoReleaseIsMissed
SYMMETRY Alike
CHECK_DEADLOCK FALSE
