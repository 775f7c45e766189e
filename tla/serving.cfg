SPECIFICATION FairSpec
CONSTANTS
  big = big
  small = small
  other = other
  r1 = r1
  r2 = r2
  r3 = r3
  Hash = {big, small, other}
  Request = {r1, r2, r3}
  Asks <- Mixes
  Size <- Sizes
  Unnamable = {small}
  Entries = 2
  Manifests = 2
  Builders = 1
  Ceiling = 8
  FloorShare = 4
  Climb = 1
  MaxTicks = 1
  Faults = {"collect", "leave", "damage", "query"}
  MaxFaults = 1
INVARIANTS HeldIsCounted BusyCellsHaveABuilder
PROPERTIES BudgetIsHonoured EveryRequestIsAnswered
CHECK_DEADLOCK FALSE
