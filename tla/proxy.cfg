SPECIFICATION MCSpec
CONSTANTS
  f1 = f1
  f2 = f2
  f3 = f3
  a = a
  b = b
  h1 = h1
  h2 = h2
  near = near
  far = far
  good = good
  bad = bad
  Fact = {f1, f2, f3}
  Path <- Paths
  Hash <- Hashes
  Size <- Sizes
  Key = {good, bad}
  Trusted = {good}
  Peer = {near, far}
  Tier <- Tiers
  Self = Self
  Ask <- Asks
  Header <- Headers
  MaxU64 = 7
  Threshold = 4
  MaxChanges = 2
  Most = 6
  Knees = {1, 4, 6}
  Probes = 5
  MaxUpsets = 2
  MaxObservations = 3
  MaxRestarts = 2
  MaxFailures = 1
INVARIANTS MissIsHonest SourcesAreRight 
PROPERTIES KneeIsReached LearningIsStored
CHECK_DEADLOCK FALSE
