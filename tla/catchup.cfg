SPECIFICATION FairSpec
CONSTANTS
    Peer = {p}
    Backlog = 4
    Chunk = 2
    Window = 2
    Strikes = 2
    Backstop = 3
    MaxGen = 2
    MaxSeq = 5
    MaxReborn = 1
    MaxFailures = 1
    MaxQueue = 1
    LeasesExpire = TRUE
INVARIANTS LeaseHasOwner NoHoles Covered
PROPERTY NeverBack Released
