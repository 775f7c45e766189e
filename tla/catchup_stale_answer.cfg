SPECIFICATION FairSpec
CONSTANTS
    Peer = {p}
    Backlog = 4
    Chunk = 2
    Window = 2
    Strikes = 2
    Backstop = 3
    MaxGen = 2
    MaxSeq = 5
    MaxReborn = 2
    MaxFailures = 0
    MaxQueue = 1
    LeasesExpire = TRUE
PROPERTY AlwaysReleased
