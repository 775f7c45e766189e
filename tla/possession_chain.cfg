SPECIFICATION FairSpec
CONSTANTS
    replica = a
    relay = b
    Node = {o, a, b}
    Origin = o
    Hash = {h1, h2}
    Peers <- FullMesh
    Links <- ChainLinks
    Backstop = 1
    Faults = {}
    MaxSeq = 2
    MaxMint = 1
    MaxFaults = 0
    MaxInflight = 2
PROPERTIES Converges ImplementsReplication
INVARIANTS TypeOK HeadIsExact
