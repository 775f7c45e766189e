SPECIFICATION FairSpec
CONSTANTS
    replica = a
    relay = b
    Node = {o,a}
    Origin = o
    Hash = {h1}
    Peers <- FullMesh
    Links <- OneLink
    Backstop = 1
    Faults = {"hostcrash","originloss"}
    MaxSeq = 2
    MaxMint = 2
    MaxFaults = 2
    MaxInflight = 1
PROPERTIES Converges SeqsNeverReissued ImplementsReplication
