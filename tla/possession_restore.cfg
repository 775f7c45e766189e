SPECIFICATION Spec
CONSTANTS
    replica = a
    relay = b
    Node = {o,a}
    Origin = o
    Hash = {h1}
    Peers <- FullMesh
    Links <- AllLinks
    Backstop = 1
    Faults = {"restore","crash","replicaloss"}
    MaxSeq = 2
    MaxMint = 3
    MaxFaults = 2
    MaxInflight = 1
INVARIANTS ReplicasFaithful
