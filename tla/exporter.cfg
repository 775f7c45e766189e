SPECIFICATION FairSpec
CONSTANTS
    Path = {p1, p2}
    Hash = {h1, h2}
    Peer = {q}
    Request = {r1}
    Signed = {p1}
    First = p1
    Wanted = h1
    Chunk = 1
    MaxCommits = 2
    MaxFaults = 1
    None = None
INVARIANTS ExportedWhenQuiet HintsAreHonoured
PROPERTY Converges
