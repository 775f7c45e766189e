SPECIFICATION FairSpec
CONSTANTS
    a = a
    b = b
    f = f
    g = g
    s1 = s1
    s2 = s2
    Node = {a, b}
    Links <- OneSource
    Fact = {f, g}
    Sig = {s1, s2}
    Key <- KeyOf
    Keys = 6
    Bucket = 2
    Known <- Start
    Batches <- Taught
    PageMax = 1
    CoarseMax = 2
    Wholesale = 2
    FetchMax = 1
    Window = 1
    Shaken = {a}
    MaxTaught = 1
    MaxSnaps = 1
    MaxFaults = 1
INVARIANTS RootIsTheTable CursorIsBehindFacts
PROPERTY Converges
