SPECIFICATION FairSpec
CONSTANTS
  first = first
  second = second
  Stream = {first, second}
  Jobs <- SomeJobs
  Roots <- SomeRoots
  Word = 2
  NotUtf8 = {9}
  ReadChunk = 3
  ReadAhead = 2
  Split = 2
  Align = 2
  Reads = 1
  Encoders = 1
  Body = 1
  Feed = 1
  Faults = {"collect", "refuse", "leave", "short", "fail"}
  MaxFaults = 2
INVARIANTS LayoutsAgree ServedIsTheRange EveryReadIsSomewhere
PROPERTIES EveryResponseEnds
CHECK_DEADLOCK FALSE
