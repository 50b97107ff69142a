CONSTANTS
    MaxBreaks = 2
    BufferLength = 12
    Count = 2
    Outcomes = {"pass", "fail", "stuck"}
SPECIFICATION FairSpec
CHECK_DEADLOCK FALSE
INVARIANTS
    RepliesMatch
    EachTestOnce
PROPERTIES
    NoStaleBreak
    RequestsServed
    RunEnds
