SPECIFICATION FairSpec
CONSTANTS
    Streams <- BothStreams
    Capacity = 2
    MaxOutput = 3
    Timeout = 3
    Background = TRUE
    Faults = TRUE
INVARIANTS
    TypeOK
    VerdictIsTheCommands
    NoChildLeft
    TimeoutIsDue
PROPERTIES
    EndedCommandIsJudged
    GateReturns
