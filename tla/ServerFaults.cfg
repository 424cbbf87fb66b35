SPECIFICATION FairSpec
CONSTANTS
    Commands <- TwoCommands
    Durations <- ShortOrLong
    Threshold = 3
    MaxFaults = 2
INVARIANTS
    TypeOK
    CompletedIsPersisted
    WorkIsWhole
PROPERTIES
    ServerRecovers
    CommandIsServed
