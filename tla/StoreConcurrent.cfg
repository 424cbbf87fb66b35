SPECIFICATION FairSpec
CONSTANTS
    a1 = a1
    a2 = a2
    Procs = {p1, p2}
    Artifacts = {a1, a2}
    Torn = Torn
    IndexFiles <- MCIndexFiles
    ThreadFile <- MCThreadFile
    WorkFile <- MCWorkFile
    Deliveries = 2
    MaxFailures = 2
INVARIANT TypeOK
INVARIANT IndexNeverDangles
INVARIANT PartialIsBeingWritten
INVARIANT PartialIsContested
INVARIANT UndisturbedKeepsAcked
INVARIANT NotAllGiveUp
PROPERTY UncontestedIsImmutable
PROPERTY ImplementsLog
PROPERTY EventuallyAcked
