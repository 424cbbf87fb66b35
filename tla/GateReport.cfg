SPECIFICATION FairSpec
CONSTANTS
    Metrics <- TwoMetrics
    Source <- SourceMetric
    Numbers = {1, 2}
    Gates <- SoundGates
    Measured <- NumberOrMissing
    Missing = Missing
    Unparsable = Unparsable
    Timeout = 2
    PollInterval = 1
INVARIANTS
    TypeOK
    VerdictIsOfTheScan
PROPERTIES
    SameFallback
    ReportEnds
