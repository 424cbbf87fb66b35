SPECIFICATION Spec
CONSTANTS
    Metrics <- TwoMetrics
    Source <- SourceMetric
    Numbers = {1, 2}
    Gates <- OddGates
    Measured <- NumberOrMissing
    Missing = Missing
    Unparsable = Unparsable
    Timeout = 2
    PollInterval = 1
INVARIANT
    SameVerdict
