SPECIFICATION Spec
CONSTANTS
    Metrics <- ThreeMetrics
    Source <- SourceMetric
    Numbers = {1, 2}
    Gates <- SixGates
    Measured <- AnyMeasure
    Missing = Missing
    Unparsable = Unparsable
INVARIANTS
    TypeOK
    VerdictWasTrue
PROPERTY
    VerdictIsCurrent
