SPECIFICATION Spec
CONSTANTS
    Streams <- BothStreams
    Capacity = 2
    MaxOutput = 3
    Timeout = 3
    Background = FALSE
    Faults = FALSE
INVARIANT
    NotTimedOutForOutput
