SPECIFICATION Spec
CONSTANTS
    Writers = {w1, w2}
    Readers = {"r1", "r2"}
    Configs = {"short", "long"}
    Size <- TwoSizes
    Inodes = {a, b, c}
    None = "none"
    Unknown = "unknown"
    MaxPowerLosses = 1
SYMMETRY Names
INVARIANTS
    TypeOK
    StoredIsWhole
PROPERTIES
    ReadsAreWhole
    ImplementsRegister
