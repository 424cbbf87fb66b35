SPECIFICATION Spec
CONSTANTS
    Threads = {t1, t2}
    Items = {i1, i2}
    Garbled = Garbled
    Files = {t1, t2}
    BindingFile <- ThreadFile
    Binders = {b1, b2}
    Commands = {c1}
    Registries <- ThreeRegistries
    GateVersion = "1"
    None = None
    NoNode = NoNode
    MaxBinds = 4
SYMMETRY Alike
INVARIANTS
    TypeOK
    WorkIsBound
    AmbiguityIsRefused
    RefusalIsDue
    RetryIsHarmless
