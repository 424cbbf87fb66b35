SPECIFICATION Spec
CONSTANTS
    Fields <- OneField
    Keys = {"k1", "k2"}
    Installers = {"i1", "i2"}
    Environments <- WithABlank
INVARIANTS
    TypeOK
    PageAgreesWithReadiness
PROPERTIES
    FullFormMakesReady
    FirstFormMakesReady
