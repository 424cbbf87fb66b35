SPECIFICATION Spec
CONSTANTS
    Fields <- OneField
    Keys = {"k1", "k2"}
    Installers = {"i1"}
    Environments <- WithoutBlanks
PROPERTY
    MissingValuesMakeReady
