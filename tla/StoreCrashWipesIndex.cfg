SPECIFICATION Spec
CONSTANTS
    a1 = a1
    a2 = a2
    Procs = {p1}
    Artifacts = {a1, a2}
    Torn = Torn
    IndexFiles <- MCIndexFiles
    ThreadFile <- MCThreadFile
    WorkFile <- MCWorkFile
    Deliveries = 1
    MaxFailures = 1
INVARIANT AckedStayListed
