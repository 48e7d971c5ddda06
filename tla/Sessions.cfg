SPECIFICATION Spec
CONSTANTS
    p1 = p1
    p2 = p2
    d1 = d1
    d2 = d2
    o1 = o1
    o2 = o2
    None = None
    Procs <- TwoProcs
    Dids <- TwoDids
    Ops <- TwoOps
    Moves <- OneWay
    OtherChanges = FALSE
    RemoteChanges = FALSE
    MaxGeneration = 4
    MaxVersion = 1
SYMMETRY Interchangeable
INVARIANTS
    NoForks
