SPECIFICATION Spec
CONSTANTS
    p1 = p1
    p2 = p2
    d1 = d1
    d2 = d2
    o1 = o1
    o2 = o2
    None = None
    Procs <- OneProc
    Dids <- TwoDids
    Ops <- TwoOps
    Moves <- BothWays
    OtherChanges = FALSE
    RemoteChanges = TRUE
    MaxGeneration = 4
    MaxVersion = 2
SYMMETRY Symmetric
INVARIANTS
    OpenTransitionsPinned
