SPECIFICATION Spec
CONSTANTS
    p1 = p1
    p2 = p2
    d1 = d1
    d2 = d2
    i1 = i1
    rk = rk
    dev = dev
    s1 = s1
    s2 = s2
    None = None
    RootKid = rk
    DeviceKids <- OneDevice
    SigningKids <- TwoSigningKids
    CreateKeySets <- SigningKeySet
    Procs <- TwoProcs
    Dids <- OneDid
    WbaDids <- OneDid
    Ids <- OneId
    TxIds = {1, 2}
    Revs = {1}
    IoErrors = FALSE
    MaxGeneration = 4
SYMMETRY ProcSymmetry
INVARIANTS
    RecoveryNeverStuck
