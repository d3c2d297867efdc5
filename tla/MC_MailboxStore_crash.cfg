\* One crash at any step, and I/O errors at every write, rename and quota
\* transaction: what survives partial failure.
CONSTANTS
    p1 = p1
    p2 = p2
    p3 = p3
    None = None
    Procs <- MCProcs2
    Sizes <- MCSizes
    OpKinds <- ServerOps
    MaxRecon = 0
    MaxAppend = 1
    MaxGen = 1
    MaxStore = 0
    MaxPop = 0
    MaxTries = 1
    MaxCrash = 1
    CrashAt <- AnyStep
    IOFail = TRUE
    OldFormat = TRUE
SPECIFICATION Spec
PROPERTY RefinesAbstract
SYMMETRY ProcSymmetry
INVARIANT TypeOK
INVARIANT ViewCoherent
INVARIANT IndexMatchesHistory
INVARIANT LiveMessagesHaveFiles
INVARIANT UidsIncrease
