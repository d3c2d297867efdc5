\* A session expunge beside reconstruct, without crashes: message files
\* are unlinked after the expunge has dropped its locks.
CONSTANTS
    p1 = p1
    p2 = p2
    p3 = p3
    None = None
    Procs <- MCProcs2
    Sizes <- MCSizes
    OpKinds <- RaceOps
    MaxRecon = 1
    MaxAppend = 2
    MaxGen = 1
    MaxStore = 1
    MaxPop = 0
    MaxTries = 1
    MaxCrash = 0
    CrashAt <- AnyStep
    IOFail = FALSE
    OldFormat = FALSE
SPECIFICATION Spec
SYMMETRY ProcSymmetry
INVARIANT LiveMessagesHaveFiles
