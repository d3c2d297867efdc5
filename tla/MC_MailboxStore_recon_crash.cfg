\* Reconstruct after one crash at any step and with I/O errors, beside
\* appends, flag stores and cyr_expire: what reconstruct repairs.
CONSTANTS
    p1 = p1
    p2 = p2
    p3 = p3
    None = None
    Procs <- MCProcs2
    Sizes <- MCSizes
    OpKinds <- RepairOps
    MaxRecon = 1
    MaxAppend = 2
    MaxGen = 1
    MaxStore = 1
    MaxPop = 0
    MaxTries = 1
    MaxCrash = 1
    CrashAt <- AnyStep
    IOFail = TRUE
    OldFormat = FALSE
SPECIFICATION Spec
SYMMETRY ProcSymmetry
INVARIANT ReconstructRepairs
INVARIANT LiveMessagesHaveFiles
PROPERTY ReconstructKeepsFlags
