\* One crash inside the commit steps of mailbox_expunge: the quota root and the mailbox usage.
CONSTANTS
    p1 = p1
    p2 = p2
    p3 = p3
    None = None
    Procs <- MCProcs2
    Sizes <- MCSizes
    OpKinds <- ServerOps
    MaxRecon = 0
    MaxAppend = 2
    MaxGen = 2
    MaxStore = 1
    MaxPop = 1
    MaxTries = 1
    MaxCrash = 1
    CrashAt <- ExpungeCommitSteps
    IOFail = FALSE
    OldFormat = FALSE
SPECIFICATION Spec
SYMMETRY ProcSymmetry
INVARIANT QuotaTracksUsage
