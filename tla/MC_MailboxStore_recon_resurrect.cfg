\* One crash inside the commit steps of mailbox_expunge (cyr_expire), then
\* reconstruct: which messages the rebuilt index lists.
CONSTANTS
    p1 = p1
    p2 = p2
    p3 = p3
    None = None
    Procs <- MCProcs2
    Sizes <- MCSizes
    OpKinds <- RepairOps
    MaxRecon = 1
    MaxAppend = 2
    MaxGen = 1
    MaxStore = 1
    MaxPop = 0
    MaxTries = 1
    MaxCrash = 1
    CrashAt <- ExpungeCommitSteps
    IOFail = FALSE
    OldFormat = FALSE
SPECIFICATION Spec
SYMMETRY ProcSymmetry
PROPERTY ReconstructKeepsLive
