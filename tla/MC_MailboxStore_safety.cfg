\* Two processes without crashes or I/O errors: the concurrency protocol
\* alone, and that every started operation returns.  No symmetry reduction,
\* which is unsound for liveness.
CONSTANTS
    p1 = p1
    p2 = p2
    p3 = p3
    None = None
    Procs <- MCProcs2
    Sizes <- MCSizes
    OpKinds <- ServerOps
    MaxRecon = 0
    MaxAppend = 1
    MaxGen = 2
    MaxStore = 1
    MaxPop = 1
    MaxTries = 1
    MaxCrash = 0
    CrashAt <- AnyStep
    IOFail = FALSE
    OldFormat = FALSE
SPECIFICATION Spec
PROPERTY RefinesAbstract
PROPERTY OpsComplete
INVARIANT ViewCoherent
INVARIANT IndexMatchesHistory
INVARIANT LiveMessagesHaveFiles
INVARIANT UidsIncrease
INVARIANT CountersMatchRecords
INVARIANT QuotaTracksUsage
