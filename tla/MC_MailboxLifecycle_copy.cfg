\* every operation with byte copies instead of link(): POP sessions, failed rename
\* copies, LOSTQUOTA, sync; and the walk of mailbox_sync over every pair of
\* ascending uid lists drawn from 1..2
CONSTANTS
    p1 = p1  p2 = p2
    Parts <- MCParts
    Names <- TwoNames
    RootOf <- MCRootOf
    NoRoot = NoRoot
    Inbox = "INBOX"
    Limit = 1
    CanLink = FALSE
    IOFail = TRUE
    LostQuota = TRUE
    OpKinds <- Ops
    MaxUid = 2
    MaxOps <- OnceSync
    MaxTime = 1
SYMMETRY Sym
SPECIFICATION Spec
INVARIANT WalkKeepsMasterFiles
INVARIANT WalkReplicates
VIEW InodeView
