\* a failed rename-copy leaves linked index and cache at the destination, then CREATE or RENAME there again
CONSTANTS
    p1 = p1  p2 = p2
    Parts <- MCParts
    Names <- MCNames
    RootOf <- MCRootOf
    NoRoot = NoRoot
    Inbox = "INBOX"
    Limit = 1
    CanLink = TRUE
    IOFail = TRUE
    LostQuota = FALSE
    OpKinds <- NoPop
    MaxUid = 2
    MaxOps <- Twice
    MaxTime = 2
SYMMETRY Sym
SPECIFICATION Spec
INVARIANT IndexMatchesHistory
VIEW InodeView
