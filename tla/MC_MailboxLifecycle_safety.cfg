\* create, append, expunge, delete and rename with link(), failed copies and no second CREATE
CONSTANTS
    p1 = p1  p2 = p2
    Parts <- MCParts
    Names <- MCNames
    RootOf <- MCRootOf
    NoRoot = NoRoot
    Inbox = "INBOX"
    Limit = 1
    CanLink = TRUE
    IOFail = TRUE
    LostQuota = FALSE
    OpKinds <- NoPop
    MaxUid = 2
    MaxOps <- OneCreate
    MaxTime = 2
SYMMETRY Sym
SPECIFICATION Spec
INVARIANT TypeOK
INVARIANT QuotaMatchesMailboxes
INVARIANT IndexMatchesHistory
INVARIANT LiveMessagesHaveFiles
INVARIANT NoOrphanFiles
VIEW InodeView
