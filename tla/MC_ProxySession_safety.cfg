\* Backend connections drop at line boundaries: the selected-mailbox
\* agreement, the backend pointers, connections owned by the user logged in,
\* and that every command is answered.
CONSTANTS
    A = A
    B = B
    m1 = m1
    m2 = m2
    m3 = m3
    x1 = x1
    x2 = x2
    u1 = u1
    u2 = u2
    NoUser = NoUser
    Users <- MCUsers
    NoServer = NoServer
    NoMailbox = NoMailbox
    Servers <- MCServers
    Mailboxes <- MCMailboxes
    Msgs <- MCMsgs1
    Loc <- MCLoc
    Inbox = m1
    IdleCapa <- MCIdleCapa
    LitDrops = FALSE
    MaxDrop = 2
SPECIFICATION Spec
SYMMETRY UserSymmetry
INVARIANT TypeOK
INVARIANT SelectedAgrees
INVARIANT BackendPointersValid
INVARIANT ConnectionsOwned
