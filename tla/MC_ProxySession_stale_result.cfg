\* A backend that closed a cached connection makes cmd_append answer with
\* the last_result of an earlier command on it.
CONSTANTS
    A = A
    B = B
    m1 = m1
    m2 = m2
    m3 = m3
    x1 = x1
    x2 = x2
    u1 = u1
    u2 = u2
    NoUser = NoUser
    Users <- MCUsers
    NoServer = NoServer
    NoMailbox = NoMailbox
    Servers <- MCServers
    Mailboxes <- MCMailboxes
    Msgs <- MCMsgs
    Loc <- MCLoc
    Inbox = m1
    IdleCapa <- MCIdleCapa
    LitDrops = FALSE
    MaxDrop = 1
SPECIFICATION Spec
SYMMETRY UserSymmetry
INVARIANT AckedStored
