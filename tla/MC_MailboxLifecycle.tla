------------------------ MODULE MC_MailboxLifecycle ------------------------
(* Instances of MailboxLifecycle for TLC: two partitions, the names        *)
(* INBOX, "a" and "b" (or INBOX and "b"), and two quota roots.            *)
EXTENDS MailboxLifecycle, TLC

CONSTANTS p1, p2

MCParts == {p1, p2}
MCNames == {"INBOX", "a", "b"}
\* INBOX and one other name, under different roots
TwoNames == {"INBOX", "b"}
\* INBOX and "a" under the user's root, "b" under another one
MCRootOf == [n \in MCNames |-> IF n = "b" THEN "shared" ELSE "user"]

\* every operation twice
Twice == [o \in Ops |-> 2]
\* one CREATE: a failed rename's destination is never created again
OneCreate == [Twice EXCEPT !["create"] = 1, !["rename"] = 1]
\* two mailboxes, one of each other operation
Once == [Twice EXCEPT !["expunge"] = 1, !["delete"] = 1, !["pop"] = 1,
                      !["rename"] = 1]
\* two mailboxes, one of each other operation, a sync
OnceSync == [Once EXCEPT !["sync"] = 1]
NoPop == Ops \ {"sync", "pop"}
RenameOps == {"create", "append", "rename"}

Sym == Permutations(MCParts)

-----------------------------------------------------------------------------
(* The walk of mailbox_sync (MailboxSyncWalk) between every two mailboxes  *)
(* of a state, master and slave either way round, against what the spec's *)
(* three cases say sync achieves.                                          *)
LastUid(s) == IF s = <<>> THEN 0 ELSE s[Len(s)]
Copied(m, sl) == SyncWalk(Ix(m).uids, Ix(sl).uids)[1]
Unlinked(m, sl) == SyncWalk(Ix(m).uids, Ix(sl).uids)[2]

(* The slave is an earlier state of the master: uids only grow, so every  *)
(* master uid up to the slave's last one already existed at the last sync *)
(* and is in the slave; and the master has not expunged past the slave's  *)
(* last uid (the case the spec's three cases leave out).                   *)
Replica(m, sl) ==
    /\ {u \in Live(m) : u <= LastUid(Ix(sl).uids)} \subseteq Live(sl)
    /\ LastUid(Ix(sl).uids) <= LastUid(Ix(m).uids)

(* The walk of mailbox_sync never unlinks a slave file whose uid the       *)
(* master still lists: the new index, a copy of the master's, would name a *)
(* missing file.                                                           *)
WalkKeepsMasterFiles ==
    \A m, sl \in reg : Unlinked(m, sl) \cap Live(m) = {}

(* On a replica the walk of mailbox_sync does what spec section 4.9's     *)
(* three cases say: afterwards the slave's records are exactly the        *)
(* master's uids.                                                          *)
WalkReplicates ==
    \A m, sl \in reg :
        Replica(m, sl) =>
            (Live(sl) \ Unlinked(m, sl)) \cup Copied(m, sl) = Live(m)
====
