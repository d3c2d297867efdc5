-------------------------- MODULE MailboxSyncWalk --------------------------
(***************************************************************************)
(* The lockstep walk of mailbox_sync (imap/mailbox.c) over the master's    *)
(* and the slave's index records, both in ascending uid order.             *)
(***************************************************************************)
EXTENDS Integers, Sequences

(* The lockstep walk of mailbox_sync over the master's uids O and the      *)
(* slave's uids N: returns <<uids to copy, uids to unlink>>.  For each     *)
(* master record the inner do-while reads slave records, unlinking each   *)
(* one below the master uid, and stops at the first that is not below or  *)
(* at the end; the master file is copied when the slave records ran out.   *)
(* Mutant: the inner loop also unlinks the slave record equal to the      *)
(* master uid.                                                             *)
RECURSIVE Mut_SyncSkip_le(_, _, _, _)
Mut_SyncSkip_le(u, N, n, del) ==
    LET nu == N[n] IN
    IF nu <= u /\ n + 1 <= Len(N) THEN Mut_SyncSkip_le(u, N, n + 1, del \cup {nu})
    ELSE <<n + 1, IF nu <= u THEN del \cup {nu} ELSE del>>
RECURSIVE SyncSkip(_, _, _, _)
SyncSkip(u, N, n, del) ==
    LET nu == N[n] IN
    IF nu < u /\ n + 1 <= Len(N) THEN SyncSkip(u, N, n + 1, del \cup {nu})
    ELSE <<n + 1, IF nu < u THEN del \cup {nu} ELSE del>>
(* Mutant: the copy test sits inside "if (newmsgno <= exists)", so master *)
(* records past the end of the slave's are never copied.                   *)
RECURSIVE Mut_SyncLoop_no_tail(_, _, _, _, _, _)
Mut_SyncLoop_no_tail(O, N, o, n, cp, del) ==
    IF o > Len(O) THEN <<cp, del>>
    ELSE LET step == IF n <= Len(N) THEN SyncSkip(O[o], N, n, del)
                     ELSE <<n, del>>
         IN Mut_SyncLoop_no_tail(O, N, o + 1, step[1],
                IF n <= Len(N) /\ step[1] > Len(N) THEN cp \cup {O[o]} ELSE cp,
                step[2])
RECURSIVE SyncLoop(_, _, _, _, _, _)
SyncLoop(O, N, o, n, cp, del) ==
    IF o > Len(O) THEN <<cp, del>>
    ELSE LET step == IF n <= Len(N) THEN SyncSkip(O[o], N, n, del)
                     ELSE <<n, del>>
         IN SyncLoop(O, N, o + 1, step[1],
                     IF step[1] > Len(N) THEN cp \cup {O[o]} ELSE cp, step[2])
SyncWalk(O, N) == SyncLoop(O, N, 1, 1, {}, {})
====
