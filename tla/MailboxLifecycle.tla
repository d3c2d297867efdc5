------------------------- MODULE MailboxLifecycle -------------------------
(***************************************************************************)
(* Whole mailboxes at their paths (imap/mailbox.c): mailbox_create,        *)
(* mailbox_delete, mailbox_rename_copy with mailbox_rename_cleanup,        *)
(* mailbox_sync, mailbox_copyfile, and the appends, compactions and POP    *)
(* sessions that change a mailbox in between.                              *)
(*                                                                         *)
(* The callers hold the mailbox list and the header and index locks of     *)
(* every mailbox an operation touches, so each function is one action;     *)
(* MailboxStore checks what happens inside one mailbox.  Files are inodes  *)
(* reached through a path's directory entries, so a hard link made by      *)
(* mailbox_copyfile shares the inode and O_TRUNC truncates it in place.    *)
(* An index is reduced to its uids, last_uid, quota_mailbox_used,          *)
(* uidvalidity and generation; every message has size 1.                   *)
(***************************************************************************)
EXTENDS Integers, Sequences, FiniteSets, SequencesExt, FiniteSetsExt,
        MailboxSyncWalk

CONSTANTS
    Parts,      \* partitions
    Names,      \* mailbox names
    RootOf,     \* quota_findroot: name -> quota root or NoRoot
    NoRoot,
    Inbox,      \* the name whose rename is "isinbox"
    Limit,      \* the quota limit of every root, in messages
    CanLink,    \* link() works between the partitions (same device)
    IOFail,     \* message, seen or quota_write failures in rename-copy and sync
    LostQuota,  \* quota_write in mailbox_delete may fail (LOSTQUOTA)
    OpKinds,    \* the operations that run
    MaxUid,     \* bound on appends per mailbox
    MaxOps,     \* operation kind -> bound on how often it runs
    MaxTime     \* bound on the clock time(0)

ASSUME Names \subseteq DOMAIN RootOf
ASSUME CanLink \in BOOLEAN /\ IOFail \in BOOLEAN /\ LostQuota \in BOOLEAN
ASSUME MaxUid \in Nat /\ MaxTime \in Nat /\ Limit \in Nat

VARIABLES
    reg,        \* the paths the mailbox list names as mailboxes
    dir,        \* path -> inodes of its "cyrus.index" and "cyrus.cache"
    idx,        \* index inode -> contents
    cache,      \* cache inode -> generation prefix
    nextIno,    \* next free inode number
    files,      \* path -> uids of its "<uid>." message files
    quota,      \* quota root -> used
    popLocked,  \* cache inodes a POP session holds locked
    now,        \* time(0)
    pend,       \* a rename between mailbox_rename_copy and its cleanup
    done,       \* operation kind -> number run (bounds the model)
    kept        \* history: path -> uids appended there and not expunged

vars == <<reg, dir, idx, cache, nextIno, files, quota, popLocked,
          now, pend, done, kept>>

Ops == {"create", "append", "expunge", "delete", "pop", "rename", "sync"}
ASSUME OpKinds \subseteq Ops /\ MaxOps \in [Ops -> Nat]
Roots == {RootOf[n] : n \in Names} \ {NoRoot}
(* A mailbox's directory is named by its partition and the hash of its   *)
(* name (mailbox_hash_mbox), so a path is a partition and a name.          *)
Boxes == Parts \X Names
Name(b) == b[2]
NoBox == <<"none", "none">>
NoPend == [src |-> NoBox, dst |-> NoBox, isinbox |-> FALSE]
NoDir == [index |-> 0, cache |-> 0]

Ix(b) == idx[dir[b].index]
Live(b) == Range(Ix(b).uids)
Root(b) == RootOf[Name(b)]
Budget(op) == op \in OpKinds /\ done[op] < MaxOps[op]
Count(op) == done' = [done EXCEPT ![op] = @ + 1]
Idle == pend = NoPend

(* Mutant: the free subtracts one unit whatever the mailbox used.         *)
Mut_QuotaFree_unit(q, r, n) ==
    IF r = NoRoot THEN q ELSE [q EXCEPT ![r] = IF @ >= 1 THEN @ - 1 ELSE 0]

(* The quota transaction: add, or subtract clamped at zero; nothing when   *)
(* the mailbox has no quota root.                                          *)
QuotaAdd(q, r, n) == IF r = NoRoot THEN q ELSE [q EXCEPT ![r] = @ + n]
QuotaFree(q, r, n) ==
    IF r = NoRoot THEN q ELSE [q EXCEPT ![r] = IF @ >= n THEN @ - n ELSE 0]

(* mailbox_create's files at path b: open(O_RDWR|O_TRUNC|O_CREAT) reuses  *)
(* and truncates an inode already at the path, else makes a new one; the  *)
(* index gets a fresh header with uidvalidity = time(0), the cache the     *)
(* generation 0 prefix.  Message files already in the directory stay.      *)
FreshIndex == [uids |-> <<>>, last_uid |-> 0, used |-> 0, uidv |-> now, gen |-> 0]
NewIx(b) == IF dir[b].index # 0 THEN dir[b].index ELSE nextIno
NewCx(b) == IF dir[b].cache # 0 THEN dir[b].cache ELSE nextIno + 1
CreatedIdx(b) == [i \in DOMAIN idx \cup {NewIx(b)} |->
                    IF i = NewIx(b) THEN FreshIndex ELSE idx[i]]
CreatedCache(b) == [i \in DOMAIN cache \cup {NewCx(b)} |->
                      IF i = NewCx(b) THEN 0 ELSE cache[i]]

(* mailbox_copyfile of index and cache from path s, after unlink() of the *)
(* destination names: link() shares the inodes; without it the bytes are  *)
(* copied into new inodes (numbers nextIno + 2 and + 3).                   *)
CopiedDir(s) == IF CanLink THEN dir[s]
                ELSE [index |-> nextIno + 2, cache |-> nextIno + 3]
CopiedIdx(base, s) == IF CanLink THEN base
                      ELSE base @@ (nextIno + 2 :> base[dir[s].index])
CopiedCache(base, s) == IF CanLink THEN base
                        ELSE base @@ (nextIno + 3 :> base[dir[s].cache])

(* The quota check of rename-copy and sync: only when the destination's   *)
(* root differs from the source's, and only when quota_read succeeded.     *)
QuotaExceeded(rs, rd, n) == rd # NoRoot /\ rd # rs /\ quota[rd] + n > Limit

-----------------------------------------------------------------------------
(* The lockstep walk of mailbox_sync is in MailboxSyncWalk.               *)

-----------------------------------------------------------------------------
Init ==
    /\ reg = {}
    /\ dir = [b \in Boxes |-> NoDir]
    /\ idx = <<>>
    /\ cache = <<>>
    /\ nextIno = 1
    /\ files = [b \in Boxes |-> {}]
    /\ quota = [r \in Roots |-> 0]
    /\ popLocked = {}
    /\ now = 1
    /\ pend = NoPend
    /\ done = [o \in Ops |-> 0]
    /\ kept = [b \in Boxes |-> {}]

(* The clock moves on.                                                     *)
Tick ==
    /\ now < MaxTime
    /\ now' = now + 1
    /\ UNCHANGED <<reg, dir, idx, cache, nextIno, files, quota,
                   popLocked, pend, done, kept>>

(* CREATE: mailbox_create at path b for a name the list does not hold.     *)
mailbox_create(b) ==
    /\ Idle /\ Budget("create") /\ Count("create")
    /\ Name(b) \notin {Name(x) : x \in reg}
    /\ idx' = CreatedIdx(b)
    /\ cache' = CreatedCache(b)
    /\ dir' = [dir EXCEPT ![b] = [index |-> NewIx(b), cache |-> NewCx(b)]]
    /\ nextIno' = nextIno + 2
    /\ reg' = reg \cup {b}
    /\ kept' = [kept EXCEPT ![b] = {}]
    /\ UNCHANGED <<files, quota, popLocked, now, pend>>

(* Mutant: the message file is named after the previous uid.              *)
Mut_append_fname(b) ==
    /\ Idle /\ Budget("append") /\ Count("append")
    /\ b \in reg
    /\ Ix(b).last_uid < MaxUid
    /\ LET u == Ix(b).last_uid + 1 IN
       /\ idx' = [idx EXCEPT ![dir[b].index] =
                    [@ EXCEPT !.uids = Append(@, u), !.last_uid = u,
                              !.used = @ + 1]]
       /\ files' = [files EXCEPT ![b] = @ \cup {u - 1}]
       /\ kept' = [kept EXCEPT ![b] = @ \cup {u}]
    /\ quota' = QuotaAdd(quota, Root(b), 1)
    /\ UNCHANGED <<reg, dir, cache, nextIno, popLocked, now, pend>>

(* APPEND of one message: the index inode at the path is rewritten in     *)
(* place, the "<uid>." file is made and the quota root charged.            *)
append(b) ==
    /\ Idle /\ Budget("append") /\ Count("append")
    /\ b \in reg
    /\ Ix(b).last_uid < MaxUid
    /\ LET u == Ix(b).last_uid + 1 IN
       /\ idx' = [idx EXCEPT ![dir[b].index] =
                    [@ EXCEPT !.uids = Append(@, u), !.last_uid = u,
                              !.used = @ + 1]]
       /\ files' = [files EXCEPT ![b] = @ \cup {u}]
       /\ kept' = [kept EXCEPT ![b] = @ \cup {u}]
    /\ quota' = QuotaAdd(quota, Root(b), 1)
    /\ UNCHANGED <<reg, dir, cache, nextIno, popLocked, now, pend>>

(* Mutants of the compaction: the new cache keeps the old generation; the *)
(* new index is written over the old inode instead of renamed; the        *)
(* expunged files are not unlinked.                                        *)
CompactedIndex(f, S) ==
    [f EXCEPT !.uids = SelectSeq(@, LAMBDA u : u \notin S),
              !.used = @ - Cardinality(S \cap Range(f.uids)), !.gen = @ + 1]
Mut_Compact_in_place(b, S) ==
    /\ idx' = [idx EXCEPT ![dir[b].index] = CompactedIndex(@, S)]
    /\ cache' = [cache EXCEPT ![dir[b].cache] = @ + 1]
    /\ UNCHANGED <<dir, nextIno>>
    /\ quota' = QuotaFree(quota, Root(b), Cardinality(S \cap Live(b)))
    /\ files' = [files EXCEPT ![b] = @ \ S]
    /\ kept' = [kept EXCEPT ![b] = @ \ S]
Mut_Compact_no_unlink(b, S) ==
    /\ idx' = idx @@ (nextIno :> CompactedIndex(Ix(b), S))
    /\ cache' = cache @@ (nextIno + 1 :> Ix(b).gen + 1)
    /\ dir' = [dir EXCEPT ![b] = [index |-> nextIno, cache |-> nextIno + 1]]
    /\ nextIno' = nextIno + 2
    /\ quota' = QuotaFree(quota, Root(b), Cardinality(S \cap Live(b)))
    /\ UNCHANGED files
    /\ kept' = [kept EXCEPT ![b] = @ \ S]

(* The effect of a successful mailbox_expunge of the uids S at path b: a  *)
(* new index and cache of generation + 1 renamed over the old names, the  *)
(* quota freed with the clamp, then the files of S unlinked.               *)
Compact(b, S) ==
    /\ idx' = idx @@ (nextIno :> CompactedIndex(Ix(b), S))
    /\ cache' = cache @@ (nextIno + 1 :> Ix(b).gen + 1)
    /\ dir' = [dir EXCEPT ![b] = [index |-> nextIno, cache |-> nextIno + 1]]
    /\ nextIno' = nextIno + 2
    /\ quota' = QuotaFree(quota, Root(b), Cardinality(S \cap Live(b)))
    /\ files' = [files EXCEPT ![b] = @ \ S]
    /\ kept' = [kept EXCEPT ![b] = @ \ S]

(* EXPUNGE: mailbox_expunge fails with IMAP_MAILBOX_POPLOCKED when a POP  *)
(* session holds the lock on the cache file.                               *)
mailbox_expunge(b, S) ==
    /\ Idle /\ Budget("expunge") /\ Count("expunge")
    /\ b \in reg
    /\ \/ /\ dir[b].cache \in popLocked
          /\ UNCHANGED <<dir, idx, cache, nextIno, quota, files, kept>>
       \/ /\ dir[b].cache \notin popLocked
          /\ Compact(b, S)
    /\ UNCHANGED <<reg, popLocked, now, pend>>

(* A POP session locks the cache file it opened, nonblocking.              *)
PopOpen(b) ==
    /\ Idle /\ Budget("pop") /\ Count("pop")
    /\ b \in reg
    /\ dir[b].cache \notin popLocked
    /\ popLocked' = popLocked \cup {dir[b].cache}
    /\ UNCHANGED <<reg, dir, idx, cache, nextIno, files, quota, now,
                   pend, kept>>

PopClose(c) ==
    /\ c \in popLocked
    /\ popLocked' = popLocked \ {c}
    /\ UNCHANGED <<reg, dir, idx, cache, nextIno, files, quota, now,
                   pend, done, kept>>

(* Mutant: the files go but the mailbox stays in the list.                *)
Mut_Delete_keep_reg(b) ==
    /\ quota' = QuotaFree(quota, Root(b), Ix(b).used)
    /\ reg' = reg
    /\ dir' = [dir EXCEPT ![b] = NoDir]
    /\ files' = [files EXCEPT ![b] = {}]
    /\ kept' = [kept EXCEPT ![b] = {}]

(* The effect of mailbox_delete(b, 0): quota_mailbox_used freed with the  *)
(* clamp (a failed quota_write only logs LOSTQUOTA), every file in the     *)
(* directory unlinked.  Other links to its inodes keep them alive.         *)
Delete(b) ==
    /\ \/ quota' = QuotaFree(quota, Root(b), Ix(b).used)
       \/ LostQuota /\ quota' = quota
    /\ reg' = reg \ {b}
    /\ dir' = [dir EXCEPT ![b] = NoDir]
    /\ files' = [files EXCEPT ![b] = {}]
    /\ kept' = [kept EXCEPT ![b] = {}]

(* DELETE of a mailbox.  mailbox_delete has no POP lock check.             *)
mailbox_delete(b) ==
    /\ Idle /\ Budget("delete") /\ Count("delete")
    /\ b \in reg
    /\ Delete(b)
    /\ UNCHANGED <<idx, cache, nextIno, popLocked, now, pend>>

(* A name a new mailbox at another path may take: a free one, or the      *)
(* source's own name when the mailbox moves between partitions.            *)
FreeName(d, s) == Name(d) = Name(s) \/ Name(d) \notin {Name(x) : x \in reg}

(* RENAME, first half: mailbox_rename_copy of the mailbox at s to a new   *)
(* mailbox at path d.  mailbox_create at d; when the quota roots differ  *)
(* and the destination root cannot take quota_mailbox_used, fail with the  *)
(* created files left; else unlink and mailbox_copyfile the index and      *)
(* cache, rewrite the header through dup() of the source's index fd, link  *)
(* the message files, seen_copy and charge the destination root.  When a  *)
(* message copy, seen_copy or quota_write fails, only the message files    *)
(* are unlinked again.  The records and quota_mailbox_used are the         *)
(* source's in-memory ones, read before the create.                        *)
mailbox_rename_copy(s, d) ==
    /\ Idle /\ Budget("rename") /\ Count("rename")
    /\ s \in reg /\ d \notin reg /\ d # s
    /\ FreeName(d, s)
    /\ Name(s) = Inbox => Name(d) # Inbox
    /\ LET cIdx == CreatedIdx(d)
           cCache == CreatedCache(d)
           rd == Root(d)
       IN /\ nextIno' = nextIno + 4
          /\ \/ /\ QuotaExceeded(Root(s), rd, Ix(s).used)
                /\ idx' = cIdx
                /\ cache' = cCache
                /\ dir' = [dir EXCEPT ![d] = [index |-> NewIx(d), cache |-> NewCx(d)]]
                /\ UNCHANGED <<reg, files, quota, pend, kept>>
             \/ /\ ~QuotaExceeded(Root(s), rd, Ix(s).used)
                /\ idx' = CopiedIdx(cIdx, s)
                /\ cache' = CopiedCache(cCache, s)
                /\ dir' = [dir EXCEPT ![d] = CopiedDir(s)]
                /\ \/ /\ files' = [files EXCEPT ![d] = @ \cup Live(s)]
                      /\ quota' = QuotaAdd(quota, rd, Ix(s).used)
                      /\ reg' = reg \cup {d}
                      /\ pend' = [src |-> s, dst |-> d,
                                  isinbox |-> Name(s) = Inbox]
                      /\ kept' = [kept EXCEPT ![d] = kept[s]]
                   \/ /\ IOFail
                      /\ files' = [files EXCEPT ![d] = @ \ Live(s)]
                      /\ UNCHANGED <<reg, quota, pend, kept>>
    /\ UNCHANGED <<popLocked, now>>

(* RENAME, second half: mailbox_rename_cleanup.  For INBOX every message  *)
(* is expunged (which fails, only logged as "potential leaked space",      *)
(* when a POP session holds the lock); any other source is deleted.        *)
mailbox_rename_cleanup ==
    /\ pend # NoPend
    /\ LET s == pend.src IN
       IF pend.isinbox
       THEN /\ \/ /\ dir[s].cache \in popLocked
                  /\ UNCHANGED <<dir, idx, cache, nextIno, quota, files, kept>>
               \/ /\ dir[s].cache \notin popLocked
                  /\ Compact(s, Live(s))
            /\ UNCHANGED reg
       ELSE /\ Delete(s)
            /\ UNCHANGED <<idx, cache, nextIno>>
    /\ pend' = NoPend
    /\ UNCHANGED <<popLocked, now, done>>

(* SYNC: mailbox_sync of the master at m to the slave at sl, created      *)
(* there (docreate) or already a mailbox.  The quota check is the one of  *)
(* rename-copy; the lockstep walk unlinks the slave files it passes and    *)
(* links the master files past the slave's records; then the index and     *)
(* cache are unlinked and copied with mailbox_copyfile, and the slave's    *)
(* root is charged the master's quota_mailbox_used.  With IOFail, a        *)
(* message copy may fail at master uid u (the walk breaks there, having    *)
(* unlinked and copied what lies below u), seen_copy may fail after the    *)
(* whole walk (u = SyncEnd), both before the index and cache are touched;  *)
(* and quota_write may fail after the index and cache were copied.  Each   *)
(* failure closes both mailboxes and returns the error.                    *)
SyncEnd == MaxUid + 1
WalkUpTo(w, u) == <<{c \in w[1] : c < u}, {x \in w[2] : x < u}>>
mailbox_sync(m, sl) ==
    /\ Idle /\ Budget("sync") /\ Count("sync")
    /\ m \in reg /\ sl # m
    /\ sl \notin reg => FreeName(sl, m)
    /\ LET docreate == sl \notin reg
           bIdx == IF docreate THEN CreatedIdx(sl) ELSE idx
           bCache == IF docreate THEN CreatedCache(sl) ELSE cache
           bDir == IF docreate THEN [index |-> NewIx(sl), cache |-> NewCx(sl)]
                   ELSE dir[sl]
           walk == SyncWalk(Ix(m).uids, bIdx[bDir.index].uids)
           rd == Root(sl)
           Walked(w) == files' = [files EXCEPT ![sl] = (@ \ w[2]) \cup w[1]]
       IN /\ nextIno' = nextIno + 4
          /\ \/ /\ QuotaExceeded(Root(m), rd, Ix(m).used)
                /\ idx' = bIdx
                /\ cache' = bCache
                /\ dir' = [dir EXCEPT ![sl] = bDir]
                /\ UNCHANGED <<reg, files, quota, kept>>
             \/ /\ ~QuotaExceeded(Root(m), rd, Ix(m).used)
                /\ IOFail
                /\ \E u \in walk[1] \cup {SyncEnd} : Walked(WalkUpTo(walk, u))
                /\ idx' = bIdx
                /\ cache' = bCache
                /\ dir' = [dir EXCEPT ![sl] = bDir]
                /\ UNCHANGED <<reg, quota, kept>>
             \/ /\ ~QuotaExceeded(Root(m), rd, Ix(m).used)
                /\ idx' = CopiedIdx(bIdx, m)
                /\ cache' = CopiedCache(bCache, m)
                /\ dir' = [dir EXCEPT ![sl] = CopiedDir(m)]
                /\ Walked(walk)
                /\ kept' = [kept EXCEPT ![sl] = kept[m]]
                /\ \/ /\ quota' = QuotaAdd(quota, rd, Ix(m).used)
                      /\ reg' = reg \cup {sl}
                   \/ /\ IOFail
                      /\ UNCHANGED <<reg, quota>>
    /\ UNCHANGED <<popLocked, now, pend>>

Work ==
    \/ Tick
    \/ \E b \in Boxes :
          \/ mailbox_create(b)
          \/ append(b)
          \/ b \in reg /\ \E S \in SUBSET Live(b) : mailbox_expunge(b, S)
          \/ PopOpen(b)
          \/ mailbox_delete(b)
    \/ \E c \in popLocked : PopClose(c)
    \/ \E s, d \in Boxes : mailbox_rename_copy(s, d)
    \/ mailbox_rename_cleanup
    \/ \E m, sl \in Boxes : mailbox_sync(m, sl)

(* Nothing in this model waits on anything: the only states without a     *)
(* step are those where the bounds are used up, and there it stops.        *)
Terminated == ~ENABLED Work /\ UNCHANGED vars

Next == Work \/ Terminated

Spec == Init /\ [][Next]_vars

-----------------------------------------------------------------------------
(* The state up to the numbering of inodes: what each path's files hold,  *)
(* which paths share an inode, and which locks POP sessions hold.  Every   *)
(* action reads inodes only through these, so two states with the same    *)
(* view have the same futures; TLC uses it as its VIEW.                    *)
IndexAt(b) == IF dir[b].index = 0 THEN <<>> ELSE idx[dir[b].index]
CacheAt(b) == IF dir[b].cache = 0 THEN -1 ELSE cache[dir[b].cache]
Sharing == {<<a, b>> \in Boxes \X Boxes :
               a # b /\ dir[a] # NoDir /\ (dir[a].index = dir[b].index \/ dir[a].cache = dir[b].cache)}
InodeView ==
    <<reg, files, quota, now, pend, done, kept, Sharing,
      [b \in Boxes |-> <<IndexAt(b), CacheAt(b), dir[b].cache \in popLocked>>],
      Cardinality(popLocked \ {dir[b].cache : b \in Boxes})>>

Index == [uids : Seq(Nat), last_uid : Nat, used : Nat, uidv : Nat, gen : Nat]

TypeOK ==
    /\ reg \subseteq Boxes
    /\ \A b \in reg : dir[b].index \in DOMAIN idx /\ dir[b].cache \in DOMAIN cache
    /\ \A i \in DOMAIN idx : idx[i] \in Index
    /\ files \in [Boxes -> SUBSET (1..MaxUid)]
    /\ quota \in [Roots -> Nat]
    /\ pend \in {NoPend} \cup [src : reg, dst : reg, isinbox : BOOLEAN]

(* Quota accounting (spec section 4.10): every quota root's used is the    *)
(* sum of quota_mailbox_used of the mailboxes under it, across appends,    *)
(* expunges, deletes, rename-copy with its cleanup, and sync.              *)
QuotaMatchesMailboxes ==
    \A r \in Roots :
        quota[r] = MapThenSumSet(LAMBDA b : Ix(b).used, {b \in reg : Root(b) = r})

(* A mailbox's index lists exactly the messages appended to it (or copied *)
(* into it by rename or sync) and not expunged: no operation on one        *)
(* mailbox makes messages appear in or vanish from another.                *)
IndexMatchesHistory ==
    \A b \in reg : Live(b) = kept[b]

(* I8 for every mailbox: each message the index lists has its file in the  *)
(* mailbox's directory.                                                     *)
LiveMessagesHaveFiles ==
    \A b \in reg : Live(b) \subseteq files[b]

(* No leaked space: every message file in a mailbox's directory is one    *)
(* its index lists, so the quota charged for the mailbox covers its files. *)
(* (Only a crash may leave orphans, for reconstruct to reclaim; there are *)
(* no crashes here.)                                                       *)
NoOrphanFiles ==
    \A b \in reg : files[b] \subseteq Live(b)

(* I6 for rename (spec section 9): after mailbox_rename_copy the           *)
(* destination keeps the source's uidvalidity exactly when the name is     *)
(* unchanged (a partition move), and has a new one otherwise.              *)
UidvalidityOnRename ==
    [][pend = NoPend /\ pend' # NoPend =>
         LET s == pend'.src
             d == pend'.dst
         IN (Name(d) = Name(s)) <=> (idx'[dir'[d].index].uidv = Ix(s).uidv)]_vars
====
