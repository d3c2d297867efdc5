---------------------------- MODULE MailboxStore ----------------------------
(***************************************************************************)
(* The on-disk state of one Cyrus mailbox (imap/mailbox.c) shared by       *)
(* several processes: the index file (header + fixed records), the cache   *)
(* file (generation prefix + one blob per message) and the message files   *)
(* "<uid>.".  Files are inodes reached through directory entries, so a     *)
(* process that opened a file keeps the old inode after a rename.  Locks   *)
(* are OS advisory locks on inodes (index lock, POP lock on the cache      *)
(* inode) plus the header lock.                                            *)
(*                                                                         *)
(* Each process runs one operation at a time through the same open/lock    *)
(* protocol the code uses:                                                 *)
(*   append  : lock header, open index+cache, lock index, write message    *)
(*             file and cache blob, mailbox_append_index, write header,    *)
(*             quota (imap/append.c, modelled from the spec);              *)
(*   expire  : cyr_expire's do_expire: lock header, open, lock index, then *)
(*             mailbox_expunge (POP lock, build .NEW files, quota, rename  *)
(*             index, rename cache, unlink message files, close);          *)
(*   expunge : a session with the mailbox open calls mailbox_expunge,      *)
(*             which locks header and index itself and unlocks before it   *)
(*             unlinks;                                                    *)
(*   store   : set \Deleted on a record with mailbox_write_index_record    *)
(*             and mailbox_write_index_header under the index lock only;   *)
(*   read    : mailbox_open_index and read records and their cache blobs   *)
(*             without a lock;                                             *)
(*   pop     : a POP session holding the POP lock (mailbox_lock_pop).      *)
(* A process may crash at any step: its locks are dropped by the OS, the   *)
(* files stay as they are.  A mailbox an earlier version wrote has an     *)
(* index of the old format, which the first mailbox_open_index rewrites    *)
(* (mailbox_upgrade_index).                                                *)
(***************************************************************************)
EXTENDS Integers, Sequences, FiniteSets, SequencesExt, FiniteSetsExt

CONSTANTS
    Procs,      \* processes that open the mailbox
    OpKinds,    \* the operations processes run (a subset of Ops)
    MaxAppend,  \* bound on appends
    MaxGen,     \* bound on compactions (mailbox_expunge runs)
    MaxStore,   \* bound on flag stores
    MaxPop,     \* bound on POP sessions
    MaxRecon,   \* bound on reconstruct runs
    MaxTries,   \* MAXTRIES of mailbox_open_index
    Sizes,      \* message sizes
    MaxCrash,   \* bound on process crashes
    CrashAt,    \* the steps at which a process may crash
    IOFail,     \* whether writes, renames and quota transactions may fail
    OldFormat,  \* the mailbox starts with an index of an earlier version
    None        \* no process

ASSUME MaxAppend \in Nat /\ MaxRecon \in Nat /\ MaxGen \in Nat /\ MaxStore \in Nat /\ MaxPop \in Nat
ASSUME MaxTries \in Nat /\ MaxCrash \in Nat /\ IOFail \in BOOLEAN /\ OldFormat \in BOOLEAN
ASSUME Sizes \subseteq Nat \ {0} /\ None \notin Procs /\ "idle" \notin CrashAt

VARIABLES
    dir,        \* directory entries: file name -> inode (0 = no file)
    idx,        \* index inodes: [hdr, recs]
    cache,      \* cache inodes: [gen, blobs]
    nextIno,    \* next free inode number
    msgfiles,   \* message files "<uid>.": uid -> size
    quota,      \* used bytes of the mailbox's quota root
    hlock,      \* holder of the header lock
    oslock,     \* inode -> holder of the advisory lock on it
    pc,         \* process -> step
    h,          \* process -> its struct mailbox handle and locals
    started,    \* operation kind -> number started (bounds the model)
    crashes,    \* number of crashes so far
    committed,  \* history: UIDs whose append committed its index header
    expunged    \* history: UIDs removed by a renamed index.NEW

vars == <<dir, idx, cache, nextIno, msgfiles, quota, hlock, oslock, pc, h,
          started, crashes, committed, expunged>>

NoFile == 0
FileNames == {"index", "cache", "index.NEW", "cache.NEW"}
Uids == Nat \ {0}
(* "expire" is cyr_expire's do_expire (header and index locked before     *)
(* mailbox_expunge, any expiry decision); "expunge" is a session that has  *)
(* the mailbox open and calls mailbox_expunge with the default decideproc  *)
(* (\Deleted records).                                                     *)
(* "reconstruct" is reconstruct.c's reconstruct() on this mailbox.         *)
Ops == {"append", "expire", "expunge", "store", "read", "pop", "reconstruct"}
ASSUME OpKinds \subseteq Ops
Budget(op) == IF op \in {"expire", "expunge"} THEN "compact" ELSE op
Bound == [append |-> MaxAppend, compact |-> MaxGen, store |-> MaxStore,
          pop |-> MaxPop, reconstruct |-> MaxRecon]

(* The index header fields of struct mailbox (mailbox.h) that matter here: *)
(* generation_no, exists, last_uid, quota_mailbox_used and the \Deleted    *)
(* counter (answered and flagged behave like deleted and are left out).    *)
(* The fields are bit32; mailbox_expunge subtracts from deleted without a *)
(* check, so it is an Int here and a negative n stands for 2^32 + n.       *)
(* old: a header of an earlier minor version, without pop3_new_uidl or    *)
(* leaked_cache_records or with records below INDEX_RECORD_SIZE, which     *)
(* mailbox_read_index_header upgrades.  (One without the flag counters     *)
(* has them counted first by mailbox_calculate_flagcounts, under the same  *)
(* three locks the upgrade takes; that pass is not modelled separately.)   *)
Hdr == [gen: Nat, exists: Nat, last_uid: Nat, used: Nat, deleted: Int,
        old: BOOLEAN]
(* struct index_record: uid, size, the \Deleted system flag, cache_offset  *)
(* (a blob position instead of a byte offset).                             *)
Rec == [uid: Uids, size: Sizes, flag: BOOLEAN, coff: Nat]

NoHdr == [gen |-> 0, exists |-> 0, last_uid |-> 0, used |-> 0, deleted |-> 0,
          old |-> FALSE]
NullHandle == [op |-> "none", ifd |-> NoFile, cfd |-> NoFile, tries |-> 0,
               relock |-> FALSE, snap |-> NoHdr, uid |-> 0, size |-> 0,
               coff |-> 0, gone |-> {}, freed |-> 0, released |-> FALSE,
               slot |-> 0, upg |-> FALSE, uhdr |-> FALSE]
(* upg: inside mailbox_upgrade_index; uhdr: its mailbox_lock_header took  *)
(* the lock (header_lock_count was 0), so its unlock drops it.             *)

LiveRecs(f) == SubSeq(f.recs, 1, f.hdr.exists)
LiveUids(f) == {LiveRecs(f)[i].uid : i \in DOMAIN LiveRecs(f)}
CurIndex == idx[dir["index"]]
CurCache == cache[dir["cache"]]
(* The uid of the blob at position k, or 0 when k points past the end:     *)
(* CACHE_ITEM_NEXT on a bad offset reads garbage.                          *)
BlobAt(c, k) == IF k \in 1..Len(c.blobs) THEN c.blobs[k] ELSE 0
(* unlink() of the message files of the given uids.                       *)
RemoveFiles(files, us) == [u \in DOMAIN files \ us |-> files[u]]
(* retry_write at a record offset: overwrite, or extend the file by one.   *)
WriteAt(s, i, e) == IF i <= Len(s) THEN [s EXCEPT ![i] = e] ELSE Append(s, e)

(* Dropping every OS lock of p: close() of its fds, or process death.      *)
ReleaseAll(p) ==
    /\ oslock' = [i \in DOMAIN oslock |-> IF oslock[i] = p THEN None ELSE oslock[i]]
    /\ hlock' = IF hlock = p THEN None ELSE hlock

(* mailbox_close after the operation, or an error return: unlock, idle.    *)
Finish(p) ==
    /\ ReleaseAll(p)
    /\ pc' = [pc EXCEPT ![p] = "idle"]
    /\ h' = [h EXCEPT ![p] = NullHandle]

AfterOpen(op) ==
    CASE op = "read"    -> "readRecords"
      [] op = "pop"     -> "lockPop"
      [] op = "expunge" -> "lockHeader"
      [] OTHER          -> "lockIndex"
AfterIndexLock(op) ==
    CASE op = "append"      -> "appCache"
      [] op = "store"       -> "storeRecord"
      [] op = "reconstruct" -> "recBuild"
      [] OTHER         -> "lockPop"

(* Where mailbox_read_index_header goes after reading the header of f:   *)
(* an old format starts mailbox_upgrade_index; a reopen inside            *)
(* mailbox_lock_index_for_upgrade returns to its lock loop.                *)
AfterHeader(p, f, next) ==
    CASE f.hdr.old -> "upgLockHeader"
      [] h[p].upg  -> "upgLockIndex"
      [] OTHER     -> next

-----------------------------------------------------------------------------
(* mailbox_create's empty index and cache of generation 0; or, with       *)
(* OldFormat, a mailbox an earlier version wrote, holding message 1 with   *)
(* or without \Deleted.                                                    *)
OldMailbox(fl) ==
    [hdr |-> [gen |-> 0, exists |-> 1, last_uid |-> 1, used |-> Min(Sizes),
              deleted |-> IF fl THEN 1 ELSE 0, old |-> TRUE],
     recs |-> <<[uid |-> 1, size |-> Min(Sizes), flag |-> fl, coff |-> 1]>>]
Init ==
    /\ dir = [f \in FileNames |-> CASE f = "index" -> 1
                                    [] f = "cache" -> 2
                                    [] OTHER -> NoFile]
    /\ IF OldFormat
       THEN /\ \E fl \in BOOLEAN : idx = (1 :> OldMailbox(fl))
            /\ cache = (2 :> [gen |-> 0, blobs |-> <<1>>])
            /\ msgfiles = (1 :> Min(Sizes))
            /\ quota = Min(Sizes)
            /\ committed = {1}
       ELSE /\ idx = (1 :> [hdr |-> NoHdr, recs |-> <<>>])
            /\ cache = (2 :> [gen |-> 0, blobs |-> <<>>])
            /\ msgfiles = <<>>
            /\ quota = 0
            /\ committed = {}
    /\ nextIno = 3
    /\ hlock = None
    /\ oslock = [i \in 1..2 |-> None]
    /\ pc = [p \in Procs |-> "idle"]
    /\ h = [p \in Procs |-> NullHandle]
    /\ started = [o \in DOMAIN Bound |-> 0]
    /\ crashes = 0
    /\ expunged = {}

(* A caller opens the mailbox for one operation.                           *)
Begin(p) ==
    /\ pc[p] = "idle"
    /\ \E op \in OpKinds :
        /\ Budget(op) \in DOMAIN Bound => started[Budget(op)] < Bound[Budget(op)]
        /\ started' = IF Budget(op) \in DOMAIN Bound
                      THEN [started EXCEPT ![Budget(op)] = @ + 1] ELSE started
        /\ h' = [h EXCEPT ![p] = [NullHandle EXCEPT !.op = op]]
        /\ pc' = [pc EXCEPT ![p] = IF op \in {"append", "expire", "reconstruct"}
                                   THEN "lockHeader" ELSE "openIndex"]
    /\ UNCHANGED <<dir, idx, cache, nextIno, msgfiles, quota, hlock, oslock,
                   crashes, committed, expunged>>

(* mailbox_lock_header: blocking lock; the header file is not rewritten    *)
(* here, so the inode check never rereads it.  Callers that lock before    *)
(* opening the index go on to open it; mailbox_expunge goes on to lock the *)
(* index.                                                                  *)
mailbox_lock_header(p) ==
    /\ pc[p] = "lockHeader"
    /\ hlock = None
    /\ hlock' = p
    /\ pc' = [pc EXCEPT ![p] = IF h[p].ifd = NoFile THEN "openIndex"
                                                    ELSE "lockIndex"]
    /\ UNCHANGED <<dir, idx, cache, nextIno, msgfiles, quota, oslock, h,
                   started, crashes, committed, expunged>>

(* mailbox_open_index, first half: open and map the index file.  In       *)
(* reconstruct mode the loop breaks here without opening the cache, and    *)
(* mailbox_read_index_header takes the generation from the index alone.    *)
mailbox_open_index(p) ==
    /\ pc[p] = "openIndex"
    /\ IF h[p].op = "reconstruct"
       THEN /\ h' = [h EXCEPT ![p].ifd = dir["index"],
                              ![p].snap = idx[dir["index"]].hdr,
                              ![p].relock = FALSE]
            /\ pc' = [pc EXCEPT ![p] = AfterHeader(p, idx[dir["index"]],
                                                    "lockIndex")]
       ELSE /\ h' = [h EXCEPT ![p].ifd = dir["index"]]
            /\ pc' = [pc EXCEPT ![p] = "openCache"]
    /\ UNCHANGED <<dir, idx, cache, nextIno, msgfiles, quota, hlock, oslock,
                   started, crashes, committed, expunged>>

(* Mutant: the generation numbers are not compared.                        *)
Mut_open_cache_nogen(p) ==
    /\ pc[p] = "openCache"
    /\ h' = [h EXCEPT ![p].cfd = dir["cache"], ![p].snap = idx[h[p].ifd].hdr,
                      ![p].relock = FALSE]
    /\ pc' = [pc EXCEPT ![p] = AfterHeader(p, idx[h[p].ifd],
                                 IF h[p].relock THEN "lockIndex"
                                 ELSE AfterOpen(h[p].op))]
    /\ UNCHANGED <<dir, idx, cache, nextIno, msgfiles, quota, hlock, oslock,
                   started, crashes, committed, expunged>>

(* mailbox_open_index, second half: open the cache file and compare the   *)
(* generation numbers; on a mismatch retry up to MAXTRIES times, then     *)
(* IMAP_MAILBOX_BADFORMAT.  On a match mailbox_read_index_header takes    *)
(* the header snapshot.  When called from mailbox_lock_index (relock) the *)
(* lock loop continues.  A failed reopen inside mailbox_lock_index returns *)
(* the error; cyr_expire ignores it, but the fds are closed by then, so    *)
(* mailbox_lock_pop fails (EBADF) and mailbox_expunge returns as well.     *)
mailbox_open_cache(p) ==
    /\ pc[p] = "openCache"
    /\ LET ig == idx[h[p].ifd].hdr.gen
           cg == cache[dir["cache"]].gen
       IN \/ /\ ig = cg
             /\ h' = [h EXCEPT ![p].cfd = dir["cache"],
                               ![p].snap = idx[h[p].ifd].hdr,
                               ![p].relock = FALSE]
             /\ pc' = [pc EXCEPT ![p] = AfterHeader(p, idx[h[p].ifd],
                                         IF h[p].relock THEN "lockIndex"
                                         ELSE AfterOpen(h[p].op))]
             /\ UNCHANGED <<hlock, oslock>>
          \/ /\ ig # cg
             /\ h[p].tries < MaxTries
             /\ h' = [h EXCEPT ![p].tries = @ + 1]
             /\ pc' = [pc EXCEPT ![p] = "openIndex"]
             /\ UNCHANGED <<hlock, oslock>>
          \/ /\ ig # cg
             /\ h[p].tries >= MaxTries
             /\ Finish(p)
    /\ UNCHANGED <<dir, idx, cache, nextIno, msgfiles, quota, started,
                   crashes, committed, expunged>>

(* Mutant: the locked fd is not compared with the path's inode.            *)
Mut_lock_index_noinode(p) ==
    /\ pc[p] = "lockIndex"
    /\ oslock[h[p].ifd] = None
    /\ oslock' = [oslock EXCEPT ![h[p].ifd] = p]
    /\ h' = [h EXCEPT ![p].snap = idx[h[p].ifd].hdr]
    /\ pc' = [pc EXCEPT ![p] = AfterIndexLock(h[p].op)]
    /\ UNCHANGED <<dir, idx, cache, nextIno, msgfiles, quota, hlock,
                   started, crashes, committed, expunged>>

(* Mutant: the lock loop never reopens, so it spins on the stale fd.     *)
Mut_lock_index_noreopen(p) ==
    /\ pc[p] = "lockIndex"
    /\ oslock[h[p].ifd] = None
    /\ \/ /\ dir["index"] = h[p].ifd
          /\ oslock' = [oslock EXCEPT ![h[p].ifd] = p]
          /\ h' = [h EXCEPT ![p].snap = idx[h[p].ifd].hdr]
          /\ pc' = [pc EXCEPT ![p] = AfterIndexLock(h[p].op)]
       \/ /\ dir["index"] # h[p].ifd
          /\ UNCHANGED <<oslock, h, pc>>
    /\ UNCHANGED <<dir, idx, cache, nextIno, msgfiles, quota, hlock,
                   started, crashes, committed, expunged>>

(* mailbox_lock_index: blocking lock on the open index fd, then compare    *)
(* its inode with the path's.  Same inode: reread the index header.        *)
(* Different inode (a compaction renamed a new index in): close and reopen *)
(* through mailbox_open_index, then lock again.                            *)
mailbox_lock_index(p) ==
    /\ pc[p] = "lockIndex"
    /\ oslock[h[p].ifd] = None
    /\ \/ /\ dir["index"] = h[p].ifd
          /\ oslock' = [oslock EXCEPT ![h[p].ifd] = p]
          /\ h' = [h EXCEPT ![p].snap = idx[h[p].ifd].hdr]
          /\ pc' = [pc EXCEPT ![p] = AfterIndexLock(h[p].op)]
       \/ /\ dir["index"] # h[p].ifd
          /\ UNCHANGED oslock
          /\ h' = [h EXCEPT ![p].relock = TRUE, ![p].tries = 0]
          /\ pc' = [pc EXCEPT ![p] = "openIndex"]
    /\ UNCHANGED <<dir, idx, cache, nextIno, msgfiles, quota, hlock,
                   started, crashes, committed, expunged>>

(* mailbox_lock_pop: nonblocking lock on the cache fd; a held lock is      *)
(* IMAP_MAILBOX_POPLOCKED and mailbox_expunge unlocks and returns.         *)
mailbox_lock_pop(p) ==
    /\ pc[p] = "lockPop"
    /\ \/ /\ oslock[h[p].cfd] = None
          /\ oslock' = [oslock EXCEPT ![h[p].cfd] = p]
          /\ pc' = [pc EXCEPT ![p] = IF h[p].op = "pop" THEN "popHold"
                                                         ELSE "expBuild"]
          /\ UNCHANGED <<hlock, h>>
       \/ /\ oslock[h[p].cfd] # None
          /\ Finish(p)
    /\ UNCHANGED <<dir, idx, cache, nextIno, msgfiles, quota, started,
                   crashes, committed, expunged>>

-----------------------------------------------------------------------------
(* mailbox_upgrade_index, called by mailbox_read_index_header for an old  *)
(* header: mailbox_lock_header (a no-op for a caller that holds it).      *)
upgrade_lock_header(p) ==
    /\ pc[p] = "upgLockHeader"
    /\ hlock \in {None, p}
    /\ hlock' = p
    /\ h' = [h EXCEPT ![p].upg = TRUE, ![p].uhdr = (hlock = None)]
    /\ pc' = [pc EXCEPT ![p] = "upgLockIndex"]
    /\ UNCHANGED <<dir, idx, cache, nextIno, msgfiles, quota, oslock,
                   started, crashes, committed, expunged>>

(* Mutant: the locked fd is not compared with the path's inode.            *)
Mut_lock_index_for_upgrade_noinode(p) ==
    /\ pc[p] = "upgLockIndex"
    /\ oslock[h[p].ifd] = None
    /\ oslock' = [oslock EXCEPT ![h[p].ifd] = p]
    /\ pc' = [pc EXCEPT ![p] = "upgLockPop"]
    /\ UNCHANGED <<dir, idx, cache, nextIno, msgfiles, quota, hlock, h,
                   started, crashes, committed, expunged>>

(* mailbox_lock_index_for_upgrade: blocking lock on the open index fd and *)
(* the inode check of mailbox_lock_index, but on the same inode the header *)
(* is NOT reread.  A different inode (another process upgraded or          *)
(* compacted in between) closes and reopens through mailbox_open_index,    *)
(* whose header read refreshes the snapshot, and loops.                    *)
mailbox_lock_index_for_upgrade(p) ==
    /\ pc[p] = "upgLockIndex"
    /\ oslock[h[p].ifd] = None
    /\ \/ /\ dir["index"] = h[p].ifd
          /\ oslock' = [oslock EXCEPT ![h[p].ifd] = p]
          /\ pc' = [pc EXCEPT ![p] = "upgLockPop"]
          /\ UNCHANGED h
       \/ /\ dir["index"] # h[p].ifd
          /\ UNCHANGED oslock
          /\ h' = [h EXCEPT ![p].tries = 0]
          /\ pc' = [pc EXCEPT ![p] = "openIndex"]
    /\ UNCHANGED <<dir, idx, cache, nextIno, msgfiles, quota, hlock,
                   started, crashes, committed, expunged>>

(* The unlocks of mailbox_upgrade_index: POP and index lock, and the       *)
(* header lock when the upgrade took it.                                   *)
UpgradeUnlock(p) ==
    /\ oslock' = [i \in DOMAIN oslock |->
                    IF i \in {h[p].ifd, h[p].cfd} /\ oslock[i] = p
                    THEN None ELSE oslock[i]]
    /\ hlock' = IF h[p].uhdr THEN None ELSE hlock

(* reconstruct when mailbox_open_index fails: exists, last_uid and        *)
(* last_appenddate 0, a new uidvalidity, pop3_new_uidl set; no index lock. *)
ReconstructDefaults(snap) == [snap EXCEPT !.exists = 0, !.last_uid = 0]

(* mailbox_lock_pop inside the upgrade.  A POP session's lock makes it     *)
(* return IMAP_MAILBOX_POPLOCKED; in reconstruct mode the cache was never  *)
(* opened (cache_fd = -1), so lock_nonblocking fails with EBADF and it     *)
(* returns IMAP_IOERROR.  Either way it unlocks and mailbox_open_index     *)
(* fails.  The caller closes; reconstruct instead takes exists = 0 and     *)
(* last_uid = 0 (a fresh uidvalidity) and goes on without the index lock. *)
upgrade_lock_pop(p) ==
    /\ pc[p] = "upgLockPop"
    /\ \/ /\ h[p].cfd # NoFile
          /\ oslock[h[p].cfd] = None
          /\ oslock' = [oslock EXCEPT ![h[p].cfd] = p]
          /\ pc' = [pc EXCEPT ![p] = "upgWrite"]
          /\ UNCHANGED <<hlock, h>>
       \/ /\ h[p].cfd # NoFile
          /\ oslock[h[p].cfd] # None
          /\ Finish(p)
       \/ /\ h[p].cfd = NoFile
          /\ UpgradeUnlock(p)
          /\ h' = [h EXCEPT ![p].upg = FALSE,
                            ![p].snap = ReconstructDefaults(@)]
          /\ pc' = [pc EXCEPT ![p] = "recBuild"]
    /\ UNCHANGED <<dir, idx, cache, nextIno, msgfiles, quota, started,
                   crashes, committed, expunged>>

(* Write index.NEW: a header of the current minor version built from the   *)
(* in-memory fields (the snapshot), then the records of msgno 1..exists    *)
(* copied from the mapped index and widened; fflush and fsync.  fopen "w+" *)
(* truncates an index.NEW a failed attempt left, in place.  A failed       *)
(* fopen, write or fsync goes to fail: unlock and IMAP_IOERROR.            *)
upgrade_write(p) ==
    /\ pc[p] = "upgWrite"
    /\ \/ LET reuse == dir["index.NEW"] # NoFile
             ni == IF reuse THEN dir["index.NEW"] ELSE nextIno
             new == [hdr |-> [h[p].snap EXCEPT !.old = FALSE],
                     recs |-> SubSeq(idx[h[p].ifd].recs, 1, h[p].snap.exists)]
          IN
          /\ idx' = [i \in DOMAIN idx \cup {ni} |-> IF i = ni THEN new ELSE idx[i]]
          /\ oslock' = IF reuse THEN oslock ELSE oslock @@ (ni :> None)
          /\ nextIno' = IF reuse THEN nextIno ELSE nextIno + 1
          /\ dir' = [dir EXCEPT !["index.NEW"] = ni]
          /\ pc' = [pc EXCEPT ![p] = "upgRename"]
          /\ UNCHANGED <<hlock, h>>
       \/ /\ IOFail
          /\ Finish(p)
          /\ UNCHANGED <<dir, idx, nextIno>>
    /\ UNCHANGED <<cache, msgfiles, quota, started, crashes, committed,
                   expunged>>

(* rename(index.NEW, index), unlock, and mailbox_read_index_header returns *)
(* a fresh mailbox_open_index ("things might have been changed out from    *)
(* under us").  A failed rename goes to fail.                              *)
upgrade_rename(p) ==
    /\ pc[p] = "upgRename"
    /\ \/ /\ dir' = [dir EXCEPT !["index"] = dir["index.NEW"],
                                !["index.NEW"] = NoFile]
          /\ UpgradeUnlock(p)
          /\ h' = [h EXCEPT ![p].upg = FALSE, ![p].uhdr = FALSE,
                            ![p].tries = 0]
          /\ pc' = [pc EXCEPT ![p] = "openIndex"]
       \/ /\ IOFail
          /\ Finish(p)
          /\ UNCHANGED dir
    /\ UNCHANGED <<idx, cache, nextIno, msgfiles, quota, started, crashes,
                   committed, expunged>>

(* Mutant: the new uid is numbered from exists instead of last_uid.       *)
Mut_append_uid_from_exists(p) ==
    /\ pc[p] = "appCache"
    /\ \E sz \in Sizes :
        /\ h' = [h EXCEPT ![p].uid = h[p].snap.exists + 1, ![p].size = sz,
                          ![p].coff = Len(cache[h[p].cfd].blobs) + 1]
        /\ msgfiles' = [u \in DOMAIN msgfiles \cup {h[p].snap.exists + 1} |->
                          IF u = h[p].snap.exists + 1 THEN sz ELSE msgfiles[u]]
    /\ cache' = [cache EXCEPT ![h[p].cfd].blobs =
                                 Append(@, h[p].snap.exists + 1)]
    /\ pc' = [pc EXCEPT ![p] = "appIndex"]
    /\ UNCHANGED <<dir, idx, nextIno, quota, hlock, oslock, started,
                   crashes, committed, expunged>>

-----------------------------------------------------------------------------
(* Append (imap/append.c, modelled from the spec): with header and index   *)
(* locked, write the message file "<uid>." and append its cache blob at    *)
(* the end of the open cache file, for uid = last_uid + 1.                 *)
append_cache(p) ==
    /\ pc[p] = "appCache"
    /\ \E sz \in Sizes :
        /\ h' = [h EXCEPT ![p].uid = h[p].snap.last_uid + 1, ![p].size = sz,
                          ![p].coff = Len(cache[h[p].cfd].blobs) + 1]
        /\ msgfiles' = [u \in DOMAIN msgfiles \cup {h[p].snap.last_uid + 1} |->
                          IF u = h[p].snap.last_uid + 1 THEN sz ELSE msgfiles[u]]
    /\ cache' = [cache EXCEPT ![h[p].cfd].blobs =
                                 Append(@, h[p].snap.last_uid + 1)]
    /\ pc' = [pc EXCEPT ![p] = "appIndex"]
    /\ UNCHANGED <<dir, idx, nextIno, quota, hlock, oslock, started,
                   crashes, committed, expunged>>

(* mailbox_append_index: write the record at start_offset + exists *       *)
(* record_size.  A failed write truncates the index back to that offset;   *)
(* the caller (append_abort) then removes the message file; the cache blob *)
(* stays behind as a leaked record.                                        *)
mailbox_append_index(p) ==
    /\ pc[p] = "appIndex"
    /\ LET i == h[p].ifd
           n == h[p].snap.exists
           r == [uid |-> h[p].uid, size |-> h[p].size, flag |-> FALSE,
                 coff |-> h[p].coff]
       IN \/ /\ idx' = [idx EXCEPT ![i].recs = WriteAt(@, n + 1, r)]
             /\ pc' = [pc EXCEPT ![p] = "appHeader"]
             /\ UNCHANGED <<msgfiles, hlock, oslock, h>>
          \/ /\ IOFail
             /\ idx' = [idx EXCEPT ![i].recs = SubSeq(@, 1, n)]
             /\ msgfiles' = RemoveFiles(msgfiles, {h[p].uid})
             /\ Finish(p)
    /\ UNCHANGED <<dir, cache, nextIno, quota, started, crashes, committed,
                   expunged>>

(* Mutant: the new last_uid is not stored in the header.                  *)
Mut_append_header_no_last_uid(p) ==
    /\ pc[p] = "appHeader"
    /\ LET s2 == [h[p].snap EXCEPT !.exists = @ + 1, !.used = @ + h[p].size]
       IN /\ idx' = [idx EXCEPT ![h[p].ifd].hdr = s2]
          /\ h' = [h EXCEPT ![p].snap = s2]
    /\ committed' = committed \cup {h[p].uid}
    /\ pc' = [pc EXCEPT ![p] = "appQuota"]
    /\ UNCHANGED <<dir, cache, nextIno, msgfiles, quota, hlock, oslock,
                   started, crashes, expunged>>

(* mailbox_write_index_header with the counters append_commit has raised: *)
(* exists + 1, last_uid, quota_mailbox_used + size.  This write commits    *)
(* the message.                                                            *)
append_write_header(p) ==
    /\ pc[p] = "appHeader"
    /\ LET s == h[p].snap
           s2 == [s EXCEPT !.exists = @ + 1, !.last_uid = h[p].uid,
                           !.used = @ + h[p].size]
       IN /\ idx' = [idx EXCEPT ![h[p].ifd].hdr = s2]
          /\ h' = [h EXCEPT ![p].snap = s2]
    /\ committed' = committed \cup {h[p].uid}
    /\ pc' = [pc EXCEPT ![p] = "appQuota"]
    /\ UNCHANGED <<dir, cache, nextIno, msgfiles, quota, hlock, oslock,
                   started, crashes, expunged>>

(* append_commit: add the message size to the quota root, then            *)
(* mailbox_close releases the locks.                                       *)
append_quota(p) ==
    /\ pc[p] = "appQuota"
    /\ quota' = quota + h[p].size
    /\ Finish(p)
    /\ UNCHANGED <<dir, idx, cache, nextIno, msgfiles, started, crashes,
                   committed, expunged>>

-----------------------------------------------------------------------------
(* Flag store (imap/index.c, modelled from the spec): under the index lock *)
(* set \Deleted on one live record with mailbox_write_index_record ...     *)
mailbox_write_index_record(p) ==
    /\ pc[p] = "storeRecord"
    /\ \E m \in 1..h[p].snap.exists :
        /\ ~idx[h[p].ifd].recs[m].flag
        /\ idx' = [idx EXCEPT ![h[p].ifd].recs[m].flag = TRUE]
        /\ h' = [h EXCEPT ![p].slot = m]
    /\ pc' = [pc EXCEPT ![p] = "storeHeader"]
    /\ UNCHANGED <<dir, cache, nextIno, msgfiles, quota, hlock, oslock,
                   started, crashes, committed, expunged>>

(* ... then raise the deleted counter of the snapshot and write it back    *)
(* with mailbox_write_index_header, and close.                             *)
mailbox_write_index_header(p) ==
    /\ pc[p] = "storeHeader"
    /\ idx' = [idx EXCEPT ![h[p].ifd].hdr =
                              [h[p].snap EXCEPT !.deleted = @ + 1]]
    /\ Finish(p)
    /\ UNCHANGED <<dir, cache, nextIno, msgfiles, quota, started, crashes,
                   committed, expunged>>

(* A store that finds nothing to flag closes again.                        *)
store_nothing(p) ==
    /\ pc[p] = "storeRecord"
    /\ \A m \in 1..h[p].snap.exists : idx[h[p].ifd].recs[m].flag
    /\ Finish(p)
    /\ UNCHANGED <<dir, idx, cache, nextIno, msgfiles, quota, started,
                   crashes, committed, expunged>>

-----------------------------------------------------------------------------
(* A reader (index_fetch over mailbox_read_index_record and the cache      *)
(* mapping) uses what it opened, without a lock, and closes.               *)
read_records(p) ==
    /\ pc[p] = "readRecords"
    /\ Finish(p)
    /\ UNCHANGED <<dir, idx, cache, nextIno, msgfiles, quota, started,
                   crashes, committed, expunged>>

(* A POP session ends and mailbox_close drops the POP lock.                *)
pop_close(p) ==
    /\ pc[p] = "popHold"
    /\ Finish(p)
    /\ UNCHANGED <<dir, idx, cache, nextIno, msgfiles, quota, started,
                   crashes, committed, expunged>>

(* The process dies at a step of CrashAt: the OS drops its locks, files    *)
(* remain.                                                                 *)
Crash(p) ==
    /\ pc[p] \in CrashAt
    /\ crashes < MaxCrash
    /\ crashes' = crashes + 1
    /\ Finish(p)
    /\ UNCHANGED <<dir, idx, cache, nextIno, msgfiles, quota, started,
                   committed, expunged>>

-----------------------------------------------------------------------------
(* mailbox_expunge, lines up to the fsync: create index.NEW and cache.NEW  *)
(* (generation + 1 in both), copy the header from the mapped index, and    *)
(* for msgno 1..mailbox->exists either drop the record (decideproc, or the *)
(* \Deleted flag by default), remembering its uid and size and its flag,   *)
(* or copy it with cache_offset rewritten to its blob in cache.NEW.  Then  *)
(* exists, deleted and quota_mailbox_used are lowered in the new header    *)
(* and both files are fsynced; a write or fsync error goes to fail.        *)
ExpungeSets(p, live) ==
    IF h[p].op = "expunge"
    THEN {{m \in DOMAIN live : live[m].flag}}
    ELSE SUBSET DOMAIN live

(* Mutant of the build step: MutDeleted chooses the deleted decrement,     *)
(* MutCacheGen the generation written to cache.NEW and MutUnlink whether   *)
(* the message files are unlinked already here.                            *)
MutExpungeBuild(p, MutDeleted(_, _), MutCacheGen(_), MutUnlink) ==
    /\ pc[p] = "expBuild"
    /\ LET f == idx[h[p].ifd]
           c == cache[h[p].cfd]
           live == SubSeq(f.recs, 1, h[p].snap.exists)
       IN \E gone \in ExpungeSets(p, live) :
          LET keep == SetToSortSeq(DOMAIN live \ gone, <)
              recs == [j \in DOMAIN keep |-> [live[keep[j]] EXCEPT !.coff = j]]
              blobs == [j \in DOMAIN keep |-> BlobAt(c, live[keep[j]].coff)]
              freed == MapThenSumSet(LAMBDA m : live[m].size, gone)
              hdr == [f.hdr EXCEPT !.gen = h[p].snap.gen + 1,
                                   !.exists = @ - Cardinality(gone),
                                   !.deleted = @ - MutDeleted(live, gone),
                                   !.used = @ - freed]
          IN /\ idx' = idx @@ (nextIno :> [hdr |-> hdr, recs |-> recs])
             /\ cache' = cache @@ (nextIno + 1 :> [gen |-> MutCacheGen(hdr.gen),
                                                   blobs |-> blobs])
             /\ oslock' = oslock @@ (nextIno :> None) @@ (nextIno + 1 :> None)
             /\ nextIno' = nextIno + 2
             /\ dir' = [dir EXCEPT !["index.NEW"] = nextIno,
                                   !["cache.NEW"] = nextIno + 1]
             /\ h' = [h EXCEPT ![p].gone = {live[m].uid : m \in gone},
                               ![p].freed = freed]
             /\ msgfiles' = IF MutUnlink
                            THEN RemoveFiles(msgfiles, {live[m].uid : m \in gone})
                            ELSE msgfiles
             /\ pc' = [pc EXCEPT ![p] = "expQuota"]
    /\ UNCHANGED <<hlock, quota, started, crashes, committed, expunged>>

(* Mutant: the deleted counter drops by every expunged record, \Deleted   *)
(* or not (numdeleted for numdeletedflag).                                 *)
Mut_expunge_deleted_count(p) ==
    MutExpungeBuild(p, LAMBDA live, gone : Cardinality(gone),
                    LAMBDA g : g, FALSE)
(* Mutant: message files are unlinked before the index is renamed.         *)
Mut_expunge_unlink_early(p) ==
    MutExpungeBuild(p, LAMBDA live, gone : Cardinality({m \in gone : live[m].flag}),
                    LAMBDA g : g, TRUE)

(* Mutant: the records copied into index.NEW lose their system flags.   *)
Mut_expunge_drop_flags(p) ==
    /\ pc[p] = "expBuild"
    /\ LET f == idx[h[p].ifd]
           c == cache[h[p].cfd]
           live == SubSeq(f.recs, 1, h[p].snap.exists)
       IN \E gone \in ExpungeSets(p, live) :
          LET keep == SetToSortSeq(DOMAIN live \ gone, <)
              recs == [j \in DOMAIN keep |-> [live[keep[j]] EXCEPT !.coff = j, !.flag = FALSE]]
              blobs == [j \in DOMAIN keep |-> BlobAt(c, live[keep[j]].coff)]
              ndel == Cardinality({m \in gone : live[m].flag})
              freed == MapThenSumSet(LAMBDA m : live[m].size, gone)
              hdr == [f.hdr EXCEPT !.gen = h[p].snap.gen + 1,
                                   !.exists = @ - Cardinality(gone),
                                   !.deleted = @ - ndel,
                                   !.used = @ - freed]
              ni == nextIno
              nc == nextIno + 1
          IN \/ /\ idx' = idx @@ (ni :> [hdr |-> hdr, recs |-> recs])
                /\ cache' = cache @@ (nc :> [gen |-> hdr.gen, blobs |-> blobs])
                /\ oslock' = oslock @@ (ni :> None) @@ (nc :> None)
                /\ nextIno' = nextIno + 2
                /\ dir' = [dir EXCEPT !["index.NEW"] = ni, !["cache.NEW"] = nc]
                /\ h' = [h EXCEPT ![p].gone = {live[m].uid : m \in gone},
                                  ![p].freed = freed]
                /\ pc' = [pc EXCEPT ![p] = "expQuota"]
                /\ UNCHANGED hlock
             \/ /\ IOFail
                /\ Finish(p)
                /\ UNCHANGED <<dir, idx, cache, nextIno>>
    /\ UNCHANGED <<msgfiles, quota, started, crashes, committed, expunged>>

mailbox_expunge_build(p) ==
    /\ pc[p] = "expBuild"
    /\ LET f == idx[h[p].ifd]
           c == cache[h[p].cfd]
           live == SubSeq(f.recs, 1, h[p].snap.exists)
       IN \E gone \in ExpungeSets(p, live) :
          LET keep == SetToSortSeq(DOMAIN live \ gone, <)
              recs == [j \in DOMAIN keep |-> [live[keep[j]] EXCEPT !.coff = j]]
              blobs == [j \in DOMAIN keep |-> BlobAt(c, live[keep[j]].coff)]
              ndel == Cardinality({m \in gone : live[m].flag})
              freed == MapThenSumSet(LAMBDA m : live[m].size, gone)
              hdr == [f.hdr EXCEPT !.gen = h[p].snap.gen + 1,
                                   !.exists = @ - Cardinality(gone),
                                   !.deleted = @ - ndel,
                                   !.used = @ - freed]
              ni == nextIno
              nc == nextIno + 1
          IN \/ /\ idx' = idx @@ (ni :> [hdr |-> hdr, recs |-> recs])
                /\ cache' = cache @@ (nc :> [gen |-> hdr.gen, blobs |-> blobs])
                /\ oslock' = oslock @@ (ni :> None) @@ (nc :> None)
                /\ nextIno' = nextIno + 2
                /\ dir' = [dir EXCEPT !["index.NEW"] = ni, !["cache.NEW"] = nc]
                /\ h' = [h EXCEPT ![p].gone = {live[m].uid : m \in gone},
                                  ![p].freed = freed]
                /\ pc' = [pc EXCEPT ![p] = "expQuota"]
                /\ UNCHANGED hlock
             \/ /\ IOFail
                /\ Finish(p)
                /\ UNCHANGED <<dir, idx, cache, nextIno>>
    /\ UNCHANGED <<msgfiles, quota, started, crashes, committed, expunged>>

(* Mutant: the release subtracts without the clamp at zero.               *)
Mut_expunge_quota_noclamp(p) ==
    /\ pc[p] = "expQuota"
    /\ quota' = quota - h[p].freed
    /\ h' = [h EXCEPT ![p].released = TRUE]
    /\ pc' = [pc EXCEPT ![p] = "expRenameIndex"]
    /\ UNCHANGED <<dir, idx, cache, nextIno, msgfiles, hlock, oslock,
                   started, crashes, committed, expunged>>

(* Mutant: the release counts messages instead of bytes.                   *)
Mut_expunge_quota_count(p) ==
    /\ pc[p] = "expQuota"
    /\ quota' = IF quota >= Cardinality(h[p].gone)
                THEN quota - Cardinality(h[p].gone) ELSE 0
    /\ h' = [h EXCEPT ![p].released = TRUE]
    /\ pc' = [pc EXCEPT ![p] = "expRenameIndex"]
    /\ UNCHANGED <<dir, idx, cache, nextIno, msgfiles, hlock, oslock,
                   started, crashes, committed, expunged>>

(* Record quota release: quota_read, subtract (clamped at 0), quota_write, *)
(* quota_commit.  A failed write only logs LOSTQUOTA and goes on; a failed *)
(* read goes to fail (the quota root exists here).                         *)
mailbox_expunge_quota(p) ==
    /\ pc[p] = "expQuota"
    /\ \/ /\ quota' = IF quota >= h[p].freed THEN quota - h[p].freed ELSE 0
          /\ h' = [h EXCEPT ![p].released = TRUE]
          /\ pc' = [pc EXCEPT ![p] = "expRenameIndex"]
          /\ UNCHANGED <<hlock, oslock>>
       \/ /\ IOFail
          /\ UNCHANGED <<quota, h, hlock, oslock>>
          /\ pc' = [pc EXCEPT ![p] = "expRenameIndex"]
       \/ /\ IOFail
          /\ UNCHANGED quota
          /\ Finish(p)
    /\ UNCHANGED <<dir, idx, cache, nextIno, msgfiles, started, crashes,
                   committed, expunged>>

(* rename(index.NEW, index): the commit point of the compaction; failure   *)
(* goes to fail.                                                           *)
mailbox_expunge_rename_index(p) ==
    /\ pc[p] = "expRenameIndex"
    /\ \/ /\ dir' = [dir EXCEPT !["index"] = dir["index.NEW"],
                                !["index.NEW"] = NoFile]
          /\ expunged' = expunged \cup h[p].gone
          /\ pc' = [pc EXCEPT ![p] = "expRenameCache"]
          /\ UNCHANGED <<hlock, oslock, h>>
       \/ /\ IOFail
          /\ UNCHANGED <<dir, expunged>>
          /\ Finish(p)
    /\ UNCHANGED <<idx, cache, nextIno, msgfiles, quota, started, crashes,
                   committed>>

(* rename(cache.NEW, cache): a failure is logged ("need to reconstruct")  *)
(* and the code falls through, leaving index and cache generations apart.  *)
mailbox_expunge_rename_cache(p) ==
    /\ pc[p] = "expRenameCache"
    /\ \/ dir' = [dir EXCEPT !["cache"] = dir["cache.NEW"],
                             !["cache.NEW"] = NoFile]
       \/ IOFail /\ UNCHANGED dir
    /\ pc' = [pc EXCEPT ![p] = "expUnlock"]
    /\ UNCHANGED <<idx, cache, nextIno, msgfiles, quota, hlock, oslock, h,
                   started, crashes, committed, expunged>>

(* Notifier, then unlock pop, index and header.  For a session caller the  *)
(* counts drop to zero and the OS locks go; cyr_expire forced the counts   *)
(* to 1 before the call, so it keeps its locks until mailbox_close.        *)
mailbox_expunge_unlock(p) ==
    /\ pc[p] = "expUnlock"
    /\ IF h[p].op = "expunge" THEN ReleaseAll(p) ELSE UNCHANGED <<hlock, oslock>>
    /\ pc' = [pc EXCEPT ![p] = "expUnlink"]
    /\ UNCHANGED <<dir, idx, cache, nextIno, msgfiles, quota, h, started,
                   crashes, committed, expunged>>

(* Delete message files of the expunged uids, then mailbox_close.          *)
mailbox_expunge_unlink(p) ==
    /\ pc[p] = "expUnlink"
    /\ msgfiles' = RemoveFiles(msgfiles, h[p].gone)
    /\ Finish(p)
    /\ UNCHANGED <<dir, idx, cache, nextIno, quota, started, crashes,
                   committed, expunged>>

-----------------------------------------------------------------------------
(* Reconstruct (reconstruct.c reconstruct()): header lock with the count   *)
(* forced to 1, mailbox_open_index in reconstruct mode, mailbox_lock_index *)
(* with its result ignored, then a fresh index and cache built from the    *)
(* message files found in the directory.                                  *)

(* The \Deleted flag a file inherits: the walk over the old records up to *)
(* the snapshot's exists stops at the first uid not below the file's; with *)
(* ascending old uids that is the record with this uid, if any.  A file    *)
(* without one would read its ams_extra_data sidecar, of which there are   *)
(* none here, and gets no flags.                                           *)
(* Mutant: the walk over the old records stops one record early.          *)
Mut_OldFlag_short(f, n, u) ==
    \E m \in 1..(n - 1) : m \in DOMAIN f.recs /\ f.recs[m].uid = u /\ f.recs[m].flag
OldFlag(f, n, u) ==
    \E m \in 1..n : m \in DOMAIN f.recs /\ f.recs[m].uid = u /\ f.recs[m].flag

(* The new index for the files in the given order and the given last_uid. *)
RecIndex(p, fs, last) ==
    LET f == idx[h[p].ifd]
        n == h[p].snap.exists
        recs == [j \in DOMAIN fs |-> [uid |-> fs[j], size |-> msgfiles[fs[j]],
                                      flag |-> OldFlag(f, n, fs[j]), coff |-> j]]
    IN [hdr |-> [gen |-> h[p].snap.gen + 1, exists |-> Len(fs),
                 last_uid |-> last,
                 used |-> MapThenSumSet(LAMBDA j : recs[j].size, DOMAIN recs),
                 deleted |-> Cardinality({j \in DOMAIN recs : recs[j].flag}),
                 old |-> FALSE],
        recs |-> recs]
(* last_uid is raised to the highest file uid plus 100 when it is below.  *)
RecLastUid(last, fs) ==
    IF Len(fs) > 0 /\ last < fs[Len(fs)] THEN fs[Len(fs)] + 100 ELSE last

MutReconstructBuild(p, Order(_), LastUid(_, _), CacheGen(_)) ==
    /\ pc[p] = "recBuild"
    /\ LET fs == Order(DOMAIN msgfiles)
           ni == nextIno
           nc == nextIno + 1
       IN \/ /\ idx' = idx @@ (ni :> RecIndex(p, fs, LastUid(h[p].snap.last_uid, fs)))
             /\ cache' = cache @@ (nc :> [gen |-> CacheGen(h[p].snap.gen),
                                          blobs |-> fs])
             /\ oslock' = oslock @@ (ni :> None) @@ (nc :> None)
             /\ nextIno' = nextIno + 2
             /\ dir' = [dir EXCEPT !["index.NEW"] = ni, !["cache.NEW"] = nc]
             /\ pc' = [pc EXCEPT ![p] = "recRenameIndex"]
             /\ UNCHANGED <<hlock, h>>
          \/ /\ IOFail
             /\ Finish(p)
             /\ UNCHANGED <<dir, idx, cache, nextIno>>
    /\ UNCHANGED <<msgfiles, quota, started, crashes, committed, expunged>>

(* Mutant: the uids read from the directory are not sorted (qsort left    *)
(* out), here taken in descending order.                                   *)
Mut_reconstruct_unsorted(p) ==
    MutReconstructBuild(p, LAMBDA S : SetToSortSeq(S, >), RecLastUid,
                        LAMBDA g : g + 1)
(* Mutant: cache.NEW gets the old generation prefix.                       *)
Mut_reconstruct_cache_gen(p) ==
    MutReconstructBuild(p, LAMBDA S : SetToSortSeq(S, <), RecLastUid,
                        LAMBDA g : g)
(* Mutant: last_uid is kept as read from the old index.                    *)
Mut_reconstruct_last_uid(p) ==
    MutReconstructBuild(p, LAMBDA S : SetToSortSeq(S, <),
                        LAMBDA last, fs : last, LAMBDA g : g + 1)

(* Create index.NEW and cache.NEW with generation + 1, list the "<uid>."   *)
(* files and qsort them, write one record and one cache blob per file      *)
(* (message_parse_file), then the header with the recounted exists,       *)
(* deleted and quota_mailbox_used, fsync both, and mailbox_write_header.   *)
(* Any failure closes the mailbox and returns, leaving the .NEW files.     *)
(* The quota root is not adjusted to the recounted usage.                  *)
reconstruct_build(p) ==
    MutReconstructBuild(p, LAMBDA S : SetToSortSeq(S, <), RecLastUid,
                        LAMBDA g : g + 1)

(* rename(index.NEW, index): on failure close and return IMAP_IOERROR.     *)
(* The messages the new index lists become the mailbox's contents.        *)
reconstruct_rename_index(p) ==
    /\ pc[p] = "recRenameIndex"
    /\ \/ LET U == LiveUids(idx[dir["index.NEW"]]) IN
          /\ dir' = [dir EXCEPT !["index"] = dir["index.NEW"],
                                !["index.NEW"] = NoFile]
          /\ committed' = committed \cup U
          /\ expunged' = expunged \ U
          /\ pc' = [pc EXCEPT ![p] = "recRenameCache"]
          /\ UNCHANGED <<hlock, oslock, h>>
       \/ /\ IOFail
          /\ Finish(p)
          /\ UNCHANGED <<dir, committed, expunged>>
    /\ UNCHANGED <<idx, cache, nextIno, msgfiles, quota, started, crashes>>

(* rename(cache.NEW, cache): on failure close and return IMAP_IOERROR,    *)
(* with the new index already in place.                                   *)
reconstruct_rename_cache(p) ==
    /\ pc[p] = "recRenameCache"
    /\ \/ /\ dir' = [dir EXCEPT !["cache"] = dir["cache.NEW"],
                                !["cache.NEW"] = NoFile]
          /\ pc' = [pc EXCEPT ![p] = "recSeen"]
          /\ UNCHANGED <<hlock, oslock, h>>
       \/ /\ IOFail
          /\ Finish(p)
          /\ UNCHANGED dir
    /\ UNCHANGED <<idx, cache, nextIno, msgfiles, quota, started, crashes,
                   committed, expunged>>

(* seen_reconstruct, then mailbox_close, which drops both locks.          *)
reconstruct_seen(p) ==
    /\ pc[p] = "recSeen"
    /\ Finish(p)
    /\ UNCHANGED <<dir, idx, cache, nextIno, msgfiles, quota, started,
                   crashes, committed, expunged>>

-----------------------------------------------------------------------------
Step(p) ==
    \/ mailbox_lock_header(p)
    \/ mailbox_open_index(p)
    \/ mailbox_open_cache(p)
    \/ mailbox_lock_index(p)
    \/ mailbox_lock_pop(p)
    \/ upgrade_lock_header(p)
    \/ mailbox_lock_index_for_upgrade(p)
    \/ upgrade_lock_pop(p)
    \/ upgrade_write(p)
    \/ upgrade_rename(p)
    \/ append_cache(p)
    \/ mailbox_append_index(p)
    \/ append_write_header(p)
    \/ append_quota(p)
    \/ mailbox_write_index_record(p)
    \/ mailbox_write_index_header(p)
    \/ store_nothing(p)
    \/ read_records(p)
    \/ pop_close(p)
    \/ mailbox_expunge_build(p)
    \/ mailbox_expunge_quota(p)
    \/ mailbox_expunge_rename_index(p)
    \/ mailbox_expunge_rename_cache(p)
    \/ mailbox_expunge_unlock(p)
    \/ mailbox_expunge_unlink(p)
    \/ reconstruct_build(p)
    \/ reconstruct_rename_index(p)
    \/ reconstruct_rename_cache(p)
    \/ reconstruct_seen(p)

(* Every process is idle and no operation has budget left: the bounded   *)
(* run has ended (a stuttering step, not a hang on a lock).               *)
Terminated ==
    /\ \A p \in Procs : pc[p] = "idle"
    /\ \A op \in OpKinds : Budget(op) \in DOMAIN Bound
                            /\ started[Budget(op)] >= Bound[Budget(op)]
    /\ UNCHANGED vars

Next == (\E p \in Procs : Begin(p) \/ Step(p) \/ Crash(p)) \/ Terminated

(* Every step of a started operation is taken once it is enabled: the     *)
(* code blocks only in lock_blocking, which the OS grants when the holder *)
(* releases.  Starting an operation and crashing are not forced.           *)
Spec == Init /\ [][Next]_vars /\ \A p \in Procs : WF_vars(Step(p))

-----------------------------------------------------------------------------
Steps == {"idle", "lockHeader", "openIndex", "openCache", "lockIndex",
          "lockPop", "appCache", "appIndex", "appHeader", "appQuota",
          "storeRecord", "storeHeader", "readRecords", "popHold", "expBuild",
          "expQuota", "expRenameIndex", "expRenameCache", "expUnlock",
          "expUnlink", "recBuild", "recRenameIndex", "recRenameCache",
          "recSeen", "upgLockHeader", "upgLockIndex", "upgLockPop",
          "upgWrite", "upgRename"}
Inodes == 1..(nextIno - 1)

TypeOK ==
    /\ dir \in [FileNames -> {NoFile} \cup Inodes]
    /\ DOMAIN idx \cup DOMAIN cache = Inodes
    /\ \A i \in DOMAIN idx : idx[i].hdr \in Hdr /\ idx[i].recs \in Seq(Rec)
    /\ \A i \in DOMAIN cache : cache[i].gen \in Nat
                               /\ cache[i].blobs \in Seq(Uids)
    /\ DOMAIN msgfiles \subseteq Uids
    /\ \A u \in DOMAIN msgfiles : msgfiles[u] \in Sizes
    /\ quota \in Nat
    /\ hlock \in Procs \cup {None}
    /\ oslock \in [Inodes -> Procs \cup {None}]
    /\ pc \in [Procs -> Steps]
    /\ committed \subseteq Uids /\ expunged \subseteq committed

(* The refinement mapping onto MailboxAbstract: the messages are the live *)
(* records of the index the directory names, each with its size and       *)
(* \Deleted flag, and last_uid is that index's header field.               *)
AbsMsgs ==
    LET f == CurIndex
    IN  [u \in LiveUids(f) |->
            LET r == CHOOSE r \in Range(LiveRecs(f)) : r.uid = u
            IN  [size |-> r.size, deleted |-> r.flag]]

Abs == INSTANCE MailboxAbstract WITH msgs <- AbsMsgs,
                                     last_uid <- CurIndex.hdr.last_uid

(* Every step of every process, including a crash, is a step of the       *)
(* abstract mailbox or leaves it unchanged: an append's header write adds  *)
(* one message with a fresh uid above last_uid, a store's record write     *)
(* flags one message, an index rename removes messages, and nothing else   *)
(* (cache, quota, locks, .NEW files, unlinks) is visible.                  *)
RefinesAbstract == Abs!Spec

(* What a process uses without copying it: the mapped index records up to *)
(* its snapshot's exists and the cache blobs they point at.                *)
ViewOf(p) == [m \in 1..h[p].snap.exists |->
                <<idx[h[p].ifd].recs[m].uid,
                  BlobAt(cache[h[p].cfd], idx[h[p].ifd].recs[m].coff)>>]

(* I1/I7 as the code relies on them: a reader that passed the generation  *)
(* check of mailbox_open_index, and an expunge about to copy blobs into   *)
(* cache.NEW, find for every record of their snapshot the cache blob of   *)
(* that same message, however compactions and appends interleaved with    *)
(* their opens.                                                            *)
ViewCoherent ==
    \A p \in Procs :
        pc[p] \in {"readRecords", "expBuild"} =>
            /\ h[p].snap.exists <= Len(idx[h[p].ifd].recs)
            /\ \A m \in DOMAIN ViewOf(p) : ViewOf(p)[m][1] = ViewOf(p)[m][2]

(* The live records of the index the directory names are exactly the       *)
(* messages whose append committed and that no renamed index.NEW dropped:  *)
(* no lost append (a write to an index a compaction had replaced) and no   *)
(* resurrected message.                                                    *)
IndexMatchesHistory == LiveUids(CurIndex) = committed \ expunged

(* I8: every message the current index lists still has its file "<uid>."  *)
(* of the recorded size: mailbox_expunge unlinks only after the index      *)
(* rename, and reconstruct lists only files it found.                      *)
LiveMessagesHaveFiles ==
    \A m \in DOMAIN LiveRecs(CurIndex) :
        LET r == LiveRecs(CurIndex)[m] IN
        r.uid \in DOMAIN msgfiles /\ msgfiles[r.uid] = r.size

(* I2/I3: live records are in strictly ascending uid order and last_uid    *)
(* is at least every uid ever committed, so no uid is handed out twice.    *)
UidsIncrease ==
    LET f == CurIndex IN
    /\ \A i, j \in DOMAIN LiveRecs(f) :
          i < j => LiveRecs(f)[i].uid < LiveRecs(f)[j].uid
    /\ \A u \in committed : u <= f.hdr.last_uid

(* I4/I5 in the file: the header's deleted counter and quota_mailbox_used  *)
(* equal the \Deleted records and the size sum of the live records, except *)
(* for a flag store that has written its record and not yet its header.    *)
CountersMatchRecords ==
    LET f == CurIndex
        live == LiveRecs(f)
        storing == {p \in Procs : pc[p] = "storeHeader" /\ h[p].ifd = dir["index"]}
    IN /\ f.hdr.exists <= Len(f.recs)
       /\ f.hdr.used = MapThenSumSet(LAMBDA m : live[m].size, DOMAIN live)
       /\ f.hdr.deleted + Cardinality(storing)
             = Cardinality({m \in DOMAIN live : live[m].flag})

(* I5 across the quota root: the root's used bytes equal the mailbox's     *)
(* quota_mailbox_used, except for an append that has committed its header  *)
(* and not yet its quota, and an expunge that has committed its quota      *)
(* release and not yet renamed its index.                                  *)
QuotaTracksUsage ==
    LET pendingAppend == {p \in Procs : pc[p] = "appQuota"}
        pendingFree == {p \in Procs : pc[p] = "expRenameIndex" /\ h[p].released}
    IN quota + MapThenSumSet(LAMBDA p : h[p].size, pendingAppend)
             = CurIndex.hdr.used - MapThenSumSet(LAMBDA p : h[p].freed, pendingFree)

(* Reconstruct's repair (spec 4.11, 8): when reconstruct has renamed both  *)
(* new files, the index lists exactly the message files in the directory, *)
(* in ascending uid order, below last_uid, each with its file's size; the  *)
(* cache carries the index's generation and every record's blob is its own *)
(* message.  It is stated while reconstruct still holds its locks, between *)
(* its last rename and mailbox_close.                                      *)
ReconstructRepairs ==
    \A p \in Procs : pc[p] = "recSeen" =>
        LET f == CurIndex
            live == LiveRecs(f)
        IN /\ f.hdr.gen = CurCache.gen
           /\ LiveUids(f) = DOMAIN msgfiles
           /\ \A i, j \in DOMAIN live : i < j => live[i].uid < live[j].uid
           /\ \A m \in DOMAIN live :
                 /\ live[m].uid <= f.hdr.last_uid
                 /\ msgfiles[live[m].uid] = live[m].size
                 /\ BlobAt(CurCache, live[m].coff) = live[m].uid

(* Spec 8: a crash at any point of a compaction followed by reconstruct   *)
(* leaves a live uid set that is a subset of the one before: the index     *)
(* reconstruct renames in lists no message that was not live.             *)
ReconstructKeepsLive ==
    [][\A p \in Procs :
         (pc[p] = "recRenameIndex" /\ pc'[p] = "recRenameCache")
            => LiveUids(CurIndex') \subseteq committed \ expunged]_vars

(* Spec 4.11 step 5: reconstruct keeps the system flags of every message   *)
(* the old index lists; a message that is live before reconstruct renames  *)
(* its index and still listed after has \Deleted after exactly when it had *)
(* it before.                                                              *)
Flagged(f) == {LiveRecs(f)[m].uid : m \in {m \in DOMAIN LiveRecs(f) : LiveRecs(f)[m].flag}}
ReconstructKeepsFlags ==
    [][\A p \in Procs :
         (pc[p] = "recRenameIndex" /\ pc'[p] = "recRenameCache")
            => Flagged(CurIndex') = Flagged(CurIndex) \cap LiveUids(CurIndex')]_vars

(* Every operation that started returns: lock waits end, the open retry    *)
(* loop is bounded by MAXTRIES, and the lock order header, index, POP     *)
(* leaves no cycle of waiters.                                             *)
OpsComplete == \A p \in Procs : pc[p] # "idle" ~> pc[p] = "idle"
====
