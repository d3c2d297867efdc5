# TLA+ models of the Cyrus mailbox storage engine and IMAP proxy

This directory holds TLA+ models of the mailbox storage engine in
`src/cyrus_imap/imap/mailbox.c`, of the tools around it in this
repository, and of a client session of the Murder IMAP proxy
(`src/cyrus_imap/imap/proxyd.c`). Each model is checked with TLC. Every definition that models
code is listed in `PROJECT.json` under `map`, with the source lines it
translates.

## 1. The system

A mailbox is a directory holding three metadata files and one file per
message:

| file | contents | written by |
|---|---|---|
| `cyrus.header` | magic line, quota root, unique id, user-flag names, ACL | `mailbox_write_header` (via `.NEW` and rename) |
| `cyrus.index` | header (generation_no, exists, last_uid, quota_mailbox_used, counters, uidvalidity, ...) and one fixed-size record per message (uid, size, flags, cache_offset, ...) | in place: `mailbox_write_index_header`, `mailbox_write_index_record`, `mailbox_append_index`; by replacement: `mailbox_expunge`, `reconstruct`, `mailbox_upgrade_index` |
| `cyrus.cache` | 4-byte generation number, then one blob of parsed headers per message | append at the end; replaced together with the index |
| `<uid>.` | the message | append (out of tree), unlinked by expunge |

Processes share a mailbox through these files. Each process has its own
`struct mailbox` handle with its own fds and mappings. Coordination uses
three advisory locks, always taken in this order:

1. the header lock (`mailbox_lock_header`);
2. the index lock (`mailbox_lock_index`): a blocking lock on the open index
   fd. Once granted, it compares the fd's inode with the path's inode. If
   they differ, the index was replaced, so it reopens through
   `mailbox_open_index` and tries again;
3. the POP lock (`mailbox_lock_pop`): a nonblocking lock on the cache fd.
   Expunge fails with `IMAP_MAILBOX_POPLOCKED` while a POP session holds it.

Readers take no lock. `mailbox_open_index` opens the index and then the
cache by path, and compares their generation numbers. On a mismatch it
sleeps and retries, giving up after MAXTRIES (60) retries. A compaction
(`mailbox_expunge`) writes `cyrus.index.NEW` and `cyrus.cache.NEW`, both
with generation + 1. It commits the quota release, then renames the index,
then the cache. It unlocks, and then unlinks the message files (cyr_expire
keeps its locks until `mailbox_close`).

Around the engine: `reconstruct.c` rebuilds index and cache from the message
files; `cyr_expire.c` expunges by sent date; `idle_poll.c` is the IDLE
polling timer. `fetchnews.c`, `mupdate-client.c`, `proxyd.c`/`backend.h`,
`perl/sieve/lib/isieve.c` and `lib/xmalloc.c` are network clients, a proxy
and allocation wrappers. The spec calls them external collaborators.

### Inventory

| component | state | operations | interactions | what must hold |
|---|---|---|---|---|
| index/cache store (mailbox.c 479-1030, 1170-1322, 1601-1942) | index header + records, cache blobs, message files, directory entries, locks | open, lock/unlock, read record, write record, write header, append, expunge | with every other process through files and locks; with the quota root | I7 records point to their own blobs; no lost or resurrected message; uid order; counters; quota |
| header file (594-720, 1081-1165) | flag-name table, ACL, quota root, unique id | read, write | header lock | flag names keep their positions (I8) |
| upgrade (744-862, 1328-1521) | the header's minor version, record_size, start_offset | rewrite to index.NEW and rename | runs inside `mailbox_read_index_header` of every open; takes header, index and POP lock; races other openers | no message, flag or counter lost; reconstruct still reads the old records |
| lifecycle (1944-2706) | whole mailboxes, quota roots | create, delete, rename-copy, rename-cleanup, sync, copyfile | two mailboxes, two quota roots | uidvalidity rules (§8), quota moves once |
| hashing/naming (247-276, 2708-2753) | none (pure) | make_uniqueid, message_get_fname, hash_mbox | none | functions of their inputs, with unsigned long arithmetic |
| reconstruct.c | as the store | rebuild | header lock; after crashes | repairs torn states; last_uid never decreases |
| cyr_expire.c | expiry table | do_expire, expunge_cb | calls mailbox_expunge | as expunge |

Hard behaviours: readers racing renames; fds that name replaced inodes;
crashes between the steps of a compaction; failed writes, renames and quota
transactions; the bounded retry loop; the POP lock's nonblocking failure
path; unsigned counter arithmetic.

## 2. Modules

### `MailboxStore.tla`: the index/cache store (built)

State:

| variable | models |
|---|---|
| `dir` | directory entries `index`, `cache`, `index.NEW`, `cache.NEW` → inode |
| `idx[i]` | contents of index inode i: `hdr` (generation_no, exists, last_uid, quota_mailbox_used, deleted, and `old`: an earlier minor version) and `recs` (uid, size, \Deleted, cache_offset as a blob position) |
| `cache[i]` | contents of cache inode i: generation and blobs; a blob is the uid of the message it describes |
| `msgfiles` | the `<uid>.` files, uid → size |
| `quota` | the quota root's used bytes |
| `hlock`, `oslock[i]` | the header lock and the advisory lock on each inode (index lock, POP lock) |
| `pc[p]`, `h[p]` | each process's step and its `struct mailbox`: fds (inodes), retry count, header snapshot, and the locals of the running operation |
| `committed`, `expunged` | history: uids whose append committed, and uids dropped by a renamed index |

Since files are inodes reached through `dir`, a process that opened a file
before a rename keeps the old contents, as an fd does.

Each process repeatedly runs one operation. An operation is a sequence of
actions, one per code step that another process can observe:

* `Begin` chooses one of the operations in the constant `OpKinds`.
* open: `mailbox_open_index` (index), then `mailbox_open_cache` (cache and
  generation check, retry, BADFORMAT).
* locks: `mailbox_lock_header`, `mailbox_lock_index` (inode check and
  reopen loop), `mailbox_lock_pop` (POPLOCKED).
* append: `append_cache` (message file and cache blob, from the spec
  because `append.c` is not in this tree), then `mailbox_append_index`
  (with the failure truncation), `append_write_header`, `append_quota`.
* store: `mailbox_write_index_record`, then `mailbox_write_index_header`.
  `store_nothing` is a store that changes no flag.
* expunge: `mailbox_expunge_build`, `_quota`, `_rename_index`,
  `_rename_cache`, `_unlock`, `_unlink`. Two callers share these actions:
  * `expire` is `cyr_expire`'s `do_expire`: header and index locked
    before the call, any set of records expires, and the locks are kept
    until close;
  * `expunge` is a session that has the mailbox open: the default
    decideproc picks the \Deleted records, and the locks are dropped
    before the unlink.
* `read_records` is a reader, and `pop_close` ends a POP session.
* reconstruct (reconstruct.c `reconstruct()`): header lock, then
  `mailbox_open_index` in reconstruct mode (it breaks before the cache and
  the generation check), `mailbox_lock_index`, then:
  * `reconstruct_build`: index.NEW and cache.NEW with generation + 1, one
    record and blob per `<uid>.` file in qsort order, \Deleted inherited
    from the old record of the same uid (`OldFlag`), counters recounted,
    last_uid raised to max + 100 if below (`RecLastUid`), and
    `mailbox_write_header`;
  * `reconstruct_rename_index`, `reconstruct_rename_cache`: each failure
    returns IMAP_IOERROR, the second one leaving a torn pair;
  * `reconstruct_seen`: seen_reconstruct and close.
  The renamed index defines the mailbox's contents, so the history
  variables take its uids as committed. The quota root is not touched,
  as in the code.
* format upgrade (`mailbox_upgrade_index`). With the constant
  `OldFormat` the mailbox starts as an earlier version left it
  (`OldMailbox`: one message, with or without \Deleted, and an `old`
  header). Every header read (`AfterHeader`, after the generation check,
  or after the reconstruct-mode open) then enters the upgrade:
  * `upgrade_lock_header` (a no-op for a caller already holding it;
    `uhdr` records whether the unlock will drop it);
  * `mailbox_lock_index_for_upgrade`: the lock loop of
    `mailbox_lock_index`, but a granted lock on the current inode does not
    reread the header; a replaced inode reopens through
    `mailbox_open_index` and comes back here;
  * `upgrade_lock_pop`: POPLOCKED fails the open. In reconstruct mode the
    cache was never opened, so the lock fails on fd -1, and reconstruct
    falls back to `ReconstructDefaults` (exists and last_uid 0) without
    the index lock;
  * `upgrade_write`: index.NEW (an old one truncated in place) from the
    in-memory header and the first `exists` mapped records;
  * `upgrade_rename`, then the unlocks (`UpgradeUnlock`) and a fresh
    `mailbox_open_index`.
  A failed write or rename fails the open.
* `Terminated` is the stuttering step of a bounded run whose processes are
  all idle with no budget left; without it TLC would report that end as a
  deadlock.
* `Crash` kills a process at one of the steps in `CrashAt`: the OS drops
  its locks and the files stay.

With `IOFail`, the failure branches are enabled: the append write, the
.NEW write/fsync, quota read and quota write (LOSTQUOTA), and both renames.

### `MailboxLifecycle.tla`: whole mailboxes (built)

Models `mailbox_create`, `mailbox_delete`, `mailbox_rename_copy`,
`mailbox_rename_cleanup`, `mailbox_sync` and `mailbox_copyfile`
(mailbox.c 1944-2706), plus the operations on a mailbox that run between
them: append, `mailbox_expunge` and POP sessions. The callers lock the
mailbox list and every mailbox they touch, so each function is one atomic
action with all of its branches. MailboxStore checks the inside of a
single mailbox.

* A path is a partition and a name (`Boxes == Parts \X Names`). This
  follows `mailbox_hash_mbox`: the directory depends only on the partition
  and the name. So a CREATE of a name lands exactly where an earlier rename
  to that name put its files.
* `dir[b]` gives the inodes of `cyrus.index` and `cyrus.cache` at path b.
  `idx` and `cache` give the contents of each inode: uids, last_uid,
  quota_mailbox_used, uidvalidity and generation for the index, the
  generation prefix for the cache. `files[b]` holds the `<uid>.` files.
  Because files are inodes:
  * `link()` in `mailbox_copyfile` makes two paths share an inode;
  * `open(O_TRUNC)` in `mailbox_create` truncates whatever inode is
    already at the path;
  * an append rewrites the index inode in place;
  * compaction renames new inodes over the old names.
* `quota` gives used per quota root. The history variable `kept[b]` holds
  the uids appended at b, or copied there, and not expunged.
* Failure branches:
  * rename-copy and sync fail on the quota check when the roots differ
    (`QuotaExceeded`), leaving the created files behind;
  * rename-copy fails on a message copy, `seen_copy` or `quota_write`
    (`IOFail`), and its backout unlinks only the message files;
  * sync fails (`IOFail`) on a message copy, which breaks the walk at
    that master uid (`WalkUpTo`), or on `seen_copy` after the whole walk,
    both before the index and cache are copied; or on `quota_write`
    after they were copied. It returns the error with no backout;
  * `mailbox_delete` goes on after a failed `quota_write` (`LostQuota`,
    the LOSTQUOTA log);
  * the INBOX cleanup expunge fails with POPLOCKED.
* `CanLink` selects `link()` (same device) or the byte-copy fallback.
* `InodeView` is the state up to renumbering inodes. The cfgs use it as
  TLC's VIEW.

### `MailboxSyncWalk.tla`: the lockstep walk of mailbox_sync (built)

`SyncSkip`/`SyncLoop` are RECURSIVE operators. They translate the for and
do-while loops at mailbox.c 2504-2536 and return the uids to copy and to
unlink. `MailboxLifecycle` uses them for `mailbox_sync`.
`MC_MailboxLifecycle` checks them against the spec's three cases between
every two mailboxes of every state lc_copy reaches.

### `MailboxAbstract.tla`: what a mailbox promises (built)

The abstract mailbox is a function from uid to size and \Deleted flag,
plus `last_uid`. Its steps are:

* `Append`: a message whose uid is the new, larger `last_uid`;
* `Store`: sets \Deleted on one message;
* `Expunge`: removes a nonempty set of messages.

It states the spec's promise (uids are never 0, ascend and are never
reused, §2 and glossary) and the atomicity each IMAP operation has for a
client. `MailboxStore` instantiates it as `Abs` with the refinement
mapping `AbsMsgs`: the live records of the index inode that
`dir["index"]` names, and that index's `last_uid`. `RefinesAbstract ==
Abs!Spec` is a PROPERTY of store_safety and store_crash. So every step of
every process, crashes and I/O failures included, is one abstract step or
invisible. Invisible steps are:

* cache blobs, quota, locks, `.NEW` files and unlinks;
* a record written past `exists` before its header write.

### `ProxySession.tla`: a proxyd process and its clients (built)

proxyd is a preforked service: one process serves one client, then calls
`proxyd_reset` and serves the next one. It forwards each command to the
backend that holds the mailbox, over connections it caches in
`backend_cached`. Each cached connection is authenticated as the user
logged in when `proxyd_findserver` made it, and has an idle timeout
(`s->timeout`). `backend_current` points at the backend of the selected
mailbox, and `backend_inbox` at the backend of the user's INBOX. Answers
are read up to the tagged line by `pipe_until_tag`, which keeps the
tagged result in `s->last_result`.

* State. The record `px` holds the proxy process:
  * `cached`, `conn` (the timeout is set) and `live` (the backend still
    has its side open);
  * `bsel`, the mailbox selected on each connection, `last`, the
    `last_result`, and `owner`, the user the connection authenticated as;
  * `cur` and `inbox`, the two pointers, and `up` (the process has not
    exited).

  Beside it: `userid` (`proxyd_userid`, one of `Users` or `NoUser`), the
  client's view `csel` of the selected mailbox, `stored`/`acked` (pairs
  of mailbox and message a backend stored, and that the client was told
  are stored), and `hung` (a command ended without a tagged response).
* Helpers as operators on the record, so that a handler applies them in
  the code's order: `proxyd_downserver`, `shut_down` (downs every cached
  connection, with `FoldSet`, and exits), `pipe_until_tag` (OK/NO kept in
  last_result; a failed read is fatal for `backend_current` unless
  forced, else downs the server; a literal cut short returns -1),
  `pipe_to_end_of_response` and `pipe_lsub`, `pipe_including_tag`,
  `proxyd_findserver` (reuses a connection whose timeout is set, even a
  dead one), `Lookup` (mlookup), `proxyd_findinboxserver`,
  `proxyd_reset`.
* Actions, one per handler: `cmd_login` and `cmd_authenticate`,
  `cmd_select`, `cmd_close` (CLOSE and UNSELECT), `cmd_noop`, `cmd_fetch`
  (FETCH, PARTIAL, STORE, SEARCH, SORT and THREAD, the same code),
  `cmd_append`, `cmd_status`, `cmd_copy` (same server piped; across
  servers FETCH then APPEND), `cmd_list` (LSUB via `backend_inbox`),
  `cmd_changesub`, `cmd_create`, `cmd_delete`, `cmd_rename`,
  `cmd_setacl` and `cmd_getquotaroot` (one command piped to the
  mailbox's backend, `PipeToMailbox`), `cmd_idle`, `Logout`. IDLE
  follows `cmd_idle`: with a selected backend that announces IDLE (the
  constant `IdleCapa`) the command is piped and a continuation puts the
  proxy in the idle loop, a NO or a lost backend answers at once; with
  any other backend the proxy idles itself and `IdlePollBackend` sends
  it a Noop each period. `IdleBackendLost` is a backend in IDLE going
  away (shut_down), `IdleDone` the client's DONE, which sends DONE to
  the backend and reads its tagged answer. `Ready` excludes the other
  commands while idling. The
  environment has `ClientEOF` (the client closes, or its inactivity
  timeout fires), `ShutdownFile`, `backend_timeout` (fires while the
  proxy waits for the client) and `Drop` (a backend closes its side, at
  most `MaxDrop` times). `Logout` and `ClientEOF` end in `service_main`'s
  `proxyd_reset`, and the next client starts logged out.
* A live backend answers OK or NO; a dead one gives "LOST" (failed
  `prot_fgets`) or, if `LitDrops`, "LOSTLIT" (EOF inside a literal).

proxyd is single-threaded and blocks in each handler, so a handler is one
step. Drops between two commands stand for drops during one: a backend
that dies in a command is seen at the next read.

### `MailboxHeader.tla`: cyrus.header and its repair (built)

`cyrus.header` holds the quota root, the unique id (after a tab; an old
header has one line without it), the user-flag names and the ACL. A user
flag is a slot number in the index records, so the names must keep their
positions across every rewrite.

State:

* `hfile`: header inode -> `[root, uid, flags]` as written on disk, the
  flag line a sequence of names; `hdir` is the inode the directory entry
  names, `nextIno` the next inode a rename brings in.
* `uv` and `bits`: of `cyrus.index`, only the uidvalidity and the slots
  its records carry.
* `hlock` (the header lock), `now` (`time(0)`), and per process `pc` and
  `h`, its `struct mailbox` (the inode it mapped, root, uid, flag table)
  and reconstruct's locals (`valid_user_flags`, the new uidvalidity and
  record bits).

Operators: `UniqueidHash` is the loop of `mailbox_make_uniqueid` as a
`FoldLeft` of `HashStep` in unsigned arithmetic of `Width` bits;
`PolyHash` is the polynomial the comment describes (RECURSIVE, Horner).
`WriteFlags` writes the non-empty slots, each followed by a space;
`ReadFlags` reads the words back into slots 1.. and empties the rest.
`ValidateFlags` is reconstruct's loop (a name after an empty slot, or not
an atom, is dropped), `ValidSlots` its `valid_user_flags`.

Actions, in the order of the code:

* `Begin`: an open (`mailbox_open_header`, as `cyr_expire` and every
  open do) or a reconstruct starts.
* `mailbox_open_header`: open, map and parse the header without a lock.
* `mailbox_lock_header`: take the lock, and reread the header when the
  directory entry names another inode than the one mapped (`mailbox.c`
  933-947).
* `generate_uniqueid`, `generate_write_header`: the legacy-header branch
  of `mailbox_read_header` (658-676): `mailbox_open_index` (its failure
  ignored, leaving uidvalidity 0), make the id, write the header (its
  failure ignored), unlock.
* `reconstruct_fix_header`: lock (failure ignored), the quota root from
  `quota_findroot`, the flag validation.
* `reconstruct_build_index`: open the index or take the defaults, the
  uidvalidity fix, record flags `old & valid_user_flags`, a missing
  unique id regenerated.
* `reconstruct_write_header`, `reconstruct_rename_index`: the header is
  renamed in first, then `index.NEW`; each failure closes the mailbox.
* `mailbox_close`, and `Tick` for the clock.

`WriteHeader` is `mailbox_write_header`: `.NEW`, fsync, rename, or on
failure unlink and IOERROR. The ACL line and a failing header lock are
not modelled.

### Planned modules, most important first

1. `MailboxSession`: a handle that outlives one operation. It covers the
   `index_lock_count` leak at mailbox.c:994 and the POP lock dropped by a
   reopen (mailbox.c:496).
2. The ACL line of the header and the mailbox-list fix-up reconstruct
   does with it.

fetchnews.c and mupdate-client.c are clients of other servers that the
spec names as non-goals; they are listed under "Not modelled".

## 3. Runs

The MailboxStore runs use `MC_MailboxStore.tla`. It declares the process
model values `p1, p2, p3`, the sizes `{1, 2}`, the crash-point sets and
the process symmetry. The lifecycle runs use `MC_MailboxLifecycle.tla`. It
declares two partitions `p1, p2` (with symmetry), the names INBOX, "a" and
"b", and two quota roots: "user" for INBOX and "a", "shared" for "b".

| run | cfg | expect | checks | shows |
|---|---|---|---|---|
| store_safety | `MC_MailboxStore_safety.cfg` | pass | OpsComplete, ViewCoherent, IndexMatchesHistory, LiveMessagesHaveFiles, UidsIncrease, CountersMatchRecords, QuotaTracksUsage, RefinesAbstract | Without crashes, the locking protocol keeps all files, counters and quota consistent for every interleaving of two processes, every step implements the abstract mailbox, and every started operation returns (lock waits, retry loop, POPLOCKED path). No symmetry, because of the liveness property. |
| store_crash | `MC_MailboxStore_crash.cfg` | pass | TypeOK, ViewCoherent, IndexMatchesHistory, LiveMessagesHaveFiles, UidsIncrease, RefinesAbstract | From a mailbox in the old index format, with one crash anywhere and every I/O failure, the upgrade raced by every other opener loses and resurrects nothing; no reader pairs a record with another message's blob, no committed message is lost or resurrected, uids are not reused, and every step still implements the abstract mailbox. |
| quota_crash | `MC_MailboxStore_quota_crash.cfg` | violation | QuotaTracksUsage | A crash of expunge between the quota commit and the index rename leaves the quota root too low for good. |
| recon_crash | `MC_MailboxStore_recon_crash.cfg` | pass | ReconstructRepairs, LiveMessagesHaveFiles, ReconstructKeepsFlags | After one crash anywhere and with every I/O failure, beside appends, stores and cyr_expire, a reconstruct that renames both files leaves a consistent pair listing exactly the files, and keeps the \Deleted flag of every message the old index listed. |
| recon_race | `MC_MailboxStore_recon_race.cfg` | violation | LiveMessagesHaveFiles | A reconstruct between a session expunge's unlock and its unlinks lists messages whose files are then deleted. |
| recon_resurrect | `MC_MailboxStore_recon_resurrect.cfg` | violation | ReconstructKeepsLive | After cyr_expire crashes between its index rename and its unlinks, reconstruct brings the expunged messages back. |
| lc_safety | `MC_MailboxLifecycle_safety.cfg` | pass | TypeOK, QuotaMatchesMailboxes, IndexMatchesHistory, LiveMessagesHaveFiles, NoOrphanFiles | With link(), failed rename copies and one CREATE per path, create, append, expunge, delete and rename keep every mailbox's quota, index and files consistent. |
| lc_copy | `MC_MailboxLifecycle_copy.cfg` | pass | WalkKeepsMasterFiles, WalkReplicates | With byte copies and every operation (sync and its failures, POP, failed rename copies, LOSTQUOTA), the lockstep walk of mailbox_sync, applied to every two mailboxes of every state, never unlinks a master's message and leaves a replica with exactly the master's records. |
| lc_rename_retry | `MC_MailboxLifecycle_rename_retry.cfg` | violation | IndexMatchesHistory | A rename-copy failing after linking the index leaves the link; a CREATE (or retried RENAME) there empties the source's index. |
| proxy_safety | `MC_ProxySession_safety.cfg` | pass | TypeOK, SelectedAgrees, BackendPointersValid, ConnectionsOwned | With two users one client after the other, two drops at line boundaries and idle timeouts anywhere, the client's selected mailbox matches `backend_current`, neither pointer names a downed connection, and no open connection belongs to another user. |
| header_safety | `MC_MailboxHeader_safety.cfg` | pass | TypeOK, FlagsKeepSlots, RepairedHeaderStays | Two openers generating a legacy header's unique id and a reconstruct repairing the header, with failing header writes, index opens and index renames, never move a user flag to another slot nor undo the repaired header. |
| proxy_stale_result | `MC_ProxySession_stale_result.cfg` | violation | AckedStored | An APPEND over a cached connection the backend closed is answered with that backend's previous result: OK for a message nobody stored. |

The proxy runs use `MC_ProxySession.tla`: backends A and B, the INBOX m1
on A, m2 on B, m3 on no server (mlookup fails), messages x1 and x2,
users u1 and u2 (symmetric: `SYMMETRY UserSymmetry`, sound because no
definition names a user).

The runs without reconstruct use `OpKinds <- ServerOps` (everything but
reconstruct). recon_crash and recon_resurrect use `RepairOps` (append,
store, cyr_expire, reconstruct), which leaves out the session expunge whose
unlink window recon_race shows.

The properties:

* `ViewCoherent`: a reader that passed the generation check, and an expunge
  about to copy blobs, find for each record in their snapshot the blob of
  that same message.
* `IndexMatchesHistory`: the live uids of the current index are exactly
  committed \ expunged.
* `LiveMessagesHaveFiles` (I8): every listed message has its file, of the
  recorded size.
* `UidsIncrease`: live uids ascend, and last_uid is at least every uid ever
  committed.
* `CountersMatchRecords`: deleted and quota_mailbox_used match the records,
  except for a store between its record and header writes.
* `QuotaTracksUsage`: quota root = quota_mailbox_used, except for the named
  in-flight windows.
* `OpsComplete`: every started operation returns to idle.
* `ReconstructRepairs`: between reconstruct's last rename and its close,
  index and cache have one generation, the index lists exactly the
  message files in ascending order below last_uid, and each record's blob
  is its own message.
* `ReconstructKeepsLive` (action property, spec §8): the index that
  reconstruct renames in lists only messages that were live.
* `ReconstructKeepsFlags` (action property, spec §4.11 step 5): a
  message listed before and after reconstruct's index rename has \Deleted
  after exactly when it had it before.
* `RefinesAbstract`: `MailboxStore` implements `MailboxAbstract` under
  `AbsMsgs`.

Of MailboxLifecycle, each over the mailboxes in the list:

* `QuotaMatchesMailboxes` (§4.10): each root's used is the sum of the
  quota_mailbox_used of its mailboxes. While a rename is pending, both the
  source and the destination count.
* `IndexMatchesHistory`: a mailbox's index lists exactly what was appended
  or copied to it and not expunged. No operation on one mailbox makes
  messages appear in, or vanish from, another.
* `LiveMessagesHaveFiles` (I8): each listed message has its file.
* `NoOrphanFiles`: every message file in the directory is listed, so no
  space leaks without a crash.
* `UidvalidityOnRename` (action property, I6 and §9): the destination of
  rename-copy keeps the source's uidvalidity exactly when the name is
  unchanged. The code violates it (section 4); no run checks it now.

Of MailboxSyncWalk, stated in `MC_MailboxLifecycle` for every two
mailboxes of a state: `WalkKeepsMasterFiles` (nothing the master lists is
unlinked) and `WalkReplicates`. `WalkReplicates` applies when the slave is
an earlier state of the master: every master uid up to the slave's last is
in the slave, and the slave's last uid is at most the master's. Then the
slave's files afterwards are exactly the master's uids.

Each property has a mutant in `PROJECT.json`, a plausible bug in the
modelled code that TLC catches. The mutants are:

* the generation check dropped;
* the inode check dropped;
* unlinking before the rename;
* last_uid not stored;
* numdeleted used for numdeletedflag;
* messages counted instead of bytes;
* the quota clamp dropped;
* the lock loop not reopening;
* the directory listing left unsorted;
* cache.NEW of reconstruct without generation + 1;
* last_uid not raised by reconstruct;
* the new uid numbered from exists instead of last_uid;
* index.NEW records losing their system flags;
* the upgrade's lock loop without the inode check;
* reconstruct's walk over the old records stopping one record early.

Only the unsorted listing is registered for `ReconstructRepairs`; the
other two are caught by it as well.

The lifecycle mutants are:

* delete leaving the mailbox in the list;
* compaction writing the index in place instead of renaming a new inode;
* compaction not unlinking;
* the quota free subtracting one unit;
* the message file named after the previous uid;
* the walk unlinking the equal slave record;
* the walk copying nothing past the slave's end.

The in-place compaction is caught through a pending rename: the linked
destination loses its records when the INBOX cleanup compacts.

The proxy properties:

* `SelectedAgrees`: when the client was last told a SELECT succeeded,
  `backend_current` is the server holding that mailbox and has it
  selected. After a failed SELECT or a CLOSE there is no
  `backend_current`.
* `BackendPointersValid`: `backend_current` and `backend_inbox` only
  name cached connections whose timeout is set.
* `ConnectionsOwned`: every backend connection the process holds open
  was authenticated as the user now logged in. It needs a session, its
  end and the next client's login to break: `proxyd_reset` must down and
  free the cache.
* `AckedStored` (violation run only): whatever the client was told APPEND
  or COPY stored, a backend stored.

The proxy mutants are:

* `pipe_until_tag` copying the failed read into `last_result`;
* `backend_timeout` downing `backend_current` too;
* `proxyd_downserver` leaving `backend_inbox` set;
* `proxyd_reset` clearing the two pointers but keeping the cache.

The header properties:

* `FlagsKeepSlots`: every slot of the current header names what it named
  in the first header, or nothing. `mailbox_write_header` skips empty
  slots and `mailbox_read_header` numbers the words it finds, so this
  holds only because reconstruct also drops every name after a dropped
  one.
* `RepairedHeaderStays`: once reconstruct's header is renamed in, the
  header names `quota_findroot`'s root and only atoms. An opener that
  read the legacy header before reconstruct, and takes the lock after it,
  must reread (the inode check) or it writes the unrepaired header back.
* `UniqueidHashIsPolynomial` (no run): every unique id written holds
  the polynomial hash of the name mod the prime, and the hash loop
  equals the polynomial on short names. With Width = 24 (64-bit) the
  loop never wraps and the property cannot fail; with Width = 16
  (32-bit) it fails at once (section 4).
* `ReconstructFlagsNamed` (action property, no run): when reconstruct
  finishes, every flag the records carry has a name. Section 4 says why
  it fails.

The header mutants are: `WriteFlags` writing empty slots; the validation
not dropping a name after an empty slot; `mailbox_lock_header` without
the inode check.

### Bounds

* Two processes. One process already interleaves with none, and three gave
  no new step orders in the size checked.
* MaxAppend = 1 append in store_safety (two compactions matter more
  there than a second append) and in store_crash, 2 in the recon runs.
  store_crash starts with the old-format mailbox's message 1 (flagged or
  not), so its append can follow a committed message or a crashed
  upgrade; with a second append it grows to 2.7 million states;
  MaxGen = 2 compactions (1 with crashes and failures),
  MaxStore = 1 (0 in the crash run), MaxPop = 1 (0 in the crash run),
  MaxTries = 1, sizes
  {1, 2}, MaxRecon = 1 reconstruct in the recon runs (0 elsewhere).
  Uids are not bounded: reconstruct raises last_uid by 100.

These bounds already reach every case that matters:

* a reader opening across one or two compactions;
* an appender whose fd names a replaced index;
* an expire of an unflagged record next to a flagged one;
* a POP session making an expunge fail;
* a torn index/cache pair after a crash or failed rename;
* a reader exhausting its retries;
* a reconstruct after a crashed append (a file above last_uid), after a
  torn compaction, and next to a session expunge's unlink window.

Lifecycle bounds:

* The bounds are per operation (`MaxOps`), with two uids per mailbox and
  a limit of 1 on the "shared" root, so a rename or sync of INBOX with
  two messages trips the quota check.
* lc_safety allows one CREATE and one rename: a second one at a failed
  rename's destination is lc_rename_retry.
* lc_copy uses two names and one of each operation except create, and a
  clock that does not advance. Only uidvalidity reads the clock, and no
  kept run checks it (section 4).
* Together these reach:
  * rename within a root and across roots;
  * partition moves;
  * the INBOX cleanup with and without POP;
  * delete with a failed quota write;
  * sync onto a new slave and onto a slave with records below and above
    the master's.
* The walk check runs on every ordered pair of mailboxes in every state
  of lc_copy: empty, shorter, longer and disjoint uid lists over 1..2.

MaxTries = 1 keeps the retry loop while bounding it; the code's 60 changes
only how many attempts a reader makes. Symmetry over processes is used
in every MailboxStore run except store_safety, which checks a liveness
property.

Proxy bounds:

* Two backends and three mailboxes: one on each backend and one that does
  not exist. That gives SELECT on the same and on another server, the
  Unselect on switch, cross-server COPY, and a backend that is both
  INBOX and current.
* Two messages in proxy_stale_result, so an APPEND can follow another
  one on the same connection; one in proxy_safety, whose properties do
  not read `stored` or `acked` (`MCMsgs1`). Two users, so the next
  client can be another user. MaxDrop = 2 in proxy_safety (the current and another
  backend can both die), 1 in proxy_stale_result.
* `backend_connect` may fail at any call.
* `MCIdleCapa = {A}`: backend A announces IDLE and B does not, so both
  branches of cmd_idle (IDLE piped to the backend, and the proxy polling
  the backend with Noop) are reached.

Header bounds: two processes; NSlots = 2 with one atom and one non-atom
name, so a header can hold a non-atom before or after an atom, or a gap;
MaxOpen = 2 opens and MaxRecon = 1 reconstruct, so two openers can both
read a legacy header and a reconstruct can come between their read and
their lock; MaxTime = 2, so the uidvalidity check sees a value in the
future. The hash constants are scaled: Prime = 32771 lies just above
2^15 as PRIME = 2147484043 lies just above 2^31, and Width = 24 stands
for a 64-bit unsigned long, in which `hash * 251 + c` never wraps, as
Width = 16 stands for a 32-bit one, in which it does. The name is "abc".

### Fairness

`Spec` has weak fairness on each process's steps, but not on `Begin` or
`Crash`. A started operation in the code blocks only in `lock_blocking`,
which the OS grants once the lock is free. Every other step is local
computation or a system call that returns. Nothing forces a process to
start an operation.

ProxySession has no fairness and no liveness property: every step waits
for the client or a backend. `NoHang` states the one promise, that no
command ends without a tagged response; no kept run checks it, because
with drops at line boundaries no modelled step can break it.

## 4. Findings

* **quota_crash** (`mailbox.c:1862`, `1881`): `mailbox_expunge` commits
  the quota release before renaming `index.NEW`. A crash in between, or a
  failed rename (which goes to `fail`), leaves the root lowered while the
  index still lists the messages. `reconstruct` never recomputes the
  quota root. This contradicts spec I5: "adjusted in the same transaction".
* `mailbox.c:1821`: after a crash between a flag store's record and header
  writes, the next expunge computes `deleted - numdeletedflag` on unsigned
  values, and it wraps. The model keeps `deleted` as an Int, where a
  negative n stands for 2^32 + n.

* **recon_race** (`mailbox.c:1905`, `1912-1926`): a session's
  `mailbox_expunge` drops its locks before it unlinks the message files.
  A reconstruct that takes the locks in that window lists the files, the
  expunger deletes them, and the rebuilt index names messages without
  files. This contradicts spec I8. cyr_expire is not exposed, because it
  keeps its locks until close.
* **recon_resurrect** (`reconstruct.c:720-738`): reconstruct adds every
  `<uid>.` file, listed in the old index or not. After a compaction
  crashes between its index rename and its unlinks, the expunged messages
  come back. The spec (§8) says the live set after reconstruct is a subset
  of the pre-crash live set, and §4.8 says reconstruct "reclaims" those
  files.
* Reconstruct writes the recounted `quota_mailbox_used`, but never moves
  the quota root by the difference (`reconstruct.c:903`).
* `mailbox.c:2317-2321`: rename-copy sets the
  destination's in-memory uidvalidity, and reports it through
  `*newuidvalidityp`. It then closes the new index fd, `dup()`s the
  source's and calls `mailbox_read_index_header`. That reread overwrites
  the uidvalidity with the source's, and the header is written back with
  it. So a rename to a new name keeps the old uidvalidity, which
  contradicts I6 and the §9 test. TLC finds `UidvalidityOnRename`
  violated with `MC_MailboxLifecycle`, `OpKinds <- RenameOps`,
  `IOFail = FALSE`, `MaxTime = 2`; the run is no longer kept.
* `reconstruct.c:652`: the flag validation sets the slot's bit in
  `valid_user_flags` even for a name it has just dropped, so the records
  keep a user flag the header no longer names (`ReconstructFlagsNamed`,
  8 steps). Spec 4.11 says the records keep only valid flags. A failed
  rename of `index.NEW` after the header was renamed in gives the same
  state.
* `mailbox.c:667-676`: `mailbox_read_header` decides to generate a
  unique id before it takes the header lock and ignores a failing
  `mailbox_open_index`, whose uidvalidity is then 0. Two openers of a
  legacy header each write an id, the second after rereading the first's
  (`[][uid # NoUid => uid' = uid]`, 11 steps with `IndexFail`).
* `mailbox.c:250-255`: on a 32-bit build `hash * 251` wraps before
  `% PRIME`, so the id is not the polynomial and differs from a 64-bit
  build's (`UniqueidHashIsPolynomial` fails in the initial state with
  Width = 16).
* **lc_rename_retry** (`mailbox.c:2353-2360`, `2029`): when a message
  copy, `seen_copy` or `quota_write` fails after the index and cache were
  linked, the backout unlinks only the message files. That is also what
  §4.9 says. The destination keeps hard links to the source's live index.
  The next `mailbox_create` at that path opens them with `O_TRUNC` and
  empties the source's index. That create comes from a CREATE of the name
  or a retried RENAME.

* **proxy_stale_result** (`proxyd.c:2890`, `2910`): `cmd_append`
  ignores the value `pipe_until_tag` returns, and answers with
  `s->last_result`. If the backend has closed the cached connection,
  `pipe_until_tag` downs it without touching `last_result`. The client
  then gets the tagged result of an earlier command, e.g. OK, for an
  APPEND that was never stored. The comment at line 2908 assumes
  `last_result` is this command's. The cross-server COPY does the same
  (line 3491), and so does `cmd_status` (line 4535), whose wrong answer
  no property compares.
* `proxyd.c:396`: a backend connection that dies inside a literal makes
  `pipe_until_tag` return -1. `pipe_including_tag` then prints nothing,
  and the client waits for ever. With `LitDrops = TRUE` TLC finds
  `NoHang` violated by a hung SELECT in 5 steps; no run is kept for it.

Seen while modelling, kept as hazards in `PROJECT.json` rather than runs:

* The upgrade locks the index without rereading the header
  (`mailbox.c:1359`). Two openers that both saw the old format both
  upgrade; the second writes index.NEW from the header it read before the
  first one's store, so the mailbox's `deleted` counter goes stale
  (CountersMatchRecords, 24 steps with `OldFormat = TRUE` under
  store_safety's bounds).
* Reconstruct as the first opener of an old-format index: the upgrade's
  POP lock on the unopened cache fd fails, reconstruct falls back to
  exists 0 (`reconstruct.c:669`) and rebuilds every message without its
  \Deleted flag (ReconstructKeepsFlags, 8 steps under recon_crash's
  bounds with `OldFormat = TRUE`).

* Sync links index and cache (`mailbox.c:2563`), so a later append to the
  master shows in the slave's index without a file.
* A RENAME INBOX whose cleanup fails with POPLOCKED leaves INBOX and the
  new mailbox on one index inode (`mailbox.c:2370`).
* Each sync adds the master's whole usage to the slave's root
  (`mailbox.c:2603`), where §4.9 says "once for the delta".
* A sync that fails on a message copy or `seen_copy` after its walk
  unlinked slave files (`mailbox.c:2533-2535`) leaves the slave's old
  index listing them (LiveMessagesHaveFiles, 7 states with lc_copy's
  constants and two syncs).
* The walk never unlinks slave files above the master's last uid
  (`mailbox.c:2522`), a case §4.9's three cases also omit.

TLC finds each of these within six steps when sync or POP is added to
lc_safety.

## 5. Not modelled

* The ACL line of the header, a failing header lock, seen state.
* `mailbox_hash_mbox`: it calls `dir_hash_c`, which is not in this tree,
  and its only caller is reconstruct's sub-mailbox discovery.
  `mailbox_message_get_fname` only formats the uid.
* Of the lifecycle:
  * the failure of the header write;
  * `mailbox_create`'s own I/O errors;
  * `seen_create_mailbox`, `seen_copy` and flag-name copying (beyond
    their failure in rename-copy);
  * the index or cache `mailbox_copyfile` failing in sync (2562-2591)
    or rename-copy (2300-2315): the path is left without an index or
    cache file, a state outside the model, where every listed mailbox
    has both;
  * `mailbox_delete(…, 1)`, which deletes the quota root;
  * the `fatal()` on over-long paths;
  * the mailbox-list callers, which are not in this tree. Their rules (one
    mailbox per name, except during a partition move; only the cleanup
    while a rename is pending) come from the spec (`FreeName`).
* Of reconstruct: the mailbox-list ACL fix-up, user-flag validation
  (modelled in MailboxHeader, not in MailboxStore),
  `ams_extra_data` sidecar files, zero-length message files (an append
  here writes its file whole), sub-mailbox discovery and `main()`. The
  defaults branch after a failed open is reached through the upgrade
  (above); a missing index file is not, since the index always exists.
* `mailbox_calculate_flagcounts`, which the upgrade calls under the same
  three locks before writing: it is folded into `upgrade_write`, because
  the model's header keeps only `deleted`, which the old header already
  has.
* Answered/flagged counters and user flags: they behave like `deleted`.
* Byte layout: records are records, cache offsets are blob positions, and
  the index header is written whole.
* `append.c` and `index.c`, which are not in this tree, so their
  sequencing is taken from the spec (`append_cache`, `append_quota`,
  `store_nothing`).
* A failed build leaves its `.NEW` files in the code. The model drops
  them, because the next expunge truncates them with `fopen("w+")`.
* fetchnews, the mupdate client and isieve: clients of other servers
  (news peers, the mailbox-list master, a ManageSieve server) that the
  spec names as non-goals.
* idle_poll: its only entry, `idle_init`, has no caller in this tree, so
  the update callback its timer calls does not exist here. proxyd polls
  a backend without IDLE itself (`IdlePollBackend`).
* xmalloc: allocation wrappers that exit on failure; no state.
* Of proxyd:
  * STARTTLS (a TLS exchange), and the SASL steps of AUTHENTICATE, of
    which only the outcome is modelled;
  * referrals. RLIST/RLSUB turn them on, and then SELECT of a remote
    mailbox keeps the old `backend_current` (`proxyd.c:2934`), a hazard;
  * the MUPDATE kick after CREATE, DELETE and RENAME, and the commands the
    proxy answers from its own mailbox list (LIST, FIND, GETACL,
    LISTRIGHTS, MYRIGHTS, GETQUOTA, NAMESPACE, ID, CAPABILITY, the
    annotation commands): they change no proxy state;
  * the admin paths of GETQUOTAROOT and SETACL, which refer the client;
  * the parsing of literals and FETCH responses;
  * `backend_connect`, since `backend.c` is not in the tree. Only its
    contract in `backend.h` is used: it returns the cache on success, or
    NULL and leaves the cache alone.
