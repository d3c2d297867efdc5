---------------------------- MODULE MailboxHeader ----------------------------
(***************************************************************************)
(* The cyrus.header file of one mailbox (imap/mailbox.c) and the           *)
(* processes that read and rewrite it:                                     *)
(*   open        : mailbox_open_header reads and parses the header without *)
(*                 a lock; an old one-line header (no unique id) makes     *)
(*                 mailbox_read_header lock the header, open the index for *)
(*                 its uidvalidity, generate the unique id and write the   *)
(*                 header back (mailbox.c 658-676);                        *)
(*   reconstruct : reconstruct.c's reconstruct() up to its header: open    *)
(*                 the header, lock it, set the quota root, drop invalid   *)
(*                 user-flag names, open the index (defaults when it       *)
(*                 cannot), write index.NEW with the user flags masked,    *)
(*                 write the header, rename index.NEW.                     *)
(* mailbox_write_header always writes a new inode and renames it over      *)
(* cyrus.header, so an inode's contents never change and a process that    *)
(* parsed one keeps a copy that goes stale when the directory moves on.    *)
(* The index is reduced to its uidvalidity and the user-flag slots its     *)
(* records carry.                                                          *)
(***************************************************************************)
EXTENDS Integers, Sequences, FiniteSets, SequencesExt, FiniteSetsExt

CONSTANTS
    Procs,      \* processes that open the mailbox
    None,       \* no process
    Atoms,      \* user-flag names that are IMAP atoms (imparse_isatom)
    NonAtoms,   \* names a header may hold that are not atoms
    Null,       \* an empty flagname[] slot
    NoUid,      \* the unique id an old one-line header lacks
    NSlots,     \* MAX_USER_FLAGS
    Roots,      \* quota roots a header may name, NoRoot included
    FoundRoot,  \* quota_findroot of the mailbox's name (NoRoot if none)
    Name,       \* the mailbox name, as a sequence of character codes
    Chars,      \* character codes of the names the hash is checked on
    Mult,       \* the multiplier 251 of mailbox_make_uniqueid
    Prime,      \* PRIME of mailbox_make_uniqueid
    Width,      \* bits of unsigned long
    IOFail,     \* mailbox_write_header and the write of index.NEW may fail
    IndexFail,  \* mailbox_open_index may fail
    MaxOpen,    \* bound on opens
    MaxRecon,   \* bound on reconstruct runs
    MaxTime     \* bound on the clock time(0)

Flags == Atoms \cup NonAtoms
Slots == 1..NSlots
ASSUME Atoms \cap NonAtoms = {} /\ Null \notin Flags /\ None \notin Procs
ASSUME FoundRoot \in Roots /\ Name \in Seq(0..127) /\ Chars \subseteq 0..127
ASSUME IOFail \in BOOLEAN /\ IndexFail \in BOOLEAN
ASSUME {NSlots, Mult, Prime, Width, MaxOpen, MaxRecon, MaxTime} \subseteq Nat

VARIABLES
    hdir,       \* the inode the directory entry cyrus.header names
    hfile,      \* header inode -> [root, uid, flags] as written on disk
    nextIno,    \* next free inode number
    uv,         \* uidvalidity in cyrus.index
    bits,       \* user-flag slots set in the records of cyrus.index
    now,        \* time(0)
    hlock,      \* holder of the header lock
    pc,         \* process -> step
    h,          \* process -> its struct mailbox and locals
    started,    \* operation -> number started (bounds the model)
    fixed       \* history: reconstruct's header has been renamed in

vars == <<hdir, hfile, nextIno, uv, bits, now, hlock, pc, h, started, fixed>>

Ops == {"open", "reconstruct"}
Bound == [open |-> MaxOpen, reconstruct |-> MaxRecon]

-----------------------------------------------------------------------------
(* mailbox_make_uniqueid: hash *= 251; hash += *name++; hash %= PRIME in   *)
(* unsigned long, which wraps at 2^Width.  The values are scaled to TLC's  *)
(* integers: PRIME (2147484043) lies just above 2^31 and Prime (32771)     *)
(* just above 2^15, so Width 16 stands for a 32-bit unsigned long, in      *)
(* which hash * 251 wraps, and Width 24 for a 64-bit one, in which it      *)
(* never does.  Names are 7-bit (modified UTF-7), so *name is never       *)
(* negative.                                                               *)
HashStep(hv, c) == ((hv * Mult + c) % (2 ^ Width)) % Prime
UniqueidHash(s) == FoldLeft(HashStep, 0, s)

(* snprintf "%08lx%08lx" of the hash and the uidvalidity: two fixed-width  *)
(* hex fields, so the string is the pair.                                  *)
mailbox_make_uniqueid(v) == [hash |-> UniqueidHash(Name), uv |-> v]

(* The hash as the comment and spec 4.5 describe it: the name's           *)
(* polynomial in 251 reduced mod the prime, sum of c_i * 251^(n-i),        *)
(* computed by Horner's rule in unbounded integers.                        *)
RECURSIVE PolyHash(_)
PolyHash(s) == IF s = <<>> THEN 0
               ELSE (PolyHash(Front(s)) * Mult + Last(s)) % Prime

-----------------------------------------------------------------------------
(* The flag-name line.  mailbox_write_header writes every non-empty slot   *)
(* followed by a space, skipping empty ones; mailbox_read_header splits    *)
(* the line at spaces into slots 0, 1, ... (the empty word after the last  *)
(* space is an empty slot) and empties the slots past the last word.  So   *)
(* the line is the sequence of the names, and a slot is its position.      *)
Mut_WriteFlags_keepempty(t) == t
WriteFlags(t) == SelectSeq(t, LAMBDA f : f # Null)
ReadFlags(line) == [s \in Slots |-> IF s <= Len(line) THEN line[s] ELSE Null]

(* mailbox_read_header: the quota root before the tab, the unique id after *)
(* it (none in the old one-line form), the flag names.                     *)
Parse(f) == [root |-> f.root, uid |-> f.uid, flags |-> ReadFlags(f.flags)]
(* What mailbox_write_header writes from the struct mailbox m.             *)
Serialize(m) == [root |-> m.root, uid |-> m.uid, flags |-> WriteFlags(m.flags)]

(* reconstruct's validation of the user flags (reconstruct.c 641-653): a   *)
(* name is dropped when the slot before it is empty or it is not an atom;  *)
(* the slot is marked valid whether or not it was dropped.                 *)
(* Mutant: only non-atoms are dropped, not the names after an empty slot.  *)
Mut_DropFlag_nocascade(t, s) == t[s] \notin Atoms
DropFlag(t, s) == (s > 1 /\ t[s - 1] = Null) \/ t[s] \notin Atoms
RECURSIVE ValidateFlags(_, _)
ValidateFlags(t, s) ==
    IF s > NSlots THEN t
    ELSE ValidateFlags(IF t[s] # Null /\ DropFlag(t, s)
                       THEN [t EXCEPT ![s] = Null] ELSE t, s + 1)
ValidSlots(t) == {s \in Slots : t[s] # Null}

CurHeader == hfile[hdir]
NullHandle == [op |-> "none", hino |-> 0, root |-> FoundRoot, uid |-> NoUid,
               flags |-> [s \in Slots |-> Null], uv |-> 0, valid |-> {},
               nuv |-> 0, nbits |-> {}]

-----------------------------------------------------------------------------
(* A header mailbox_create wrote (with the unique id of the uidvalidity    *)
(* the index has), or an old one-line header without a unique id; any     *)
(* quota root, any flag names, each in one slot; records carrying flags   *)
(* that have names.                                                        *)
Init ==
    /\ \E legacy \in BOOLEAN, r \in Roots,
          line \in {l \in SeqOf(Flags, NSlots) : IsInjective(l)} :
          /\ hfile = (1 :> [root |-> r, flags |-> line,
                            uid |-> IF legacy THEN NoUid
                                    ELSE mailbox_make_uniqueid(1)])
          /\ bits \in SUBSET (1..Len(line))
    /\ hdir = 1
    /\ nextIno = 2
    /\ uv = 1
    /\ now = 1
    /\ hlock = None
    /\ pc = [p \in Procs |-> "idle"]
    /\ h = [p \in Procs |-> NullHandle]
    /\ started = [o \in Ops |-> 0]
    /\ fixed = FALSE

Begin(p) ==
    /\ pc[p] = "idle"
    /\ \E op \in Ops :
        /\ started[op] < Bound[op]
        /\ started' = [started EXCEPT ![op] = @ + 1]
        /\ h' = [h EXCEPT ![p] = [NullHandle EXCEPT !.op = op]]
    /\ pc' = [pc EXCEPT ![p] = "openHeader"]
    /\ UNCHANGED <<hdir, hfile, nextIno, uv, bits, now, hlock, fixed>>

(* Where mailbox_open_header returns to: the opener is done with the      *)
(* header; reconstruct goes on to lock it.                                 *)
AfterRead(p) == IF h[p].op = "open" THEN "close" ELSE "recLock"

(* mailbox_open_header_path: open and map cyrus.header, then               *)
(* mailbox_read_header parses it, without a lock.  An old one-line header  *)
(* has no unique id, which read_header goes on to generate.                *)
mailbox_open_header(p) ==
    /\ pc[p] = "openHeader"
    /\ LET m == Parse(CurHeader)
       IN  /\ h' = [h EXCEPT ![p].hino = hdir, ![p].root = m.root,
                             ![p].uid = m.uid, ![p].flags = m.flags]
           /\ pc' = [pc EXCEPT ![p] = IF m.uid = NoUid THEN "genLock"
                                      ELSE AfterRead(p)]
    /\ UNCHANGED <<hdir, hfile, nextIno, uv, bits, now, hlock, started, fixed>>

(* Mutant: the header lock is taken without comparing inodes.              *)
Mut_lock_header_noinode(p) ==
    /\ pc[p] \in {"genLock", "recLock"}
    /\ hlock = None
    /\ hlock' = p
    /\ pc' = [pc EXCEPT ![p] = IF pc[p] = "genLock" THEN "genIndex"
                                                    ELSE "recFix"]
    /\ UNCHANGED <<hdir, hfile, nextIno, uv, bits, now, h, started, fixed>>

(* mailbox_lock_header, from mailbox_read_header's generation of the      *)
(* unique id or from reconstruct (header_lock_count is 0 in both): a      *)
(* blocking lock; when cyrus.header is no longer the inode that was        *)
(* parsed, map the new one and run mailbox_read_header on it again.        *)
mailbox_lock_header(p) ==
    /\ pc[p] \in {"genLock", "recLock"}
    /\ hlock = None
    /\ hlock' = p
    /\ IF hdir # h[p].hino
       THEN LET m == Parse(CurHeader)
            IN  h' = [h EXCEPT ![p].hino = hdir, ![p].root = m.root,
                               ![p].uid = m.uid, ![p].flags = m.flags]
       ELSE UNCHANGED h
    /\ pc' = [pc EXCEPT ![p] = IF pc[p] = "genLock" THEN "genIndex"
                                                    ELSE "recFix"]
    /\ UNCHANGED <<hdir, hfile, nextIno, uv, bits, now, started, fixed>>

(* mailbox_read_header, old header: mailbox_open_index, whose failure is   *)
(* ignored and leaves uidvalidity 0 from zeromailbox, then                 *)
(* mailbox_make_uniqueid from that uidvalidity.                            *)
generate_uniqueid(p) ==
    /\ pc[p] = "genIndex"
    /\ \E v \in {uv} \cup (IF IndexFail THEN {h[p].uv} ELSE {}) :
          h' = [h EXCEPT ![p].uv = v, ![p].uid = mailbox_make_uniqueid(v)]
    /\ pc' = [pc EXCEPT ![p] = "genWrite"]
    /\ UNCHANGED <<hdir, hfile, nextIno, uv, bits, now, hlock, started, fixed>>

(* mailbox_write_header (header lock held): cyrus.header.NEW is written,   *)
(* fsynced, locked and renamed over cyrus.header, and becomes the          *)
(* process's header_fd; on a failure it is unlinked and nothing changes.   *)
WriteHeader(p, ok) ==
    IF ok THEN /\ hfile' = hfile @@ (nextIno :> Serialize(h[p]))
               /\ hdir' = nextIno
               /\ nextIno' = nextIno + 1
          ELSE UNCHANGED <<hfile, hdir, nextIno>>
WriteOutcomes == IF IOFail THEN BOOLEAN ELSE {TRUE}

(* mailbox_read_header's mailbox_write_header, whose result is ignored,    *)
(* and mailbox_unlock_header.                                               *)
generate_write_header(p) ==
    /\ pc[p] = "genWrite"
    /\ \E ok \in WriteOutcomes :
          /\ WriteHeader(p, ok)
          /\ h' = [h EXCEPT ![p].hino = IF ok THEN nextIno ELSE @]
    /\ hlock' = None
    /\ pc' = [pc EXCEPT ![p] = AfterRead(p)]
    /\ UNCHANGED <<uv, bits, now, started, fixed>>

(* reconstruct with the header locked (header_lock_count set to 1): the    *)
(* quota root becomes quota_findroot's, and the user flags are validated.  *)
reconstruct_fix_header(p) ==
    /\ pc[p] = "recFix"
    /\ h' = [h EXCEPT ![p].root = FoundRoot,
                      ![p].flags = ValidateFlags(@, 1),
                      ![p].valid = ValidSlots(h[p].flags)]
    /\ pc' = [pc EXCEPT ![p] = "recIndex"]
    /\ UNCHANGED <<hdir, hfile, nextIno, uv, bits, now, hlock, started, fixed>>

(* mailbox_open_index, or the defaults when it fails (exists 0,           *)
(* uidvalidity time(0)); index.NEW from the message files, each record     *)
(* keeping the old record's user flags masked by valid_user_flags (none    *)
(* without an old index); uidvalidity set to now when 0 or in the future; *)
(* a unique id generated if the header had none.  A failed write of       *)
(* index.NEW closes the mailbox.                                           *)
reconstruct_build_index(p) ==
    /\ pc[p] = "recIndex"
    /\ \E ok \in IF IndexFail THEN BOOLEAN ELSE {TRUE}, wok \in WriteOutcomes :
        LET v  == IF ok THEN uv ELSE now
            nv == IF v = 0 \/ v > now THEN now ELSE v
        IN  /\ h' = [h EXCEPT ![p].uv = nv, ![p].nuv = nv,
                       ![p].nbits = (IF ok THEN bits ELSE {}) \cap h[p].valid,
                       ![p].uid = IF @ = NoUid THEN mailbox_make_uniqueid(nv)
                                               ELSE @]
            /\ pc' = [pc EXCEPT ![p] = IF wok THEN "recWrite" ELSE "close"]
    /\ UNCHANGED <<hdir, hfile, nextIno, uv, bits, now, hlock, started, fixed>>

(* reconstruct's mailbox_write_header; a failure closes the mailbox and    *)
(* leaves index.NEW unrenamed.                                             *)
reconstruct_write_header(p) ==
    /\ pc[p] = "recWrite"
    /\ \E ok \in WriteOutcomes :
          /\ WriteHeader(p, ok)
          /\ h' = [h EXCEPT ![p].hino = IF ok THEN nextIno ELSE @]
          /\ fixed' = (fixed \/ ok)
          /\ pc' = [pc EXCEPT ![p] = IF ok THEN "recRename" ELSE "close"]
    /\ UNCHANGED <<uv, bits, now, hlock, started>>

(* rename index.NEW over cyrus.index (the cache rename and                 *)
(* seen_reconstruct follow and change nothing here); a failed rename       *)
(* closes the mailbox.                                                     *)
reconstruct_rename_index(p) ==
    /\ pc[p] = "recRename"
    /\ \/ /\ uv' = h[p].nuv
          /\ bits' = h[p].nbits
       \/ /\ IOFail
          /\ UNCHANGED <<uv, bits>>
    /\ pc' = [pc EXCEPT ![p] = "close"]
    /\ UNCHANGED <<hdir, hfile, nextIno, now, hlock, h, started, fixed>>

(* mailbox_close: closing header_fd drops the header lock.                 *)
mailbox_close(p) ==
    /\ pc[p] = "close"
    /\ hlock' = IF hlock = p THEN None ELSE hlock
    /\ pc' = [pc EXCEPT ![p] = "idle"]
    /\ h' = [h EXCEPT ![p] = NullHandle]
    /\ UNCHANGED <<hdir, hfile, nextIno, uv, bits, now, started, fixed>>

(* time(0) moves on.                                                       *)
Tick ==
    /\ now < MaxTime
    /\ now' = now + 1
    /\ UNCHANGED <<hdir, hfile, nextIno, uv, bits, hlock, pc, h, started, fixed>>

Step(p) ==
    \/ mailbox_open_header(p)
    \/ mailbox_lock_header(p)
    \/ generate_uniqueid(p)
    \/ generate_write_header(p)
    \/ reconstruct_fix_header(p)
    \/ reconstruct_build_index(p)
    \/ reconstruct_write_header(p)
    \/ reconstruct_rename_index(p)
    \/ mailbox_close(p)

(* Every process is idle and no operation has budget left.                *)
Terminated ==
    /\ \A p \in Procs : pc[p] = "idle"
    /\ \A op \in Ops : started[op] >= Bound[op]
    /\ UNCHANGED vars

Next == (\E p \in Procs : Begin(p) \/ Step(p)) \/ Tick \/ Terminated

(* A process blocks only in the header lock, which the holder releases.   *)
Spec == Init /\ [][Next]_vars /\ \A p \in Procs : WF_vars(Step(p))

-----------------------------------------------------------------------------
Steps == {"idle", "openHeader", "genLock", "genIndex", "genWrite", "recLock",
          "recFix", "recIndex", "recWrite", "recRename", "close"}
Uniqueids == [hash: 0..(Prime - 1), uv: Nat] \cup {NoUid}
HeaderFile == [root: Roots, uid: Uniqueids, flags: Seq(Flags)]

TypeOK ==
    /\ hdir \in DOMAIN hfile /\ DOMAIN hfile = 1..(nextIno - 1)
    /\ \A i \in DOMAIN hfile : hfile[i] \in HeaderFile
    /\ bits \subseteq Slots /\ uv \in Nat /\ now \in 1..MaxTime
    /\ hlock \in Procs \cup {None}
    /\ pc \in [Procs -> Steps]
    /\ \A p \in Procs : h[p].flags \in [Slots -> Flags \cup {Null}]
    /\ fixed \in BOOLEAN

(* The flag table mailbox_read_header gives for a header inode.            *)
Table(i) == ReadFlags(hfile[i].flags)

(* A user flag is a slot number in the index records, so a name may be     *)
(* dropped from the header but never move to another slot: every slot of  *)
(* the current header holds the name it held in the first header, or none. *)
(* mailbox_write_header skips empty slots, so this rests on every table    *)
(* written having no empty slot before a used one: reconstruct drops the   *)
(* names after an invalid one for this reason.                             *)
FlagsKeepSlots ==
    \A s \in Slots : Table(hdir)[s] \in {Table(1)[s], Null}

(* Once reconstruct's repaired header is in place it stays repaired: the   *)
(* header names quota_findroot's root and no flag that is not an atom.    *)
(* An opener that parsed an old one-line header before the repair and     *)
(* generates its unique id after it must write back the repaired header,   *)
(* which mailbox_lock_header's inode check rereads, not its own copy.     *)
RepairedHeaderStays ==
    fixed => /\ CurHeader.root = FoundRoot
             /\ \A i \in DOMAIN CurHeader.flags : CurHeader.flags[i] \in Atoms

(* Not checked by a run: it fails in the initial state with Width = 16     *)
(* (a 32-bit unsigned long) and cannot fail with Width = 24 (64-bit).      *)
(* Every unique id a header carries, generated by mailbox_read_header or  *)
(* by reconstruct, hashes the mailbox name as spec 4.5 says, by the        *)
(* polynomial mod the prime; and so does mailbox_make_uniqueid's loop for  *)
(* every name of up to three characters: hash * 251 + c never wraps in an  *)
(* unsigned long of Width bits.                                            *)
UniqueidHashIsPolynomial ==
    /\ \A i \in DOMAIN hfile :
          hfile[i].uid # NoUid => hfile[i].uid.hash = PolyHash(Name)
    /\ \A s \in SeqOf(Chars, 3) : UniqueidHash(s) = PolyHash(s)

(* When a reconstruct run finishes, every user flag the index records     *)
(* carry has a name in the header (spec 4.11 step 5: records inherit only  *)
(* the valid user flags).  Not checked by a passing run: reconstruct marks *)
(* a dropped slot valid (reconstruct.c 652), so a record keeps the flag of *)
(* a name it dropped; and a failed rename of the index after the header    *)
(* was renamed in leaves the old records beside the new header.            *)
ReconstructFlagsNamed ==
    [][\A p \in Procs :
         pc[p] = "recRename" /\ pc'[p] = "close" =>
            \A s \in bits' : Table(hdir')[s] # Null]_vars
=============================================================================
