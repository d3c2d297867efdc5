--------------------------- MODULE MailboxAbstract ---------------------------
(***************************************************************************)
(* What a mailbox promises its clients, whatever the files: a set of       *)
(* messages keyed by uid, each with its size and \Deleted flag, and the    *)
(* last uid given out.  APPEND gives a message a uid above every uid given *)
(* before; STORE sets \Deleted on a message; EXPUNGE (or cyr_expire)       *)
(* removes some messages.  A message never changes its size, a removed uid *)
(* never comes back, and each step is atomic.                              *)
(*                                                                         *)
(* MailboxStore implements this specification under the mapping "the live *)
(* records of the index file the directory names" (see AbsMsgs there).    *)
(***************************************************************************)
EXTENDS Naturals

CONSTANT Sizes

VARIABLES msgs, last_uid

Msg == [size : Sizes, deleted : BOOLEAN]

(* Any mailbox: a new one is empty with last_uid 0; one that exists when  *)
(* the system starts holds messages with uids up to last_uid.              *)
Init ==
    /\ last_uid \in Nat
    /\ DOMAIN msgs \subseteq 1..last_uid
    /\ \A u \in DOMAIN msgs : msgs[u] \in Msg

(* A new message, with a uid above last_uid that becomes the new last_uid. *)
Append ==
    /\ last_uid' > last_uid
    /\ \E sz \in Sizes :
          msgs' = [u \in DOMAIN msgs \cup {last_uid'} |->
                      IF u = last_uid' THEN [size |-> sz, deleted |-> FALSE]
                      ELSE msgs[u]]

\* \Deleted set on one message.
Store ==
    /\ \E u \in DOMAIN msgs :
          /\ ~msgs[u].deleted
          /\ msgs' = [msgs EXCEPT ![u].deleted = TRUE]
    /\ UNCHANGED last_uid

\* Some messages removed; last_uid stays.
Expunge ==
    /\ \E gone \in SUBSET DOMAIN msgs :
          /\ gone # {}
          /\ msgs' = [u \in DOMAIN msgs \ gone |-> msgs[u]]
    /\ UNCHANGED last_uid

Next == Append \/ Store \/ Expunge

Spec == Init /\ [][Next]_<<msgs, last_uid>>
=============================================================================
