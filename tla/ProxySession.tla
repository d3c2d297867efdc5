--------------------------- MODULE ProxySession ---------------------------
(***************************************************************************)
(* One client session of the IMAP proxy of a Murder (imap/proxyd.c).  The  *)
(* proxy keeps a cache of connections to the backend servers               *)
(* (backend_cached), each with an idle timeout, a pointer to the backend   *)
(* holding the selected mailbox (backend_current) and one to the backend   *)
(* holding the user's INBOX (backend_inbox), and forwards each client      *)
(* command to one or two backends, reading their answers up to the tagged  *)
(* response with pipe_until_tag.                                           *)
(*                                                                         *)
(* proxyd handles one command at a time and blocks while it does, so each *)
(* command handler is one action.  What a backend answers is chosen from   *)
(* the state of its connection: a live one answers OK or NO (BAD is        *)
(* handled like NO), a dead one makes prot_fgets fail ("LOST") or, when    *)
(* the connection died inside a literal, prot_read return 0 ("LOSTLIT").   *)
(* A backend closes its side of a connection between two commands (Drop);  *)
(* the proxy's idle timeout fires while it waits for the client            *)
(* (BackendTimeout).  Mailbox names, literals and response texts are       *)
(* abstracted away; a message is a model value.                            *)
(***************************************************************************)
EXTENDS Naturals, FiniteSets, FiniteSetsExt

CONSTANTS
    Servers,    \* backend servers
    Mailboxes,  \* mailbox names the client uses
    Msgs,       \* messages the client appends
    Loc,        \* mlookup: mailbox -> server holding it, or NoServer
    Inbox,      \* the user's INBOX
    Users,      \* users that log in, one client after the other
    NoUser,     \* proxyd_userid is NULL
    NoServer,   \* a NULL struct backend *
    NoMailbox,  \* nothing selected
    IdleCapa,   \* backends whose capabilities include IDLE (CAPA_IDLE)
    LitDrops,   \* a connection may die inside a literal
    MaxDrop     \* bound on backend connection drops

ASSUME Loc \in [Mailboxes -> Servers \cup {NoServer}] /\ Inbox \in Mailboxes
ASSUME IdleCapa \subseteq Servers /\ NoUser \notin Users /\ LitDrops \in BOOLEAN /\ MaxDrop \in Nat

VARIABLES
    px,         \* the proxy process: its backend connections and pointers
    userid,     \* proxyd_userid, or NoUser
    csel,       \* the mailbox the client was told is selected
    stored,     \* <<mailbox, message>> pairs a backend has stored
    acked,      \* <<mailbox, message>> pairs the client was told are stored
    sent,       \* messages the client has appended
    hung,       \* a command ended without a tagged response
    drops       \* connection drops so far

vars == <<px, userid, csel, stored, acked, sent, hung, drops>>

Results == {"OK", "NO"}

(* The proxy state, as a record so that a handler can apply the helpers  *)
(* it calls one after the other:                                           *)
(*   cached  servers in backend_cached                                     *)
(*   conn    server -> its timeout is set (the connection is in use)       *)
(*   live    server -> the backend still has its side of it open           *)
(*   bsel    server -> the mailbox selected on that connection             *)
(*   last    server -> s->last_result, the last tagged result read         *)
(*   cur     backend_current;  inbox  backend_inbox                        *)
(*   owner   server -> the user its connection authenticated as            *)
(*   up      the process has not exited (fatal, shut_down)                 *)
(*   idle    cmd_idle's loop runs: the client was told "+ go ahead"        *)
PxType ==
    [cached : SUBSET Servers, conn : [Servers -> BOOLEAN],
     live : [Servers -> BOOLEAN], bsel : [Servers -> Mailboxes \cup {NoMailbox}],
     last : [Servers -> Results \cup {"none"}],
     owner : [Servers -> Users \cup {NoUser}],
     cur : Servers \cup {NoServer}, inbox : Servers \cup {NoServer},
     up : BOOLEAN, idle : BOOLEAN]

\* What pipe_until_tag can read from server s.
Answers(st, s) ==
    IF st.live[s] THEN Results
    ELSE {"LOST"} \cup (IF LitDrops THEN {"LOSTLIT"} ELSE {})

(* Mutant: backend_inbox is not cleared when its server is downed.        *)
Mut_downserver_keep_inbox(st, s) ==
    IF ~st.conn[s] THEN st
    ELSE [st EXCEPT !.conn[s] = FALSE, !.live[s] = FALSE,
                    !.bsel[s] = NoMailbox,
                    !.cur = IF @ = s THEN NoServer ELSE @]

\* proxyd_downserver: disconnect, clear the pointers to it, drop the timeout.
proxyd_downserver(st, s) ==
    IF ~st.conn[s] THEN st
    ELSE [st EXCEPT !.conn[s] = FALSE, !.live[s] = FALSE,
                    !.bsel[s] = NoMailbox,
                    !.inbox = IF @ = s THEN NoServer ELSE @,
                    !.cur = IF @ = s THEN NoServer ELSE @]

\* proxyd_downserver applied to every connection in backend_cached.
DownCached(st) == FoldSet(LAMBDA s, acc : proxyd_downserver(acc, s), st, st.cached)

(* shut_down, reached from fatal: disconnect every cached backend and exit. *)
shut_down(st) == [DownCached(st) EXCEPT !.up = FALSE]

(* Mutant: the line read is copied to last_result before the read is      *)
(* checked, so a failed read leaves garbage there.                         *)
Mut_pipe_until_tag_copy_first(st, s, force, a) ==
    LET st1 == [st EXCEPT !.last[s] = a]
    IN  CASE a \in Results -> [r |-> a, st |-> st1]
          [] a = "LOST" /\ s = st.cur /\ ~force ->
                 [r |-> "FATAL", st |-> shut_down(st1)]
          [] a = "LOST" -> [r |-> "NOCONN", st |-> proxyd_downserver(st1, s)]
          [] a = "LOSTLIT" -> [r |-> "EOF", st |-> st1]

(* pipe_until_tag(s, tag, force_notfatal) when the backend answers a:     *)
(* a tagged OK or NO is kept in last_result; a failed read is fatal for    *)
(* backend_current unless forced, and otherwise downs the server; a        *)
(* literal cut short returns -1 and leaves the connection as it is.        *)
pipe_until_tag(st, s, force, a) ==
    CASE a \in Results -> [r |-> a, st |-> [st EXCEPT !.last[s] = a]]
      [] a = "LOST" /\ s = st.cur /\ ~force ->
             [r |-> "FATAL", st |-> shut_down(st)]
      [] a = "LOST" -> [r |-> "NOCONN", st |-> proxyd_downserver(st, s)]
      [] a = "LOSTLIT" -> [r |-> "EOF", st |-> st]

(* The tagged response pipe_including_tag gives the client for result r: *)
(* the backend's, NO for a lost connection, and none for -1.               *)
pipe_including_tag(r) ==
    CASE r \in Results -> r
      [] r = "NOCONN" -> "NO"
      [] OTHER -> "NONE"

(* proxyd_findserver(server) when backend_connect succeeds iff ok: a       *)
(* cached connection whose timeout is set is reused as it is, even if the  *)
(* backend has closed it; otherwise a new one is made, authenticated as    *)
(* proxyd_userid, and cached.                                              *)
proxyd_findserver(st, s, ok) ==
    IF st.conn[s] THEN [ok |-> TRUE, st |-> [st EXCEPT !.cached = @ \cup {s}]]
    ELSE IF ~ok THEN [ok |-> FALSE, st |-> st]
    ELSE [ok |-> TRUE,
          st |-> [st EXCEPT !.conn[s] = TRUE, !.live[s] = TRUE,
                            !.bsel[s] = NoMailbox, !.owner[s] = userid,
                            !.cached = @ \cup {s}]]

(* What backend_connect may do for a lookup of m: succeed or fail when a  *)
(* connection is made, nothing when none is (the value is then unused).    *)
Connects(st, m) ==
    IF Loc[m] # NoServer /\ ~st.conn[Loc[m]] THEN BOOLEAN ELSE {TRUE}

\* mlookup then proxyd_findserver: the mailbox's backend, or NULL.
Lookup(st, m, ok) ==
    IF Loc[m] = NoServer THEN [ok |-> FALSE, st |-> st]
    ELSE proxyd_findserver(st, Loc[m], ok)

(* proxyd_findinboxserver: the backend of the user's INBOX, which the      *)
(* callers keep as backend_inbox.                                          *)
proxyd_findinboxserver(st, ok) ==
    LET g == Lookup(st, Inbox, ok)
    IN  IF g.ok THEN [ok |-> TRUE, st |-> [g.st EXCEPT !.inbox = Loc[Inbox]]]
        ELSE g

(* pipe_to_end_of_response: copy one untagged response; a failed read is  *)
(* handled as in pipe_until_tag, a literal cut short returns -1.           *)
pipe_to_end_of_response(st, s, force, a) ==
    CASE a = "LOST" /\ s = st.cur /\ ~force ->
             [r |-> "FATAL", st |-> shut_down(st)]
      [] a = "LOST" -> [r |-> "NOCONN", st |-> proxyd_downserver(st, s)]
      [] a = "LOSTLIT" -> [r |-> "EOF", st |-> st]
      [] OTHER -> [r |-> "OK", st |-> st]

(* pipe_lsub: the LSUB lines are rewritten (abstracted away here), other  *)
(* untagged lines go through pipe_to_end_of_response, and the tagged line  *)
(* sets last_result; EOF or a malformed line downs the server, or is fatal *)
(* for backend_current.                                                    *)
pipe_lsub(st, s, force, a) ==
    IF a \in Results THEN [r |-> a, st |-> [st EXCEPT !.last[s] = a]]
    ELSE pipe_to_end_of_response(st, s, force, a)

(* The Noop a handler sends to backend_current after working on another  *)
(* server, so that its untagged responses reach the client.                *)
NoopCurrent(st, a) ==
    IF st.cur = NoServer THEN st ELSE pipe_until_tag(st, st.cur, FALSE, a).st

\* Messages stored in mailbox m.
MsgsIn(m) == {x \in Msgs : <<m, x>> \in stored}

\* The client may send a command: the session is up and not waiting.
Ready == px.up /\ ~hung /\ ~px.idle

\* cmdloop lets only LOGIN, AUTHENTICATE, LOGOUT, NOOP, ... through before this.
LoggedIn == userid # NoUser

\* The answers a handler may read from s, or a placeholder if it reads none.
Pick(st, s, used) == IF used THEN Answers(st, s) ELSE {"OK"}

\* The command leaves the client waiting: the process is up, no tag came.
Hang(p) == p.st.up /\ pipe_including_tag(p.r) = "NONE"

(* An Unselect sent to the old backend_current when SELECT switches       *)
(* servers; a lost connection there is not fatal (force_notfatal = 1).     *)
Unselect(st, s, a) ==
    LET p == pipe_until_tag(st, s, TRUE, a)
    IN  IF p.r = "OK" THEN [p.st EXCEPT !.bsel[s] = NoMailbox] ELSE p.st

-----------------------------------------------------------------------------
(* cmd_login(u): LOGIN as u when no user is logged in; a failed login    *)
(* changes nothing, so only the successful one is an action.               *)
cmd_login(u) ==
    /\ Ready /\ ~LoggedIn
    /\ userid' = u
    /\ UNCHANGED <<px, csel, stored, acked, sent, hung, drops>>

(* cmd_authenticate(u): a SASL exchange that ends with proxyd_userid set, *)
(* like LOGIN; a failed exchange changes nothing.                          *)
cmd_authenticate(u) == cmd_login(u)

(* cmd_select: find the mailbox's backend, Unselect on backend_current if *)
(* that is another server, make the new one current, and pipe the SELECT   *)
(* to it; a failed SELECT clears backend_current.                          *)
cmd_select(m) ==
    /\ Ready /\ LoggedIn
    /\ \E ok \in Connects(px, m) :
       LET f == Lookup(px, m, ok)
           next == IF f.ok THEN Loc[m] ELSE NoServer
           old == f.st.cur
           switch == old # NoServer /\ old # next
       IN \E a1 \in Pick(f.st, old, switch) :
          LET st1 == [(IF switch THEN Unselect(f.st, old, a1) ELSE f.st)
                          EXCEPT !.cur = next]
          IN \E a2 \in Pick(st1, next, f.ok) :
             LET p == pipe_until_tag(st1, next, FALSE, a2)
             IN IF ~f.ok
                THEN /\ px' = st1
                     /\ csel' = NoMailbox
                     /\ hung' = FALSE
                ELSE /\ px' = CASE p.r = "OK" -> [p.st EXCEPT !.bsel[next] = m]
                                [] p.r = "NO" -> [p.st EXCEPT !.cur = NoServer,
                                                   !.bsel[next] = NoMailbox]
                                [] OTHER -> [p.st EXCEPT !.cur = NoServer]
                     /\ csel' = CASE p.r = "OK" -> m
                                  [] p.r = "NO" -> NoMailbox
                                  [] OTHER -> csel
                     /\ hung' = Hang(p)
    /\ UNCHANGED <<userid, stored, acked, sent, drops>>

(* cmd_close and cmd_unselect: pipe CLOSE or UNSELECT to backend_current  *)
(* and clear backend_current whatever the answer.                          *)
cmd_close ==
    /\ Ready /\ LoggedIn /\ px.cur # NoServer
    /\ \E a \in Answers(px, px.cur) :
       LET p == pipe_until_tag(px, px.cur, FALSE, a)
       IN /\ px' = [p.st EXCEPT !.cur = NoServer,
                      !.bsel[px.cur] = IF p.r = "OK" THEN NoMailbox ELSE @]
          /\ csel' = IF Hang(p) THEN csel ELSE NoMailbox
          /\ hung' = Hang(p)
    /\ UNCHANGED <<userid, stored, acked, sent, drops>>

(* cmd_noop (NOOP and CHECK): piped to backend_current if there is one,   *)
(* else answered OK by the proxy; allowed before LOGIN.                    *)
cmd_noop ==
    /\ Ready
    /\ IF px.cur = NoServer
       THEN UNCHANGED <<px, hung>>
       ELSE \E a \in Answers(px, px.cur) :
            LET p == pipe_until_tag(px, px.cur, FALSE, a)
            IN px' = p.st /\ hung' = Hang(p)
    /\ UNCHANGED <<userid, csel, stored, acked, sent, drops>>

(* cmd_fetch and the other commands on the selected mailbox (STORE,       *)
(* SEARCH, EXPUNGE, ...): pipe_command then pipe_including_tag on          *)
(* backend_current; cmdloop answers BAD without one.                       *)
cmd_fetch ==
    /\ Ready /\ LoggedIn /\ px.cur # NoServer
    /\ \E a \in Answers(px, px.cur) :
       LET p == pipe_until_tag(px, px.cur, FALSE, a)
       IN px' = p.st /\ hung' = Hang(p)
    /\ UNCHANGED <<userid, csel, stored, acked, sent, drops>>

\* Whether a handler that worked on server s then sends Noop to backend_current.
NoopNeeded(st, s) == st.up /\ st.cur \notin {NoServer, s}

(* cmd_append(m) with message x: pipe the APPEND to the mailbox's backend *)
(* (the result of pipe_until_tag is not looked at), Noop backend_current  *)
(* if it is another server, then answer the client with s->last_result.    *)
cmd_append(m, x) ==
    /\ Ready /\ LoggedIn /\ x \notin sent
    /\ sent' = sent \cup {x}
    /\ \E ok \in Connects(px, m) :
       LET f == Lookup(px, m, ok)
           s == Loc[m]
       IN \E a1 \in Pick(f.st, s, f.ok) :
          LET p == IF f.ok THEN pipe_until_tag(f.st, s, FALSE, a1)
                   ELSE [r |-> "NONE", st |-> f.st]
          IN \E a2 \in Pick(p.st, p.st.cur, NoopNeeded(p.st, s)) :
             LET n == IF NoopNeeded(p.st, s) THEN NoopCurrent(p.st, a2) ELSE p.st
                 reply == IF f.ok THEN n.last[s] ELSE "NO"
             IN /\ px' = n
                /\ stored' = IF p.r = "OK" THEN stored \cup {<<m, x>>} ELSE stored
                /\ acked' = IF n.up /\ reply = "OK"
                            THEN acked \cup {<<m, x>>} ELSE acked
    /\ UNCHANGED <<userid, csel, hung, drops>>

(* cmd_copy(m) of the selected mailbox's messages.  On the same backend   *)
(* the COPY is piped; across backends the proxy FETCHes the messages from  *)
(* backend_current (whose loss is fatal there), APPENDs them to the other  *)
(* backend, and answers OK [COPYUID] or that backend's last_result.        *)
cmd_copy(m) ==
    /\ Ready /\ LoggedIn /\ px.cur # NoServer
    /\ \E ok \in Connects(px, m) :
       LET f == Lookup(px, m, ok)
           s == Loc[m]
           cur == px.cur
           copies == {m} \X MsgsIn(px.bsel[cur])
           same == f.ok /\ s = cur
           cross == f.ok /\ s # cur /\ f.st.live[cur]
       IN \E a \in Pick(f.st, s, same \/ cross) :
          LET c1 == IF cross THEN [f.st EXCEPT !.last[cur] = "OK"] ELSE f.st
              p == pipe_until_tag(c1, s, FALSE, a)
              reply == CASE same -> pipe_including_tag(p.r)
                         [] cross /\ p.r = "OK" -> "OK"
                         [] cross -> p.st.last[s]
                         [] OTHER -> "NO"
          IN /\ px' = CASE same \/ cross -> p.st
                        [] f.ok -> shut_down(f.st)
                        [] OTHER -> f.st
             /\ stored' = IF (same \/ cross) /\ p.r = "OK"
                          THEN stored \cup copies ELSE stored
             /\ acked' = IF (same \/ cross) /\ p.st.up /\ reply = "OK"
                         THEN acked \cup copies ELSE acked
             /\ hung' = (same /\ Hang(p))
    /\ UNCHANGED <<userid, csel, sent, drops>>

(* cmd_list for LSUB: find backend_inbox if it is not set, pipe the LSUB  *)
(* to it with pipe_lsub, Noop backend_current if it is another server, and *)
(* answer OK whatever happened.                                            *)
cmd_list ==
    /\ Ready /\ LoggedIn
    /\ \E ok \in Connects(px, Inbox) :
       LET i == IF px.inbox # NoServer THEN [ok |-> TRUE, st |-> px]
                ELSE proxyd_findinboxserver(px, ok)
           ib == i.st.inbox
       IN \E a1 \in Pick(i.st, ib, i.ok) :
          LET p == IF i.ok THEN pipe_lsub(i.st, ib, FALSE, a1)
                   ELSE [r |-> "NONE", st |-> i.st]
          IN \E a2 \in Pick(p.st, p.st.cur, NoopNeeded(p.st, p.st.inbox)) :
             px' = IF NoopNeeded(p.st, p.st.inbox) THEN NoopCurrent(p.st, a2)
                   ELSE p.st
    /\ UNCHANGED <<userid, csel, stored, acked, sent, hung, drops>>

(* cmd_changesub(m, add): SUBSCRIBE or UNSUBSCRIBE, piped to backend_inbox *)
(* (found first if unset); SUBSCRIBE to a mailbox mlookup does not know is *)
(* answered NO by the proxy.                                               *)
cmd_changesub(m, add) ==
    /\ Ready /\ LoggedIn
    /\ \E ok \in Connects(px, Inbox) :
       LET i == IF px.inbox # NoServer THEN [ok |-> TRUE, st |-> px]
                ELSE proxyd_findinboxserver(px, ok)
           send == i.ok /\ ~(add /\ Loc[m] = NoServer)
       IN \E a \in Pick(i.st, i.st.inbox, send) :
          LET p == IF send THEN pipe_until_tag(i.st, i.st.inbox, FALSE, a)
                   ELSE [r |-> "NO", st |-> i.st]
          IN px' = p.st /\ hung' = Hang(p)
    /\ UNCHANGED <<userid, csel, stored, acked, sent, drops>>

(* The body of cmd_delete, and of the other handlers that send one command *)
(* to the mailbox's backend and pipe_including_tag its answer, with no     *)
(* Noop to backend_current: mlookup, proxyd_findserver, send, pipe.  The   *)
(* client has not sent RLIST or RLSUB, so supports_referrals is 0.         *)
PipeToMailbox(m) ==
    /\ Ready /\ LoggedIn
    /\ \E ok \in Connects(px, m) :
       LET f == Lookup(px, m, ok)
       IN \E a \in Pick(f.st, Loc[m], f.ok) :
          LET p == IF f.ok THEN pipe_until_tag(f.st, Loc[m], FALSE, a)
                   ELSE [r |-> "NO", st |-> f.st]
          IN px' = p.st /\ hung' = Hang(p)
    /\ UNCHANGED <<userid, csel, stored, acked, sent, drops>>

\* cmd_delete(m): DELETE piped to the mailbox's backend.
cmd_delete(m) == PipeToMailbox(m)

(* cmd_create(m): mboxlist_createmailboxcheck names the server (Loc[m]),  *)
(* and the CREATE is piped to it.                                          *)
cmd_create(m) == PipeToMailbox(m)

\* cmd_setacl(m): SETACL or DELETEACL piped to the mailbox's backend.
cmd_setacl(m) == PipeToMailbox(m)

\* cmd_getquotaroot(m) of a user who is not an admin: piped to the backend.
cmd_getquotaroot(m) == PipeToMailbox(m)

(* cmd_rename(m): find the old mailbox's backend; a cross-partition move  *)
(* is refused by the proxy after that (send = FALSE); otherwise RENAME or  *)
(* XFER is piped to it.                                                    *)
cmd_rename(m) ==
    /\ Ready /\ LoggedIn
    /\ \E ok \in Connects(px, m), send \in BOOLEAN :
       LET f == Lookup(px, m, ok)
           go == f.ok /\ send
       IN \E a \in Pick(f.st, Loc[m], go) :
          LET p == IF go THEN pipe_until_tag(f.st, Loc[m], FALSE, a)
                   ELSE [r |-> "NO", st |-> f.st]
          IN px' = p.st /\ hung' = Hang(p)
    /\ UNCHANGED <<userid, csel, stored, acked, sent, drops>>

(* cmd_status(m): pipe STATUS to the mailbox's backend, Noop              *)
(* backend_current if it is another server, and answer with that           *)
(* backend's last_result.                                                  *)
cmd_status(m) ==
    /\ Ready /\ LoggedIn
    /\ \E ok \in Connects(px, m) :
       LET f == Lookup(px, m, ok)
           s == Loc[m]
       IN \E a1 \in Pick(f.st, s, f.ok) :
          LET p == IF f.ok THEN pipe_until_tag(f.st, s, FALSE, a1)
                   ELSE [r |-> "NONE", st |-> f.st]
          IN \E a2 \in Pick(p.st, p.st.cur, f.ok /\ NoopNeeded(p.st, s)) :
             px' = IF f.ok /\ NoopNeeded(p.st, s) THEN NoopCurrent(p.st, a2)
                   ELSE p.st
    /\ UNCHANGED <<userid, csel, stored, acked, sent, hung, drops>>

\* What backend_current answers to IDLE: a continuation or its tagged NO.
IdleAnswers(st, s) == IF st.live[s] THEN {"+", "NO"} ELSE {"LOST"}

\* backend_current announced IDLE in its capabilities (CAPA_IDLE).
IdleOnBackend(st) == st.cur # NoServer /\ st.cur \in IdleCapa

(* cmd_idle, up to its loop (imapidlepoll is set).  A backend_current     *)
(* that announced IDLE is sent IDLE and its first line read: a failed      *)
(* prot_fgets is answered NO with the connection kept as it is, a line     *)
(* other than a continuation (its tagged NO) is passed to the client, and  *)
(* a continuation starts the loop.  Otherwise the loop starts at once.     *)
cmd_idle ==
    /\ Ready /\ LoggedIn
    /\ \E a \in IF IdleOnBackend(px) THEN IdleAnswers(px, px.cur) ELSE {"+"} :
         /\ px' = IF a = "+" THEN [px EXCEPT !.idle = TRUE] ELSE px
         /\ hung' = FALSE
    /\ UNCHANGED <<userid, csel, stored, acked, sent, drops>>

(* One pass of cmd_idle's loop for a backend_current without IDLE: a Noop *)
(* piped with pipe_until_tag (force_notfatal = 0), so that a lost          *)
(* connection is fatal, then prot_select waits for idle_period.            *)
IdlePollBackend ==
    /\ px.up /\ px.idle
    /\ px.cur # NoServer /\ ~IdleOnBackend(px)
    /\ \E a \in Answers(px, px.cur) :
         px' = pipe_until_tag(px, px.cur, FALSE, a).st
    /\ UNCHANGED <<userid, csel, stored, acked, sent, hung, drops>>

(* In cmd_idle's loop prot_select finds the connection of a backend_current *)
(* in IDLE readable at EOF: prot_read fails and fatal() shuts the process   *)
(* down.  Untagged data it sends is copied to the client and changes       *)
(* nothing here.                                                           *)
IdleBackendLost ==
    /\ px.up /\ px.idle
    /\ IdleOnBackend(px) /\ ~px.live[px.cur]
    /\ px' = shut_down(px)
    /\ UNCHANGED <<userid, csel, stored, acked, sent, hung, drops>>

(* The end of cmd_idle's loop: a backend_current in IDLE is sent DONE and *)
(* its tagged answer read with pipe_until_tag (force_notfatal = 0).        *)
IdleEnd(st, a) ==
    [(IF IdleOnBackend(st) THEN pipe_until_tag(st, st.cur, FALSE, a).st ELSE st)
        EXCEPT !.idle = FALSE]

(* The client sends a line and the loop ends: after IdleEnd the client     *)
(* gets OK for "Done" and BAD for any other word.                          *)
IdleDone ==
    /\ px.up /\ px.idle
    /\ \E a \in Pick(px, px.cur, IdleOnBackend(px)) : px' = IdleEnd(px, a)
    /\ UNCHANGED <<userid, csel, stored, acked, sent, hung, drops>>

(* Mutant: proxyd_reset forgets the backend connections: it neither downs *)
(* nor frees the cache.                                                    *)
Mut_proxyd_reset_keep_cache(st) == [st EXCEPT !.inbox = NoServer, !.cur = NoServer]

(* proxyd_reset, after cmdloop returns: down and free every cached backend *)
(* connection and clear backend_inbox and backend_current, so that the     *)
(* process can serve its next client.                                      *)
proxyd_reset(st) ==
    [DownCached(st) EXCEPT !.cached = {}, !.inbox = NoServer, !.cur = NoServer]

(* The end of a client's session in service_main: cmdloop has returned,   *)
(* proxyd_reset runs, proxyd_userid is freed, and the next client starts   *)
(* with nothing selected.                                                  *)
service_main(st) ==
    /\ px' = proxyd_reset(st)
    /\ userid' = NoUser
    /\ csel' = NoMailbox
    /\ hung' = FALSE
    /\ UNCHANGED <<stored, acked, sent, drops>>

\* LOGOUT: BYE and OK, and cmdloop returns.
Logout == Ready /\ service_main(px)

(* EOF on the client connection (it closed, or the inactivity timeout of  *)
(* proxyd_in fired): cmdloop returns, also while the client waits.  Inside *)
(* cmd_idle's loop getword reads the EOF after IdleEnd, whose lost         *)
(* connection is fatal before cmdloop sees the EOF.                        *)
ClientEOF ==
    /\ px.up
    /\ \E a \in Pick(px, px.cur, px.idle /\ IdleOnBackend(px)) :
         LET st == IF px.idle THEN IdleEnd(px, a) ELSE px
         IN IF st.up THEN service_main(st)
            ELSE px' = st /\ UNCHANGED <<userid, csel, stored, acked, sent, hung, drops>>

(* The shutdown file exists when cmdloop reads the next command of a user *)
(* who is not an admin, or at a pass of cmd_idle's loop: BYE and           *)
(* shut_down(0) (the DONE cmd_idle sends first changes nothing that        *)
(* outlives the exit).                                                     *)
ShutdownFile ==
    /\ px.up
    /\ px' = shut_down(px)
    /\ UNCHANGED <<userid, csel, stored, acked, sent, hung, drops>>

(* Mutant: the timeout downs backend_current too.                          *)
Mut_backend_timeout_any(s) ==
    /\ px.up /\ px.conn[s]
    /\ px' = proxyd_downserver(px, s)
    /\ UNCHANGED <<userid, csel, stored, acked, sent, hung, drops>>

(* backend_timeout: the idle timeout of a cached connection fires while   *)
(* the proxy waits for the client; it downs any backend but the current.  *)
backend_timeout(s) ==
    /\ px.up /\ px.conn[s]
    /\ s # px.cur
    /\ px' = proxyd_downserver(px, s)
    /\ UNCHANGED <<userid, csel, stored, acked, sent, hung, drops>>

\* A backend closes its side of a connection (restart, its own timeout).
Drop(s) ==
    /\ px.up /\ px.conn[s] /\ px.live[s] /\ drops < MaxDrop
    /\ px' = [px EXCEPT !.live[s] = FALSE]
    /\ drops' = drops + 1
    /\ UNCHANGED <<userid, csel, stored, acked, sent, hung>>

\* The process has exited; the session does nothing more.
Terminated ==
    /\ ~px.up
    /\ UNCHANGED vars

Init ==
    /\ px = [cached |-> {}, conn |-> [s \in Servers |-> FALSE],
             live |-> [s \in Servers |-> FALSE],
             bsel |-> [s \in Servers |-> NoMailbox],
             last |-> [s \in Servers |-> "none"],
             owner |-> [s \in Servers |-> NoUser],
             cur |-> NoServer, inbox |-> NoServer, up |-> TRUE,
             idle |-> FALSE]
    /\ userid = NoUser
    /\ csel = NoMailbox
    /\ stored = {}
    /\ acked = {}
    /\ sent = {}
    /\ hung = FALSE
    /\ drops = 0

Next ==
    \/ \E u \in Users : cmd_login(u) \/ cmd_authenticate(u)
    \/ \E m \in Mailboxes : cmd_select(m) \/ cmd_copy(m) \/ cmd_status(m)
    \/ \E m \in Mailboxes : cmd_create(m) \/ cmd_delete(m) \/ cmd_rename(m)
    \/ \E m \in Mailboxes : cmd_setacl(m) \/ cmd_getquotaroot(m)
    \/ \E m \in Mailboxes, add \in BOOLEAN : cmd_changesub(m, add)
    \/ \E m \in Mailboxes, x \in Msgs : cmd_append(m, x)
    \/ cmd_close \/ cmd_noop \/ cmd_fetch \/ cmd_list \/ cmd_idle
    \/ IdlePollBackend \/ IdleBackendLost \/ IdleDone
    \/ Logout \/ ClientEOF \/ ShutdownFile
    \/ \E s \in Servers : backend_timeout(s) \/ Drop(s)
    \/ Terminated

Spec == Init /\ [][Next]_vars

-----------------------------------------------------------------------------
TypeOK ==
    /\ px \in PxType
    /\ userid \in Users \cup {NoUser} /\ hung \in BOOLEAN
    /\ csel \in Mailboxes \cup {NoMailbox}
    /\ stored \subseteq Mailboxes \X Msgs /\ acked \subseteq Mailboxes \X Msgs
    /\ sent \subseteq Msgs /\ drops \in 0..MaxDrop

(* The client and the proxy agree on the selected mailbox: when the       *)
(* client was last told a SELECT succeeded, backend_current is the server  *)
(* that holds that mailbox and has it selected; when it was told SELECT    *)
(* failed or CLOSE completed, there is no backend_current.  Breaks if      *)
(* backend_timeout, proxyd_downserver or a SELECT that switches servers    *)
(* leaves backend_current wrong.                                           *)
SelectedAgrees ==
    px.up /\ ~hung =>
        IF csel = NoMailbox THEN px.cur = NoServer
        ELSE px.cur = Loc[csel] /\ px.bsel[px.cur] = csel

(* backend_current and backend_inbox only ever point at a cached          *)
(* connection whose timeout is set: proxyd_downserver clears them when it  *)
(* disconnects, so no command writes to a closed backend.                 *)
BackendPointersValid ==
    px.up =>
        \A s \in {px.cur, px.inbox} \ {NoServer} : px.conn[s] /\ s \in px.cached

(* A backend connection the proxy holds open was authenticated as the     *)
(* user now logged in: proxyd_reset downs and frees every cached           *)
(* connection when a client's session ends, so the next client, who may   *)
(* be another user, never reaches a backend through a connection           *)
(* proxyd_findserver made for the previous one.                            *)
ConnectionsOwned == \A s \in Servers : px.conn[s] => px.owner[s] = userid

(* Every command the client sends gets a tagged response or the session   *)
(* ends: proxyd never returns to cmdloop leaving the client waiting.       *)
(* Only a drop inside a literal (LitDrops) can break it, and it does        *)
(* (proxyd.c 396); no kept run checks it.                                  *)
NoHang == ~hung

(* A message the client was told APPEND or COPY stored is stored on the   *)
(* mailbox's backend: cmd_append and cmd_copy answer with the result of    *)
(* that command ("we're allowed to reference last_result since the noop,   *)
(* if sent, went to a different server").                                  *)
AckedStored == acked \subseteq stored
=============================================================================
