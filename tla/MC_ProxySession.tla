------------------------- MODULE MC_ProxySession -------------------------
(* Two backends; the INBOX m1 on A, m2 on B, m3 on no server; two         *)
(* messages to append; two users, one client after the other; IDLE on A   *)
(* only.                                                                   *)
EXTENDS ProxySession, TLC

CONSTANTS A, B, m1, m2, m3, x1, x2, u1, u2

MCServers == {A, B}
MCMailboxes == {m1, m2, m3}
MCMsgs == {x1, x2}
\* One message, where no property reads stored or acked.
MCMsgs1 == {x1}
MCUsers == {u1, u2}
\* The two users play the same part.
UserSymmetry == Permutations(MCUsers)
\* A announces IDLE, B is polled with Noop during IDLE.
MCIdleCapa == {A}
MCLoc == (m1 :> A) @@ (m2 :> B) @@ (m3 :> NoServer)
=============================================================================
