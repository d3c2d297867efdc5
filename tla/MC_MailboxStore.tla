-------------------------- MODULE MC_MailboxStore --------------------------
(* Instantiates MailboxStore for TLC: model values for the processes, the *)
(* budgets of the configurations and the symmetry of the process set.     *)
EXTENDS MailboxStore, TLC

CONSTANTS p1, p2, p3

MCProcs2 == {p1, p2}
MCProcs3 == {p1, p2, p3}
MCSizes == {1, 2}
(* Every step of an operation. *)
AnyStep == Steps \ {"idle"}
(* The steps of mailbox_expunge after its .NEW files are built. *)
ExpungeCommitSteps == {"expQuota", "expRenameIndex", "expRenameCache",
                       "expUnlock", "expUnlink"}
(* The operations of a session server and cyr_expire, without reconstruct. *)
ServerOps == Ops \ {"reconstruct"}
(* Reconstruct beside appends, flag stores and cyr_expire.              *)
RepairOps == {"append", "store", "expire", "reconstruct"}
(* Reconstruct beside a session that expunges.                            *)
RaceOps == {"append", "store", "expunge", "reconstruct"}
ProcSymmetry == Permutations(Procs)
====
