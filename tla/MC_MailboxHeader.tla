------------------------- MODULE MC_MailboxHeader -------------------------
(* Instantiates MailboxHeader for TLC: two processes, one atom and one     *)
(* name that is not an atom in two flag slots, two quota roots, and the    *)
(* hash constants scaled as MailboxHeader explains.                        *)
EXTENDS MailboxHeader, TLC

CONSTANTS p1, p2

MCProcs == {p1, p2}
MCAtoms == {"work"}
MCNonAtoms == {"a(b"}
MCRoots == {"user.fred", "NoRoot"}
(* "abc" and the names over 'a' and 'z' the hash is checked on.            *)
MCName == <<97, 98, 99>>
MCChars == {97, 122}
ProcSymmetry == Permutations(MCProcs)
====
