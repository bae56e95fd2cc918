---------------------------- MODULE MCPageTable -----------------------------
(* PageTable on a small instance, for TLC. *)
EXTENDS Dump, TLC

CONSTANTS t1, t2

MCThreads == {t1, t2}

MCSymmetry == Permutations(MCThreads)

\* Three pages of the upper half: the first is the last of one level 2 table,
\* the others share a level 1 table of the next.
MCRemapPages == {11, 12, 13}
=============================================================================
