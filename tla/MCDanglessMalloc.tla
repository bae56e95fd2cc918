-------------------------- MODULE MCDanglessMalloc --------------------------
(* DanglessMalloc on small instances, for TLC. *)
EXTENDS DanglessMalloc

CONSTANTS t1, t2

MCThread == {t1}

MCThreads == {t1, t2}

MCNoRegions == {}

\* The last page of the program's second entry, next to one it does not use.
MCOwnRegion == {VpSpan(3, 4)}

\* One page of an entry that the program does not use otherwise.
MCSmallRegion == {VpSpan(2, 3)}
=============================================================================
