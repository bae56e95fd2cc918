-------------------------- MODULE MCVirtPageAlloc --------------------------
(***************************************************************************)
(* The virtual page allocator on a small address space.  Nine pages let    *)
(* the list hold up to five spans; requests of up to four pages fit some    *)
(* spans and not others, split them, and free regions that touch the       *)
(* previous span, the next one, both or none.  The vp_spans are alike to   *)
(* the system allocator.                                                   *)
(***************************************************************************)
EXTENDS LinkedFreelist, TLC

MCPages == 1 .. 9

MCSymmetry == Permutations(Elems)
=============================================================================
