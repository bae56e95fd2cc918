------------------------------ MODULE PagePool ------------------------------
(***************************************************************************)
(* What the virtual page allocator promises to its callers                 *)
(* (include/dangless/virtmem_alloc.h), without saying how: a pool of       *)
(* virtual pages from which contiguous regions are taken and to which      *)
(* regions are given.  A request for n pages fails only when the pool      *)
(* holds no n contiguous pages, however the pages got there.               *)
(***************************************************************************)
EXTENDS Integers

CONSTANTS
  Pages,      \* the virtual page numbers that may be handed to the allocator
  MaxRequest  \* bound on the number of pages of one call

VARIABLES
  free,       \* the pages of the pool
  ret         \* the last call and what it returned

Run(start, n) == start .. start + n - 1

Init ==
  /\ free = {}
  /\ ret = [call |-> "none", val |-> 0]

Alloc(n) ==
  \/ \E p \in Pages :
       /\ Run(p, n) \subseteq free
       /\ free' = free \ Run(p, n)
       /\ ret' = [call |-> "vp_alloc", val |-> p]
  \/ /\ \A p \in Pages : ~(Run(p, n) \subseteq free)
     /\ ret' = [call |-> "vp_alloc", val |-> 0]
     /\ UNCHANGED free

\* Giving pages back may fail, and then the pool does not have them.
Free(p, n) ==
  /\ Run(p, n) \subseteq Pages \ free
  /\ \/ /\ free' = free \cup Run(p, n)
        /\ ret' = [call |-> "vp_free", val |-> 0]
     \/ /\ ret' = [call |-> "vp_free", val |-> -1]
        /\ UNCHANGED free

Reset ==
  /\ free' = {}
  /\ ret' = [call |-> "vp_reset", val |-> 0]

Next ==
  \/ \E n \in 1 .. MaxRequest : Alloc(n)
  \/ \E p \in Pages, n \in 1 .. MaxRequest : Free(p, n)
  \/ Reset

Spec == Init /\ [][Next]_<<free, ret>>
=============================================================================
