--------------------------- MODULE VirtPageAlloc ---------------------------
(***************************************************************************)
(* The virtual page allocator of src/virtmem_alloc.c as a state machine:   *)
(* vp_alloc, vp_free (vp_free_region, dangless_dedicate_vmem) and vp_reset *)
(* on the global free list.  Each call holds the list's mutex from its     *)
(* first read of the list to its last write, so a call is one step.        *)
(***************************************************************************)
EXTENDS VpFreelist

CONSTANTS
  Pages,      \* the virtual page numbers that may be handed to the allocator
  MaxRequest  \* bound on the number of pages of one call

\* Page 0 is the one whose address is NULL: vp_alloc reports failure with it,
\* and the entry of PML4 that holds it always belongs to the program.
ASSUME PagesAssumption == Pages \subseteq Nat \ {0}

ASSUME MaxRequestAssumption == MaxRequest \in Nat \ {0}

VARIABLES
  items,      \* g_freelist_main.items, in list order
  held,       \* the pages that belong to callers, not to the allocator
  ret         \* the last call and what it returned

vars == <<items, held, ret>>

Returned(call, val) == [call |-> call, val |-> val]

TypeOK ==
  /\ items \in Seq(Span)
  /\ held \subseteq Pages
  /\ ret \in [call : {"none", "vp_alloc", "vp_free", "vp_reset"}, val : Int]

Init ==
  /\ items = <<>>
  /\ held = Pages
  /\ ret = Returned("none", 0)

VpAlloc(n) ==
  \/ \E i \in DOMAIN items :
       /\ FirstFit(items, n, i)
       /\ items' = TakeFrom(items, i, n)
       /\ held' = held \cup PageRun(items[i].start, n)
       /\ ret' = Returned("vp_alloc", items[i].start)
  \/ /\ NoFit(items, n)
     /\ ret' = Returned("vp_alloc", 0)
     /\ UNCHANGED <<items, held>>

\* The region may be one that vp_alloc returned, a part of one, or memory the
\* allocator has never seen; a caller never gives pages it does not have.
VpFree(start, n) ==
  /\ PageRun(start, n) \subseteq held
  /\ \E next \in 1 .. Len(items) + 1 :
       /\ NextSpan(items, start + n, next)
       /\ \/ /\ items' = AddRegion(items, next, start, start + n)
             /\ held' = held \ PageRun(start, n)
             /\ ret' = Returned("vp_free", 0)
          \/ \* MALLOC(struct vp_span) returned NULL
             /\ NeedsNewSpan(items, next, start, start + n)
             /\ ret' = Returned("vp_free", -1)
             /\ UNCHANGED <<items, held>>

VpReset ==
  /\ items' = <<>>
  /\ held' = held \cup FreePages(items)
  /\ ret' = Returned("vp_reset", 0)

Next ==
  \/ \E n \in 1 .. MaxRequest : VpAlloc(n)
  \/ \E start \in Pages, n \in 1 .. MaxRequest : VpFree(start, n)
  \/ VpReset

Spec == Init /\ [][Next]_vars

-----------------------------------------------------------------------------
(***************************************************************************)
(* Properties                                                              *)
(***************************************************************************)

\* The list stays in address order, without empty spans, and without spans
\* that overlap or touch: freelist_free merges with both neighbours whenever
\* it can.  freelist_alloc's first fit and freelist_free's search rely on it.
FreelistCoalesced == Coalesced(items)

\* Every page has exactly one owner: it is in one span of the list, or it
\* belongs to a caller.  No sequence of calls, failed ones included, loses a
\* page or leaves one both in the list and with a caller.
PagesConserved ==
  /\ FreePages(items) \cap held = {}
  /\ FreePages(items) \cup held = Pages

\* freelist_alloc and freelist_free are a pool of pages: a region comes out
\* only if all of its pages are free, and vp_alloc returns NULL only when
\* there are no n contiguous free pages.  Fragmentation the list itself
\* introduced (spans that touch but were not merged) would break this.
Pool == INSTANCE PagePool WITH free <- FreePages(items)

ImplementsPagePool == Pool!Spec
=============================================================================
