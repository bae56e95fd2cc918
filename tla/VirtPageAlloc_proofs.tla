------------------------ MODULE VirtPageAlloc_proofs ------------------------
(***************************************************************************)
(* Proofs about the virtual page allocator, for every set of pages and     *)
(* every bound on requests: the free list stays coalesced, no page is lost *)
(* or owned twice, and the allocator implements the page pool.             *)
(*                                                                         *)
(* The three invariants are inductive only together: that a freed region   *)
(* does not overlap the list follows from PagesConserved and keeps the     *)
(* list coalesced, and what the list offers is computed from a coalesced   *)
(* list.                                                                   *)
(***************************************************************************)
EXTENDS VirtPageAlloc, VpFreelist_proofs

IInv == TypeOK /\ FreelistCoalesced /\ PagesConserved

LEMMA InitInv == Init => IInv
<1> SUFFICES ASSUME Init
             PROVE  IInv
  OBVIOUS
<1>1. items = <<>> /\ <<>> \in Seq(Span) /\ DOMAIN <<>> = {}
  BY DEF Init
<1>2. FreePages(items) = {}
  BY <1>1 DEF FreePages
<1>3. Coalesced(items)
  BY <1>1 DEF Coalesced
<1> QED BY <1>1, <1>2, <1>3 DEF Init, IInv, TypeOK, FreelistCoalesced, PagesConserved, Returned

\* vp_alloc: what it hands out leaves the list.
LEMMA VpAllocInv ==
  ASSUME IInv, NEW n \in 1 .. MaxRequest, VpAlloc(n)
  PROVE  IInv'
<1>1. /\ items \in Seq(Span) /\ Coalesced(items) /\ n \in Nat \ {0}
      /\ held \subseteq Pages
      /\ FreePages(items) \cap held = {} /\ FreePages(items) \cup held = Pages
  BY MaxRequestAssumption DEF IInv, TypeOK, FreelistCoalesced, PagesConserved
<1>2. CASE \E i \in DOMAIN items :
             /\ FirstFit(items, n, i)
             /\ items' = TakeFrom(items, i, n)
             /\ held' = held \cup PageRun(items[i].start, n)
             /\ ret' = Returned("vp_alloc", items[i].start)
  <2>1. PICK i \in DOMAIN items :
             /\ FirstFit(items, n, i)
             /\ items' = TakeFrom(items, i, n)
             /\ held' = held \cup PageRun(items[i].start, n)
             /\ ret' = Returned("vp_alloc", items[i].start)
    BY <1>2
  <2>2. SpanNumPages(items[i]) >= n
    BY <2>1 DEF FirstFit
  <2>3. /\ items' \in Seq(Span) /\ Coalesced(items')
        /\ items[i].start \in Nat
        /\ PageRun(items[i].start, n) \subseteq FreePages(items)
        /\ FreePages(items') = FreePages(items) \ PageRun(items[i].start, n)
    BY <1>1, <2>1, <2>2, TakeFromFacts
  <2>4. TypeOK'
    BY <1>1, <2>1, <2>3 DEF TypeOK, Returned
  <2>5. PagesConserved'
    BY <1>1, <2>1, <2>3 DEF PagesConserved
  <2> QED BY <2>3, <2>4, <2>5 DEF IInv, FreelistCoalesced
<1>3. CASE /\ NoFit(items, n)
           /\ ret' = Returned("vp_alloc", 0)
           /\ UNCHANGED <<items, held>>
  BY <1>3 DEF IInv, TypeOK, FreelistCoalesced, PagesConserved, Returned
<1> QED BY <1>2, <1>3 DEF VpAlloc

\* vp_free: what it is given enters the list, or stays with the caller when
\* no span could be allocated for it.
LEMMA VpFreeInv ==
  ASSUME IInv, NEW start \in Pages, NEW n \in 1 .. MaxRequest, VpFree(start, n)
  PROVE  IInv'
<1>1. /\ items \in Seq(Span) /\ Coalesced(items)
      /\ start \in Nat /\ start + n \in Nat /\ start < start + n
      /\ held \subseteq Pages
      /\ FreePages(items) \cap held = {} /\ FreePages(items) \cup held = Pages
  BY PagesAssumption, MaxRequestAssumption
  DEF IInv, TypeOK, FreelistCoalesced, PagesConserved
<1>2. PageRun(start, n) = start .. (start + n) - 1 /\ PageRun(start, n) \subseteq held
  BY <1>1, PagesAssumption, MaxRequestAssumption DEF PageRun, VpFree
<1>3. PICK next \in 1 .. Len(items) + 1 :
        /\ NextSpan(items, start + n, next)
        /\ \/ /\ items' = AddRegion(items, next, start, start + n)
              /\ held' = held \ PageRun(start, n)
              /\ ret' = Returned("vp_free", 0)
           \/ /\ NeedsNewSpan(items, next, start, start + n)
              /\ ret' = Returned("vp_free", -1)
              /\ UNCHANGED <<items, held>>
  BY DEF VpFree
<1>4. CASE /\ items' = AddRegion(items, next, start, start + n)
           /\ held' = held \ PageRun(start, n)
           /\ ret' = Returned("vp_free", 0)
  <2>1. (start .. (start + n) - 1) \cap FreePages(items) = {}
    BY <1>1, <1>2
  <2>2. PICK end \in Nat : end = start + n
    BY <1>1
  <2>3. /\ items' \in Seq(Span) /\ Coalesced(items')
        /\ FreePages(items') = FreePages(items) \cup (start .. end - 1)
    BY <1>1, <1>3, <1>4, <2>1, <2>2, AddRegionFacts
  <2>4. TypeOK'
    BY <1>1, <1>4, <2>3 DEF TypeOK, Returned
  <2>5. PagesConserved'
    BY <1>1, <1>2, <1>4, <2>2, <2>3 DEF PagesConserved
  <2> QED BY <2>3, <2>4, <2>5 DEF IInv, FreelistCoalesced
<1>5. CASE /\ ret' = Returned("vp_free", -1)
           /\ UNCHANGED <<items, held>>
  BY <1>5 DEF IInv, TypeOK, FreelistCoalesced, PagesConserved, Returned
<1> QED BY <1>3, <1>4, <1>5

\* vp_reset: the list is empty and its pages are the caller's again.
LEMMA VpResetInv ==
  ASSUME IInv, VpReset
  PROVE  IInv'
<1>1. items' = <<>> /\ <<>> \in Seq(Span) /\ DOMAIN <<>> = {}
  BY DEF VpReset
<1>2. FreePages(items') = {}
  BY <1>1 DEF FreePages
<1>3. Coalesced(items')
  BY <1>1 DEF Coalesced
<1>4. held' = Pages
  BY DEF VpReset, IInv, PagesConserved
<1> QED
  BY <1>1, <1>2, <1>3, <1>4
  DEF VpReset, IInv, TypeOK, FreelistCoalesced, PagesConserved, Returned

LEMMA NextInv == IInv /\ [Next]_vars => IInv'
<1> SUFFICES ASSUME IInv, [Next]_vars
             PROVE  IInv'
  OBVIOUS
<1>1. ASSUME NEW n \in 1 .. MaxRequest, VpAlloc(n)
      PROVE  IInv'
  BY <1>1, VpAllocInv
<1>2. ASSUME NEW start \in Pages, NEW n \in 1 .. MaxRequest, VpFree(start, n)
      PROVE  IInv'
  BY <1>2, VpFreeInv
<1>3. CASE VpReset
  BY <1>3, VpResetInv
<1>4. CASE UNCHANGED vars
  BY <1>4 DEF vars, IInv, TypeOK, FreelistCoalesced, PagesConserved
<1> QED BY <1>1, <1>2, <1>3, <1>4 DEF Next

LEMMA Invariance == Spec => []IInv
  BY InitInv, NextInv, PTL DEF Spec

\* The list and the callers' pages have their types in every reachable state.
THEOREM TypeCorrect == Spec => []TypeOK
  BY Invariance, PTL DEF IInv

\* However regions are split, freed and merged, the list stays sorted and
\* without spans that touch: freelist_free never leaves fragmentation behind.
THEOREM FreelistStaysCoalesced == Spec => []FreelistCoalesced
  BY Invariance, PTL DEF IInv

\* No page is ever lost, or both in the list and with a caller.
THEOREM NoPageLostOrShared == Spec => []PagesConserved
  BY Invariance, PTL DEF IInv

-----------------------------------------------------------------------------
(***************************************************************************)
(* Refinement                                                              *)
(***************************************************************************)

LEMMA PoolStep == IInv /\ [Next]_vars => [Pool!Next]_<<FreePages(items), ret>>
<1> SUFFICES ASSUME IInv, [Next]_vars
             PROVE  [Pool!Next]_<<FreePages(items), ret>>
  OBVIOUS
<1>1. /\ items \in Seq(Span) /\ Coalesced(items)
      /\ held \subseteq Pages
      /\ FreePages(items) \cap held = {} /\ FreePages(items) \cup held = Pages
  BY DEF IInv, TypeOK, FreelistCoalesced, PagesConserved
<1>2. \A p, n : Pool!Run(p, n) = PageRun(p, n)
  BY DEF Pool!Run, PageRun
<1>3. ASSUME NEW n \in 1 .. MaxRequest, VpAlloc(n)
      PROVE  Pool!Next
  <2>0. n \in Nat \ {0}
    BY MaxRequestAssumption
  <2>1. CASE \E i \in DOMAIN items :
               /\ FirstFit(items, n, i)
               /\ items' = TakeFrom(items, i, n)
               /\ ret' = Returned("vp_alloc", items[i].start)
    <3>1. PICK i \in DOMAIN items :
               /\ FirstFit(items, n, i)
               /\ items' = TakeFrom(items, i, n)
               /\ ret' = Returned("vp_alloc", items[i].start)
      BY <2>1
    <3>2. PICK p : p = items[i].start
      OBVIOUS
    <3>3. /\ p \in Nat
          /\ PageRun(p, n) \subseteq FreePages(items)
          /\ FreePages(items') = FreePages(items) \ PageRun(p, n)
      BY <1>1, <2>0, <3>1, <3>2, TakeFromFacts DEF FirstFit
    <3>4. p \in Pages
      <4>1. p \in PageRun(p, n)
        BY <2>0, <3>3 DEF PageRun
      <4> QED BY <1>1, <3>3, <4>1
    <3>5. Pool!Alloc(n)
      BY <1>2, <3>1, <3>2, <3>3, <3>4 DEF Pool!Alloc, Returned
    <3> QED BY <3>5 DEF Pool!Next
  <2>2. CASE /\ NoFit(items, n)
             /\ ret' = Returned("vp_alloc", 0)
             /\ UNCHANGED <<items, held>>
    <3>1. \A p \in Pages : ~(PageRun(p, n) \subseteq FreePages(items))
      BY <1>1, <2>0, <2>2, NoFitNoRun, PagesAssumption
    <3>2. FreePages(items') = FreePages(items)
      BY <2>2
    <3>3. Pool!Alloc(n)
      BY <1>2, <2>2, <3>1, <3>2 DEF Pool!Alloc, Returned
    <3> QED BY <3>3 DEF Pool!Next
  <2> QED BY <1>3, <2>1, <2>2 DEF VpAlloc
<1>4. ASSUME NEW start \in Pages, NEW n \in 1 .. MaxRequest, VpFree(start, n)
      PROVE  Pool!Next
  <2>0. /\ start \in Nat /\ start < start + n
        /\ PageRun(start, n) = start .. (start + n) - 1
        /\ PageRun(start, n) \subseteq held
    BY <1>4, PagesAssumption, MaxRequestAssumption DEF PageRun, VpFree
  <2>1. PICK end \in Nat : end = start + n
    BY <2>0, MaxRequestAssumption
  <2>2. PICK next \in 1 .. Len(items) + 1 :
        /\ NextSpan(items, end, next)
        /\ \/ /\ items' = AddRegion(items, next, start, end)
              /\ ret' = Returned("vp_free", 0)
           \/ /\ ret' = Returned("vp_free", -1)
              /\ UNCHANGED <<items, held>>
    BY <1>4, <2>1 DEF VpFree
  <2>3. PageRun(start, n) \subseteq Pages \ FreePages(items)
    BY <1>1, <2>0
  <2>4. CASE items' = AddRegion(items, next, start, end) /\ ret' = Returned("vp_free", 0)
    <3>1. (start .. end - 1) \cap FreePages(items) = {}
      BY <1>1, <2>0, <2>1
    <3>2. FreePages(items') = FreePages(items) \cup (start .. end - 1)
      BY <1>1, <2>0, <2>1, <2>2, <2>4, <3>1, AddRegionFacts
    <3>3. Pool!Free(start, n)
      BY <1>2, <2>0, <2>1, <2>3, <2>4, <3>2 DEF Pool!Free, Returned
    <3> QED BY <3>3 DEF Pool!Next
  <2>5. CASE ret' = Returned("vp_free", -1) /\ UNCHANGED <<items, held>>
    <3>1. FreePages(items') = FreePages(items)
      BY <2>5
    <3>2. Pool!Free(start, n)
      BY <1>2, <2>3, <2>5, <3>1 DEF Pool!Free, Returned
    <3> QED BY <3>2 DEF Pool!Next
  <2> QED BY <2>2, <2>4, <2>5
<1>5. CASE VpReset
  <2>1. FreePages(items') = {}
    BY <1>5 DEF VpReset, FreePages
  <2>2. Pool!Reset
    BY <1>5, <2>1 DEF Pool!Reset, VpReset, Returned
  <2> QED BY <2>2 DEF Pool!Next
<1>6. CASE UNCHANGED vars
  <2>1. FreePages(items') = FreePages(items) /\ ret' = ret
    BY <1>6 DEF vars
  <2> QED BY <2>1
<1> QED BY <1>3, <1>4, <1>5, <1>6 DEF Next

\* First fit on the coalesced list is a pool of pages: what vp_alloc returns
\* was free, and it fails only when no n contiguous pages are free.
THEOREM AllocatorImplementsPool == Spec => ImplementsPagePool
<1>1. Init => Pool!Init
  BY DEF Init, Pool!Init, FreePages, Returned
<1> QED BY <1>1, Invariance, PoolStep, PTL DEF Spec, ImplementsPagePool, Pool!Spec
=============================================================================
