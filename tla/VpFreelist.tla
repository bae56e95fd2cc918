----------------------------- MODULE VpFreelist -----------------------------
(***************************************************************************)
(* The free list of the virtual page allocator (src/virtmem_alloc.c): a    *)
(* sequence of spans [start, end) of virtual page numbers, in list order.  *)
(*                                                                         *)
(* Addresses are page numbers: every address the allocator handles is a    *)
(* multiple of PGSIZE (the ASSERT0 of freelist_free), so dividing by       *)
(* PGSIZE loses nothing.  The operators below are the bodies of            *)
(* freelist_alloc and freelist_free as functions of the list; the modules  *)
(* that own a list (VirtPageAlloc, DanglessMalloc) decide when they run.   *)
(***************************************************************************)
EXTENDS Integers, Sequences, SequencesExt

Span == [start : Nat, end : Nat]

VpSpan(start, end) == [start |-> start, end |-> end]

PageRun(start, n) == start .. start + n - 1

SpanNumPages(span) == span.end - span.start

SpanEmpty(span) == span.start = span.end

\* span->start and span->end of the i-th span are assigned.
SetSpan(items, i, start, end) == [items EXCEPT ![i] = VpSpan(start, end)]

SpanPages(span) == span.start .. span.end - 1

\* The virtual pages the list offers to vp_alloc.
FreePages(items) == UNION {SpanPages(items[i]) : i \in DOMAIN items}

\* The list is in address order, its spans are not empty, and no two of them
\* overlap or touch.
Coalesced(items) ==
  /\ \A i \in DOMAIN items : items[i].start < items[i].end
  /\ \A i, j \in DOMAIN items : i < j => items[i].end < items[j].start

-----------------------------------------------------------------------------
(***************************************************************************)
(* freelist_alloc: the first span that is large enough serves the request  *)
(* from its low end, and leaves the list when nothing of it remains.       *)
(***************************************************************************)

FirstFit(items, n, i) ==
  /\ i \in DOMAIN items
  /\ SpanNumPages(items[i]) >= n
  /\ \A j \in 1 .. i - 1 : SpanNumPages(items[j]) < n

NoFit(items, n) == \A i \in DOMAIN items : SpanNumPages(items[i]) < n

\* Mutant: the span leaves the list, whatever remains of it.
TakeWhole(items, i, n) == RemoveAt(items, i)

TakeFrom(items, i, n) ==
  LET rest == VpSpan(items[i].start + n, items[i].end)
  IN  IF SpanEmpty(rest) THEN RemoveAt(items, i)
      ELSE SetSpan(items, i, rest.start, rest.end)

-----------------------------------------------------------------------------
(***************************************************************************)
(* freelist_free: `next` is the position of next_span, the first span that *)
(* starts at or after the end of the freed region (one past the list when  *)
(* there is none); prev_span is the one before it (position 0: NULL).      *)
(***************************************************************************)

NextSpan(items, end, next) ==
  /\ next \in 1 .. Len(items) + 1
  /\ \A j \in 1 .. next - 1 : items[j].start < end
  /\ next <= Len(items) => items[next].start >= end

\* Mutant: spans that touch are not seen to touch.
TryMergeNever(items, i) == items

\* try_merge_spans(items[i], items[i + 1])
TryMergeSpans(items, i) ==
  IF items[i].end = items[i + 1].start
  THEN RemoveAt(SetSpan(items, i, items[i].start, items[i + 1].end), i + 1)
  ELSE items

TouchesPrev(items, next, start) == next > 1 /\ items[next - 1].end = start

TouchesNext(items, next, end) == next <= Len(items) /\ items[next].start = end

\* Mutant: no merge with next_span after prev_span has grown.
ExtendPrevOnly(items, next, end) ==
  SetSpan(items, next - 1, items[next - 1].start, end)

ExtendPrev(items, next, end) ==
  LET grown == SetSpan(items, next - 1, items[next - 1].start, end)
  IN  IF next <= Len(items) THEN TryMergeSpans(grown, next - 1) ELSE grown

ExtendNext(items, next, start) ==
  LET grown == SetSpan(items, next, start, items[next].end)
  IN  IF next > 1 THEN TryMergeSpans(grown, next - 1) ELSE grown

\* Whether freeing [start, end) needs a new vp_span, hence a MALLOC.
NeedsNewSpan(items, next, start, end) ==
  ~TouchesPrev(items, next, start) /\ ~TouchesNext(items, next, end)

\* Mutant: the end of the region is taken for its last page.
AddRegionInclusive(items, next, start, end) ==
  InsertAt(items, next, VpSpan(start, end + 1))

\* The list after freelist_free has succeeded.
AddRegion(items, next, start, end) ==
  IF TouchesPrev(items, next, start) THEN ExtendPrev(items, next, end)
  ELSE IF TouchesNext(items, next, end) THEN ExtendNext(items, next, start)
  ELSE InsertAt(items, next, VpSpan(start, end))
=============================================================================
