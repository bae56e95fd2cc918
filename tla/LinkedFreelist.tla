--------------------------- MODULE LinkedFreelist ---------------------------
(***************************************************************************)
(* The free list as virtmem_alloc.c keeps it: vp_spans obtained from the   *)
(* system allocator and chained by the LIST macros.  Beside the sequence   *)
(* of VirtPageAlloc, which says what each call does, the same call is done *)
(* on pointers; FreelistChained says that the two never part.              *)
(***************************************************************************)
EXTENDS VirtPageAlloc, ListQueue

VARIABLES
  chain,      \* the pointers of g_freelist_main.items and of the vp_spans
  spans,      \* start and end of each vp_span that is allocated
  allocated   \* the vp_spans that are allocated

linkedVars == <<items, held, ret, chain, spans, allocated>>

\* What a vp_span holds that nobody has written.
Garbage == VpSpan(0, 0)

LinkedInit ==
  /\ Init
  /\ chain = NewList
  /\ spans = [e \in Elems |-> Garbage]
  /\ allocated = {}

\* LIST_FOREACH: the elements in the order they are met.  A list longer than the
\* elements there are would be one that runs in a circle.
ForEach(l) ==
  LET at[i \in 1 .. Cardinality(Elems) + 1] ==
        IF i = 1 THEN ListFirst(l)
        ELSE IF at[i - 1] \in Elems THEN ListNext(l, at[i - 1]) ELSE at[i - 1]
  IN  [i \in {j \in DOMAIN at : at[j] \in Elems} |-> at[i]]

\* Where a loop that breaks at an element of the set stops, one past the end if
\* it meets none.
StopsAt(l, good) ==
  CHOOSE i \in 1 .. Len(ForEach(l)) + 1 :
    /\ \A j \in 1 .. i - 1 : ForEach(l)[j] \notin good
    /\ i <= Len(ForEach(l)) => ForEach(l)[i] \in good

\* The element a loop is at in its i-th turn: LIST_END after the last one, and
\* NULL before the first, as prev_span is initialised.
AtTurn(l, i) == IF i \in DOMAIN ForEach(l) THEN ForEach(l)[i] ELSE Null

State(l, s, a) == [chain |-> l, spans |-> s, allocated |-> a]

Becomes(state) ==
  /\ chain' = state.chain
  /\ spans' = state.spans
  /\ allocated' = state.allocated

\* LIST_REMOVE and FREE.
RemoveAndFree(state, e) ==
  State(Forget(ListRemove(state.chain, e), e), [state.spans EXCEPT ![e] = Garbage],
        state.allocated \ {e})

\* freelist_alloc
LinkedAlloc(n) ==
  LET span == AtTurn(chain, StopsAt(chain, {e \in allocated : SpanNumPages(spans[e]) >= n}))
      shrunk == [spans EXCEPT ![span].start = @ + n]
  IN  IF span = Null THEN UNCHANGED <<chain, spans, allocated>>
      ELSE IF SpanEmpty(shrunk[span])
      THEN Becomes(RemoveAndFree(State(chain, shrunk, allocated), span))
      ELSE Becomes(State(chain, shrunk, allocated))

\* try_merge_spans, after the caller has changed one of the two.
MergeLinked(s, left, right) ==
  IF s[left].end # s[right].start THEN State(chain, s, allocated)
  ELSE RemoveAndFree(State(chain, [s EXCEPT ![left].end = s[right].end], allocated), right)

\* The insertion of the new span, whose pointers nobody has written yet.
InsertSpan(prev, next, span) ==
  IF prev # Null THEN ListInsertAfter(chain, prev, span)
  ELSE IF next # Null THEN ListInsertBefore(chain, next, span)
  ELSE ListInsertHead(chain, span)

\* freelist_free, when the allocation of a span it may need succeeds.
LinkedFree(start, end) ==
  LET turn == StopsAt(chain, {e \in allocated : spans[e].start >= end})
      next == AtTurn(chain, turn)
      prev == AtTurn(chain, turn - 1)
      afterPrev == [spans EXCEPT ![prev].end = end]
      beforeNext == [spans EXCEPT ![next].start = start]
  IN  IF prev # Null /\ spans[prev].end = start
      THEN Becomes(IF next # Null THEN MergeLinked(afterPrev, prev, next)
                                  ELSE State(chain, afterPrev, allocated))
      ELSE IF next # Null /\ spans[next].start = end
      THEN Becomes(IF prev # Null THEN MergeLinked(beforeNext, prev, next)
                                  ELSE State(chain, beforeNext, allocated))
      ELSE \E span \in Elems \ allocated :
             Becomes(State(InsertSpan(prev, next, span),
                           [spans EXCEPT ![span] = VpSpan(start, end)],
                           allocated \cup {span}))

\* A turn of LIST_FOREACH_SAFE in freelist_reset, which has read the next element
\* before the body gives this one back.
ResetTurn(loop) ==
  IF loop.span \notin Elems THEN loop
  ELSE [list |-> RemoveAndFree(loop.list, loop.span),
        span |-> ListNext(loop.list.chain, loop.span)]

\* freelist_reset
LinkedReset ==
  LET after[i \in 0 .. Cardinality(Elems)] ==
        IF i = 0 THEN [list |-> State(chain, spans, allocated), span |-> ListFirst(chain)]
        ELSE ResetTurn(after[i - 1])
  IN  Becomes(after[Cardinality(Elems)].list)

LinkedNext ==
  \/ \E n \in 1 .. MaxRequest : VpAlloc(n) /\ LinkedAlloc(n)
  \/ \E start \in Pages, n \in 1 .. MaxRequest :
       /\ VpFree(start, n)
       /\ \/ ret'.val = 0 /\ LinkedFree(start, start + n)
          \/ ret'.val # 0 /\ UNCHANGED <<chain, spans, allocated>>
  \/ VpReset /\ LinkedReset

LinkedSpec == LinkedInit /\ [][LinkedNext]_linkedVars

-----------------------------------------------------------------------------

\* The pointers hold the list they should: following them yields the spans of
\* `items` in their order, back pointers included; every vp_span allocated is
\* in the list, so none is leaked, and none that was freed is reached.
FreelistChained ==
  /\ [i \in DOMAIN ForEach(chain) |-> spans[ForEach(chain)[i]]] = items
  /\ Range(ForEach(chain)) = allocated
  /\ Linked(chain, allocated)
=============================================================================
