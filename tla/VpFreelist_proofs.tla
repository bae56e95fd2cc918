------------------------- MODULE VpFreelist_proofs -------------------------
(***************************************************************************)
(* What the operations of the free list do to the pages it offers, for     *)
(* lists of any length: lemmas for the modules that own a list.            *)
(***************************************************************************)
EXTENDS VpFreelist, TLAPS, SequenceTheorems

-----------------------------------------------------------------------------
(***************************************************************************)
(* Sequences                                                               *)
(***************************************************************************)

\* LIST_REMOVE: the elements after the removed one move down by one place.
LEMMA RemoveAtFacts ==
  ASSUME NEW S, NEW s \in Seq(S), NEW i \in 1 .. Len(s)
  PROVE  /\ RemoveAt(s, i) \in Seq(S)
         /\ Len(RemoveAt(s, i)) = Len(s) - 1
         /\ \A j \in 1 .. Len(s) - 1 :
              RemoveAt(s, i)[j] = IF j < i THEN s[j] ELSE s[j + 1]
<1> DEFINE lo == SubSeq(s, 1, i - 1)
           hi == SubSeq(s, i + 1, Len(s))
<1>0. Len(s) \in Nat /\ \A j \in 1 .. Len(s) : s[j] \in S
  BY ElementOfSeq, LenProperties
<1>1. /\ lo \in Seq(S)
      /\ Len(lo) = i - 1
      /\ \A j \in 1 .. i - 1 : lo[j] = s[j]
  <2>1. \A j \in 1 .. i - 1 : s[j] \in S
    BY <1>0
  <2>2. /\ lo \in Seq(S)
        /\ Len(lo) = IF 1 <= i - 1 THEN (i - 1) - 1 + 1 ELSE 0
        /\ \A j \in 1 .. (i - 1) - 1 + 1 : lo[j] = s[1 + j - 1]
    BY <2>1, SubSeqProperties
  <2> QED BY <2>2, <1>0
<1>2. /\ hi \in Seq(S)
      /\ Len(hi) = Len(s) - i
      /\ \A j \in 1 .. Len(s) - i : hi[j] = s[i + j]
  <2>1. \A j \in i + 1 .. Len(s) : s[j] \in S
    BY <1>0
  <2>2. /\ hi \in Seq(S)
        /\ Len(hi) = IF i + 1 <= Len(s) THEN Len(s) - (i + 1) + 1 ELSE 0
        /\ \A j \in 1 .. Len(s) - (i + 1) + 1 : hi[j] = s[(i + 1) + j - 1]
    BY <2>1, <1>0, SubSeqProperties
  <2> QED BY <2>2, <1>0
<1>3. RemoveAt(s, i) = lo \o hi
  BY DEF RemoveAt
<1> HIDE DEF lo, hi
<1>4. /\ lo \o hi \in Seq(S)
      /\ Len(lo \o hi) = Len(lo) + Len(hi)
      /\ \A j \in 1 .. Len(lo) + Len(hi) :
           (lo \o hi)[j] = IF j <= Len(lo) THEN lo[j] ELSE hi[j - Len(lo)]
  BY <1>1, <1>2, ConcatProperties
<1> QED
  BY <1>0, <1>1, <1>2, <1>3, <1>4

\* LIST_INSERT_*: the elements from the place of insertion on move up by one.
LEMMA InsertAtFacts ==
  ASSUME NEW S, NEW s \in Seq(S), NEW e \in S, NEW i \in 1 .. Len(s) + 1
  PROVE  /\ InsertAt(s, i, e) \in Seq(S)
         /\ Len(InsertAt(s, i, e)) = Len(s) + 1
         /\ \A j \in 1 .. Len(s) + 1 :
              InsertAt(s, i, e)[j] = IF j < i THEN s[j]
                                     ELSE IF j = i THEN e ELSE s[j - 1]
<1> DEFINE lo == SubSeq(s, 1, i - 1)
           hi == SubSeq(s, i, Len(s))
<1>0. Len(s) \in Nat /\ \A j \in 1 .. Len(s) : s[j] \in S
  BY ElementOfSeq, LenProperties
<1>1. /\ lo \in Seq(S)
      /\ Len(lo) = i - 1
      /\ \A j \in 1 .. i - 1 : lo[j] = s[j]
  <2>1. \A j \in 1 .. i - 1 : s[j] \in S
    BY <1>0
  <2>2. /\ lo \in Seq(S)
        /\ Len(lo) = IF 1 <= i - 1 THEN (i - 1) - 1 + 1 ELSE 0
        /\ \A j \in 1 .. (i - 1) - 1 + 1 : lo[j] = s[1 + j - 1]
    BY <2>1, <1>0, SubSeqProperties
  <2> QED BY <2>2, <1>0
<1>2. /\ hi \in Seq(S)
      /\ Len(hi) = Len(s) - i + 1
      /\ \A j \in 1 .. Len(s) - i + 1 : hi[j] = s[i + j - 1]
  <2>1. \A j \in i .. Len(s) : s[j] \in S
    BY <1>0
  <2>2. /\ hi \in Seq(S)
        /\ Len(hi) = IF i <= Len(s) THEN Len(s) - i + 1 ELSE 0
        /\ \A j \in 1 .. Len(s) - i + 1 : hi[j] = s[i + j - 1]
    BY <2>1, <1>0, SubSeqProperties
  <2> QED BY <2>2, <1>0
<1>3. InsertAt(s, i, e) = (lo \o <<e>>) \o hi
  BY DEF InsertAt
<1>e. <<e>> \in Seq(S) /\ Len(<<e>>) = 1 /\ <<e>>[1] = e
  OBVIOUS
<1> DEFINE mid == lo \o <<e>>
<1> HIDE DEF lo, hi
<1>4. /\ mid \in Seq(S)
      /\ Len(mid) = Len(lo) + 1
      /\ \A j \in 1 .. Len(lo) + 1 :
           mid[j] = IF j <= Len(lo) THEN lo[j] ELSE <<e>>[j - Len(lo)]
  BY <1>1, <1>e, ConcatProperties
<1>5. /\ Len(mid) = i
      /\ \A j \in 1 .. i : mid[j] = IF j < i THEN s[j] ELSE e
  BY <1>0, <1>1, <1>4, <1>e
<1> HIDE DEF mid
<1>6. /\ mid \o hi \in Seq(S)
      /\ Len(mid \o hi) = Len(mid) + Len(hi)
      /\ \A j \in 1 .. Len(mid) + Len(hi) :
           (mid \o hi)[j] = IF j <= Len(mid) THEN mid[j] ELSE hi[j - Len(mid)]
  BY <1>2, <1>4, ConcatProperties
<1>7. InsertAt(s, i, e) = mid \o hi
  BY <1>3 DEF mid
<1> QED
  BY <1>0, <1>2, <1>5, <1>6, <1>7

-----------------------------------------------------------------------------
(***************************************************************************)
(* The pages of a list                                                     *)
(***************************************************************************)

\* A page is free exactly if some span holds it.
LEMMA InFreePages ==
  ASSUME NEW items \in Seq(Span), NEW v
  PROVE  v \in FreePages(items) <=>
           \E i \in 1 .. Len(items) :
              v \in Int /\ items[i].start <= v /\ v < items[i].end
<1>1. DOMAIN items = 1 .. Len(items) /\ \A i \in 1 .. Len(items) : items[i] \in Span
  BY ElementOfSeq, LenProperties
<1>2. v \in FreePages(items) <=> \E i \in 1 .. Len(items) : v \in SpanPages(items[i])
  BY <1>1 DEF FreePages
<1>3. \A i \in 1 .. Len(items) :
        v \in SpanPages(items[i]) <=> v \in Int /\ items[i].start <= v /\ v < items[i].end
  BY <1>1 DEF SpanPages, Span
<1> QED
  BY <1>2, <1>3

\* Coalesced, with the domain of a list spelled out.
LEMMA CoalescedFacts ==
  ASSUME NEW items \in Seq(Span)
  PROVE  /\ Len(items) \in Nat
         /\ DOMAIN items = 1 .. Len(items)
         /\ \A i \in 1 .. Len(items) :
              items[i] \in Span /\ items[i].start \in Nat /\ items[i].end \in Nat
         /\ Coalesced(items) <=>
              /\ \A i \in 1 .. Len(items) : items[i].start < items[i].end
              /\ \A i, j \in 1 .. Len(items) : i < j => items[i].end < items[j].start
<1>1. Len(items) \in Nat /\ DOMAIN items = 1 .. Len(items)
  BY LenProperties
<1>2. ASSUME NEW i \in 1 .. Len(items)
      PROVE  items[i] \in Span /\ items[i].start \in Nat /\ items[i].end \in Nat
  <2>1. items[i] \in Span
    BY ElementOfSeq
  <2> QED BY <2>1 DEF Span
<1>3. Coalesced(items) <=>
        /\ \A i \in 1 .. Len(items) : items[i].start < items[i].end
        /\ \A i, j \in 1 .. Len(items) : i < j => items[i].end < items[j].start
  BY <1>1, Zenon DEF Coalesced
<1> QED BY <1>1, <1>2, <1>3

-----------------------------------------------------------------------------
(***************************************************************************)
(* The three ways in which a list of spans changes                         *)
(***************************************************************************)

\* Removing a span from a coalesced list takes away exactly its pages.
LEMMA RemoveSpan ==
  ASSUME NEW items \in Seq(Span), Coalesced(items), NEW i \in 1 .. Len(items)
  PROVE  /\ RemoveAt(items, i) \in Seq(Span)
         /\ Len(RemoveAt(items, i)) = Len(items) - 1
         /\ Coalesced(RemoveAt(items, i))
         /\ FreePages(RemoveAt(items, i)) = FreePages(items) \ SpanPages(items[i])
<1> DEFINE list == RemoveAt(items, i)
           place(j) == IF j < i THEN j ELSE j + 1
<1>1. /\ Len(items) \in Nat
      /\ \A k \in 1 .. Len(items) : items[k].start \in Nat /\ items[k].end \in Nat
      /\ \A k \in 1 .. Len(items) : items[k].start < items[k].end
      /\ \A j, k \in 1 .. Len(items) : j < k => items[j].end < items[k].start
  BY CoalescedFacts
<1>2. /\ list \in Seq(Span)
      /\ Len(list) = Len(items) - 1
      /\ \A j \in 1 .. Len(items) - 1 :
           list[j] = IF j < i THEN items[j] ELSE items[j + 1]
  BY RemoveAtFacts
<1> HIDE DEF list
<1>3. \A j \in 1 .. Len(list) : /\ place(j) \in 1 .. Len(items)
                                /\ place(j) # i
                                /\ list[j] = items[place(j)]
  BY <1>1, <1>2
<1>4. \A j, k \in 1 .. Len(list) : j < k => place(j) < place(k)
  BY <1>1, <1>2
<1>5. ASSUME NEW k \in 1 .. Len(items), k # i
      PROVE  \E j \in 1 .. Len(list) : list[j] = items[k]
  <2>1. CASE k < i
    <3>1. k \in 1 .. Len(list) /\ list[k] = items[k]
      BY <1>1, <1>2, <2>1
    <3> QED BY <3>1
  <2>2. CASE k > i
    <3>1. k - 1 \in 1 .. Len(list) /\ list[k - 1] = items[k]
      BY <1>1, <1>2, <2>2
    <3> QED BY <3>1
  <2> QED BY <1>5, <2>1, <2>2
<1> HIDE DEF place
<1>6. Coalesced(list)
  <2>1. \A j \in 1 .. Len(list) : list[j].start < list[j].end
    BY <1>1, <1>3
  <2>2. \A j, k \in 1 .. Len(list) : j < k => list[j].end < list[k].start
    BY <1>1, <1>3, <1>4
  <2> QED BY <1>2, <2>1, <2>2, CoalescedFacts
<1>7. ASSUME NEW v
      PROVE  v \in FreePages(list) <=> v \in FreePages(items) /\ v \notin SpanPages(items[i])
  <2>1. v \in SpanPages(items[i]) <=> v \in Int /\ items[i].start <= v /\ v < items[i].end
    BY <1>1 DEF SpanPages
  <2>2. CASE v \in FreePages(list)
    <3>1. PICK j \in 1 .. Len(list) : v \in Int /\ list[j].start <= v /\ v < list[j].end
      BY <1>2, <2>2, InFreePages
    <3>2. PICK k \in 1 .. Len(items) : k # i /\ list[j] = items[k]
      BY <1>3
    <3>3. v \in FreePages(items)
      BY <3>1, <3>2, InFreePages
    <3>4. v \notin SpanPages(items[i])
      <4>1. i < k \/ k < i
        BY <3>2
      <4> QED BY <1>1, <2>1, <3>1, <3>2, <4>1
    <3> QED BY <2>2, <3>3, <3>4
  <2>3. CASE v \in FreePages(items) /\ v \notin SpanPages(items[i])
    <3>1. PICK k \in 1 .. Len(items) : v \in Int /\ items[k].start <= v /\ v < items[k].end
      BY <2>3, InFreePages
    <3>2. k # i
      BY <2>1, <2>3, <3>1
    <3>3. PICK j \in 1 .. Len(list) : list[j] = items[k]
      BY <1>5, <3>2
    <3> QED BY <1>2, <2>3, <3>1, <3>3, InFreePages
  <2> QED BY <2>2, <2>3
<1>8. FreePages(list) = FreePages(items) \ SpanPages(items[i])
  BY <1>7
<1> QED BY <1>2, <1>6, <1>8 DEF list

\* Assigning the bounds of span i leaves the other spans alone.
LEMMA SetSpanFacts ==
  ASSUME NEW items \in Seq(Span), NEW i \in 1 .. Len(items),
         NEW start \in Nat, NEW end \in Nat
  PROVE  /\ VpSpan(start, end) \in Span
         /\ VpSpan(start, end).start = start
         /\ VpSpan(start, end).end = end
         /\ SetSpan(items, i, start, end) \in Seq(Span)
         /\ Len(SetSpan(items, i, start, end)) = Len(items)
         /\ \A j \in 1 .. Len(items) :
              SetSpan(items, i, start, end)[j] =
                IF j = i THEN VpSpan(start, end) ELSE items[j]
<1>1. VpSpan(start, end) \in Span
  BY DEF VpSpan, Span
<1>2. VpSpan(start, end).start = start /\ VpSpan(start, end).end = end
  BY DEF VpSpan
<1> QED BY <1>1, <1>2, ExceptSeq DEF SetSpan

\* The region [start, end) can take the place of span i: it is not empty and
\* leaves a gap to both neighbours.
Fits(items, i, start, end) ==
  /\ start \in Nat /\ end \in Nat /\ start < end
  /\ \A j \in 1 .. i - 1 : items[j].end < start
  /\ \A j \in i + 1 .. Len(items) : end < items[j].start

\* Replacing span i by one that fits between its neighbours keeps the list
\* coalesced and exchanges the pages of the two spans.
LEMMA ReplaceSpan ==
  ASSUME NEW items \in Seq(Span), Coalesced(items), NEW i \in 1 .. Len(items),
         NEW start, NEW end, Fits(items, i, start, end)
  PROVE  /\ SetSpan(items, i, start, end) \in Seq(Span)
         /\ Coalesced(SetSpan(items, i, start, end))
         /\ FreePages(SetSpan(items, i, start, end)) =
              (FreePages(items) \ SpanPages(items[i])) \cup (start .. end - 1)
<1> DEFINE list == SetSpan(items, i, start, end)
           span == VpSpan(start, end)
<1>0. /\ start \in Nat /\ end \in Nat /\ start < end
      /\ \A j \in 1 .. i - 1 : items[j].end < start
      /\ \A j \in i + 1 .. Len(items) : end < items[j].start
  BY DEF Fits
<1>1. /\ Len(items) \in Nat
      /\ \A k \in 1 .. Len(items) : items[k].start \in Nat /\ items[k].end \in Nat
      /\ \A k \in 1 .. Len(items) : items[k].start < items[k].end
      /\ \A j, k \in 1 .. Len(items) : j < k => items[j].end < items[k].start
  BY CoalescedFacts
<1>2. /\ list \in Seq(Span)
      /\ Len(list) = Len(items)
      /\ \A j \in 1 .. Len(items) : list[j] = IF j = i THEN span ELSE items[j]
  BY <1>0, SetSpanFacts
<1>3. span.start = start /\ span.end = end
  BY <1>0, SetSpanFacts
<1> HIDE DEF list, span
<1>4. Coalesced(list)
  <2>1. \A j \in 1 .. Len(list) : list[j].start < list[j].end
    BY <1>0, <1>1, <1>2, <1>3
  <2>2. ASSUME NEW j \in 1 .. Len(list), NEW k \in 1 .. Len(list), j < k
        PROVE  list[j].end < list[k].start
    <3>1. CASE j = i
      BY <1>0, <1>1, <1>2, <1>3, <2>2, <3>1
    <3>2. CASE k = i
      BY <1>0, <1>1, <1>2, <1>3, <2>2, <3>2
    <3>3. CASE j # i /\ k # i
      BY <1>1, <1>2, <2>2, <3>3
    <3> QED BY <3>1, <3>2, <3>3
  <2> QED BY <1>2, <2>1, <2>2, CoalescedFacts
<1>5. ASSUME NEW v
      PROVE  v \in FreePages(list) <=>
               \/ v \in FreePages(items) /\ v \notin SpanPages(items[i])
               \/ v \in start .. end - 1
  <2>1. v \in SpanPages(items[i]) <=> v \in Int /\ items[i].start <= v /\ v < items[i].end
    BY <1>1 DEF SpanPages
  <2>2. v \in start .. end - 1 <=> v \in Int /\ span.start <= v /\ v < span.end
    BY <1>0, <1>3
  <2>3. CASE v \in FreePages(list)
    <3>1. PICK j \in 1 .. Len(items) : v \in Int /\ list[j].start <= v /\ v < list[j].end
      BY <1>2, <2>3, InFreePages
    <3>2. CASE j = i
      BY <1>2, <2>2, <2>3, <3>1, <3>2
    <3>3. CASE j # i
      <4>1. items[j].start <= v /\ v < items[j].end
        BY <1>2, <3>1, <3>3
      <4>2. v \in FreePages(items)
        BY <3>1, <4>1, InFreePages
      <4>3. i < j \/ j < i
        BY <3>3
      <4>4. v \notin SpanPages(items[i])
        BY <1>1, <2>1, <3>1, <4>1, <4>3
      <4> QED BY <2>3, <4>2, <4>4
    <3> QED BY <3>2, <3>3
  <2>4. CASE v \in FreePages(items) /\ v \notin SpanPages(items[i])
    <3>1. PICK j \in 1 .. Len(items) : v \in Int /\ items[j].start <= v /\ v < items[j].end
      BY <2>4, InFreePages
    <3>2. j # i
      BY <2>1, <2>4, <3>1
    <3>3. j \in 1 .. Len(list) /\ list[j] = items[j]
      BY <1>2, <3>2
    <3> QED BY <1>2, <2>4, <3>1, <3>3, InFreePages
  <2>5. CASE v \in start .. end - 1
    <3>1. i \in 1 .. Len(list) /\ list[i] = span
      BY <1>2
    <3> QED BY <1>2, <2>2, <2>5, <3>1, InFreePages
  <2> QED BY <2>3, <2>4, <2>5
<1>6. FreePages(list) = (FreePages(items) \ SpanPages(items[i])) \cup (start .. end - 1)
  BY <1>5
<1> QED BY <1>2, <1>4, <1>6 DEF list

\* Inserting a span that fits between its neighbours keeps the list coalesced
\* and adds the pages of the span.
LEMMA InsertSpanFacts ==
  ASSUME NEW items \in Seq(Span), Coalesced(items), NEW i \in 1 .. Len(items) + 1,
         NEW span \in Span, span.start < span.end,
         \A j \in 1 .. i - 1 : items[j].end < span.start,
         \A j \in i .. Len(items) : span.end < items[j].start
  PROVE  /\ InsertAt(items, i, span) \in Seq(Span)
         /\ Coalesced(InsertAt(items, i, span))
         /\ FreePages(InsertAt(items, i, span)) = FreePages(items) \cup SpanPages(span)
<1> DEFINE list == InsertAt(items, i, span)
           place(j) == IF j < i THEN j ELSE j - 1
<1>1. /\ Len(items) \in Nat
      /\ \A k \in 1 .. Len(items) : items[k].start \in Nat /\ items[k].end \in Nat
      /\ \A k \in 1 .. Len(items) : items[k].start < items[k].end
      /\ \A j, k \in 1 .. Len(items) : j < k => items[j].end < items[k].start
  BY CoalescedFacts
<1>2. /\ list \in Seq(Span)
      /\ Len(list) = Len(items) + 1
      /\ \A j \in 1 .. Len(items) + 1 :
           list[j] = IF j < i THEN items[j] ELSE IF j = i THEN span ELSE items[j - 1]
  BY InsertAtFacts
<1> HIDE DEF list
<1>3. span.start \in Nat /\ span.end \in Nat
  BY DEF Span
<1>4. \A j \in (1 .. Len(list)) \ {i} : /\ place(j) \in 1 .. Len(items)
                                       /\ list[j] = items[place(j)]
                                       /\ (place(j) < i) = (j < i)
  BY <1>1, <1>2
<1>5. \A j, k \in (1 .. Len(list)) \ {i} : j < k => place(j) < place(k)
  BY <1>1, <1>2
<1>6. \A k \in 1 .. Len(items) : \E j \in 1 .. Len(list) : list[j] = items[k]
  <2> SUFFICES ASSUME NEW k \in 1 .. Len(items)
               PROVE  \E j \in 1 .. Len(list) : list[j] = items[k]
    OBVIOUS
  <2>1. CASE k < i
    <3>1. k \in 1 .. Len(list) /\ list[k] = items[k]
      BY <1>1, <1>2, <2>1
    <3> QED BY <3>1
  <2>2. CASE k >= i
    <3>1. k + 1 \in 1 .. Len(list) /\ list[k + 1] = items[k]
      BY <1>1, <1>2, <2>2
    <3> QED BY <3>1
  <2> QED BY <2>1, <2>2
<1> HIDE DEF place
<1>7. Coalesced(list)
  <2>1. ASSUME NEW j \in 1 .. Len(list)
        PROVE  list[j].start < list[j].end
    <3>1. CASE j = i
      BY <1>2, <3>1
    <3>2. CASE j \in (1 .. Len(list)) \ {i}
      BY <1>1, <1>4, <3>2
    <3> QED BY <3>1, <3>2
  <2>2. ASSUME NEW j \in 1 .. Len(list), NEW k \in 1 .. Len(list), j < k
        PROVE  list[j].end < list[k].start
    <3>1. CASE j = i
      BY <1>1, <1>2, <1>4, <2>2, <3>1
    <3>2. CASE k = i
      BY <1>1, <1>2, <1>4, <2>2, <3>2
    <3>3. CASE j \in (1 .. Len(list)) \ {i} /\ k \in (1 .. Len(list)) \ {i}
      <4>1. place(j) < place(k)
        BY <1>5, <2>2, <3>3
      <4> QED BY <1>1, <1>4, <3>3, <4>1
    <3> QED BY <3>1, <3>2, <3>3
  <2> QED BY <1>2, <2>1, <2>2, CoalescedFacts
<1>8. ASSUME NEW v
      PROVE  v \in FreePages(list) <=> v \in FreePages(items) \/ v \in SpanPages(span)
  <2>1. v \in SpanPages(span) <=> v \in Int /\ span.start <= v /\ v < span.end
    BY <1>3 DEF SpanPages
  <2>2. CASE v \in FreePages(list)
    <3>1. PICK j \in 1 .. Len(list) : v \in Int /\ list[j].start <= v /\ v < list[j].end
      BY <1>2, <2>2, InFreePages
    <3>2. CASE j = i
      BY <1>2, <2>1, <2>2, <3>1, <3>2
    <3>3. CASE j # i
      <4>1. PICK k \in 1 .. Len(items) : list[j] = items[k]
        BY <1>4, <3>3, j \in (1 .. Len(list)) \ {i}
      <4> QED BY <2>2, <3>1, <4>1, InFreePages
    <3> QED BY <3>2, <3>3
  <2>3. CASE v \in FreePages(items)
    <3>1. PICK k \in 1 .. Len(items) : v \in Int /\ items[k].start <= v /\ v < items[k].end
      BY <2>3, InFreePages
    <3>2. PICK j \in 1 .. Len(list) : list[j] = items[k]
      BY <1>6
    <3> QED BY <1>2, <2>3, <3>1, <3>2, InFreePages
  <2>4. CASE v \in SpanPages(span)
    <3>1. i \in 1 .. Len(list) /\ list[i] = span
      BY <1>2
    <3> QED BY <1>2, <2>1, <2>4, <3>1, InFreePages
  <2> QED BY <2>2, <2>3, <2>4
<1>9. FreePages(list) = FreePages(items) \cup SpanPages(span)
  BY <1>8
<1> QED BY <1>2, <1>7, <1>9 DEF list

-----------------------------------------------------------------------------
(***************************************************************************)
(* freelist_alloc                                                          *)
(***************************************************************************)

\* Serving a request from span i leaves a coalesced list that offers all the
\* pages it offered before except the n that were handed out.
LEMMA TakeFromFacts ==
  ASSUME NEW items \in Seq(Span), Coalesced(items), NEW n \in Nat \ {0},
         NEW i \in DOMAIN items, SpanNumPages(items[i]) >= n
  PROVE  /\ TakeFrom(items, i, n) \in Seq(Span)
         /\ Coalesced(TakeFrom(items, i, n))
         /\ items[i].start \in Nat
         /\ PageRun(items[i].start, n) \subseteq FreePages(items)
         /\ FreePages(TakeFrom(items, i, n)) =
              FreePages(items) \ PageRun(items[i].start, n)
<1> DEFINE start == items[i].start
           end == items[i].end
           rest == VpSpan(start + n, end)
<1>1. /\ Len(items) \in Nat
      /\ DOMAIN items = 1 .. Len(items)
      /\ \A k \in 1 .. Len(items) : items[k].start \in Nat /\ items[k].end \in Nat
      /\ \A k \in 1 .. Len(items) : items[k].start < items[k].end
      /\ \A j, k \in 1 .. Len(items) : j < k => items[j].end < items[k].start
  BY CoalescedFacts
<1>2. start \in Nat /\ end \in Nat /\ start + n <= end /\ i \in 1 .. Len(items)
  BY <1>1 DEF SpanNumPages
<1>3. rest \in Span /\ rest.start = start + n /\ rest.end = end
  BY <1>2 DEF VpSpan, Span
<1>4. ASSUME NEW v
      PROVE  /\ v \in PageRun(start, n) <=> v \in Int /\ start <= v /\ v < start + n
             /\ v \in SpanPages(items[i]) <=> v \in Int /\ start <= v /\ v < end
             /\ v \in SpanPages(rest) <=> v \in Int /\ start + n <= v /\ v < end
  BY <1>2, <1>3 DEF PageRun, SpanPages
<1>5. PageRun(start, n) \subseteq FreePages(items)
  BY <1>2, <1>4, InFreePages
<1>6. SpanPages(items[i]) \subseteq FreePages(items)
  BY <1>2, <1>4, InFreePages
<1>7. CASE SpanEmpty(rest)
  <2>1. TakeFrom(items, i, n) = RemoveAt(items, i)
    BY <1>7 DEF TakeFrom
  <2>2. start + n = end
    BY <1>3, <1>7 DEF SpanEmpty
  <2>3. \A v : v \in PageRun(start, n) <=> v \in SpanPages(items[i])
    BY <1>4, <2>2
  <2>4. FreePages(items) \ PageRun(start, n) = FreePages(items) \ SpanPages(items[i])
    BY <2>3
  <2> QED BY <1>2, <1>5, <2>1, <2>4, RemoveSpan
<1>8. CASE ~SpanEmpty(rest)
  <2>1. TakeFrom(items, i, n) = SetSpan(items, i, rest.start, rest.end)
    BY <1>8 DEF TakeFrom
  <2>2. rest.start < rest.end
    BY <1>2, <1>3, <1>8 DEF SpanEmpty
  <2>3. Fits(items, i, rest.start, rest.end)
    BY <1>1, <1>2, <1>3, <2>2 DEF Fits
  <2>4. FreePages(items) \ PageRun(start, n) =
          (FreePages(items) \ SpanPages(items[i])) \cup SpanPages(rest)
    <3>1. ASSUME NEW v
          PROVE  v \in FreePages(items) \ PageRun(start, n) <=>
                   v \in (FreePages(items) \ SpanPages(items[i])) \cup SpanPages(rest)
      BY <1>2, <1>4, <1>6
    <3> QED BY <3>1
  <2> HIDE DEF rest
  <2>5. /\ TakeFrom(items, i, n) \in Seq(Span)
        /\ Coalesced(TakeFrom(items, i, n))
        /\ FreePages(TakeFrom(items, i, n)) =
             (FreePages(items) \ SpanPages(items[i])) \cup (rest.start .. rest.end - 1)
    BY <1>2, <2>1, <2>3, ReplaceSpan
  <2>6. SpanPages(rest) = rest.start .. rest.end - 1
    BY DEF SpanPages
  <2> QED BY <1>2, <1>5, <2>4, <2>5, <2>6
<1> QED BY <1>7, <1>8

-----------------------------------------------------------------------------
(***************************************************************************)
(* freelist_free                                                           *)
(***************************************************************************)

\* The spans before the insertion point end at or below the freed region, the
\* others start at or above its end.
LEMMA NextSpanFacts ==
  ASSUME NEW items \in Seq(Span), Coalesced(items),
         NEW start \in Nat, NEW end \in Nat, start < end,
         NEW next, NextSpan(items, end, next),
         (start .. end - 1) \cap FreePages(items) = {}
  PROVE  /\ next \in 1 .. Len(items) + 1
         /\ \A j \in 1 .. next - 1 : items[j].end <= start
         /\ \A j \in next .. Len(items) : items[j].start >= end
<1>1. /\ Len(items) \in Nat
      /\ \A k \in 1 .. Len(items) : items[k].start \in Nat /\ items[k].end \in Nat
      /\ \A k \in 1 .. Len(items) : items[k].start < items[k].end
      /\ \A j, k \in 1 .. Len(items) : j < k => items[j].end < items[k].start
  BY CoalescedFacts
<1>2. /\ next \in 1 .. Len(items) + 1
      /\ \A j \in 1 .. next - 1 : items[j].start < end
      /\ next <= Len(items) => items[next].start >= end
  BY DEF NextSpan
<1>3. ASSUME NEW j \in 1 .. next - 1, items[j].end > start
      PROVE  FALSE
  <2> DEFINE v == IF items[j].start >= start THEN items[j].start ELSE start
  <2>1. /\ v \in Int /\ j \in 1 .. Len(items)
        /\ start <= v /\ v < end
        /\ items[j].start <= v /\ v < items[j].end
    BY <1>1, <1>2, <1>3
  <2> HIDE DEF v
  <2>2. v \in start .. end - 1 /\ v \in FreePages(items)
    BY <2>1, InFreePages
  <2> QED BY <2>2
<1>4. \A j \in 1 .. next - 1 : items[j].end <= start
  BY <1>1, <1>2, <1>3
<1>5. \A j \in next .. Len(items) : items[j].start >= end
  BY <1>1, <1>2
<1> QED BY <1>2, <1>4, <1>5

\* Moving the end of a span up adds the pages it now covers.
LEMMA ExtendUp ==
  ASSUME NEW items \in Seq(Span), Coalesced(items),
         NEW start \in Nat, NEW end \in Nat, start < end,
         NEW p \in 1 .. Len(items), items[p].end = start,
         \A j \in p + 1 .. Len(items) : end < items[j].start,
         NEW low, low = items[p].start
  PROVE  /\ SetSpan(items, p, low, end) \in Seq(Span)
         /\ Coalesced(SetSpan(items, p, low, end))
         /\ FreePages(SetSpan(items, p, low, end)) = FreePages(items) \cup (start .. end - 1)
<1>1. /\ low \in Nat /\ low < start /\ low < end
      /\ \A j \in 1 .. p - 1 : items[j].end < low
  BY CoalescedFacts
<1>2. /\ SetSpan(items, p, low, end) \in Seq(Span)
      /\ Coalesced(SetSpan(items, p, low, end))
      /\ FreePages(SetSpan(items, p, low, end)) =
           (FreePages(items) \ SpanPages(items[p])) \cup (low .. end - 1)
  <2>1. Fits(items, p, low, end)
    BY <1>1 DEF Fits
  <2> QED BY <2>1, ReplaceSpan
<1>3. SpanPages(items[p]) = low .. start - 1
  BY DEF SpanPages
<1>4. low .. start - 1 \subseteq FreePages(items)
  <2>1. \A v \in low .. start - 1 : v \in Int /\ items[p].start <= v /\ v < items[p].end
    BY <1>1
  <2> QED BY <2>1, InFreePages
<1>5. low .. end - 1 = (low .. start - 1) \cup (start .. end - 1)
  BY <1>1
<1> QED BY <1>2, <1>3, <1>4, <1>5

\* Moving the start of a span down adds the pages it now covers.
LEMMA ExtendDown ==
  ASSUME NEW items \in Seq(Span), Coalesced(items),
         NEW start \in Nat, NEW end \in Nat, start < end,
         NEW q \in 1 .. Len(items), items[q].start = end,
         \A j \in 1 .. q - 1 : items[j].end < start,
         NEW high, high = items[q].end
  PROVE  /\ SetSpan(items, q, start, high) \in Seq(Span)
         /\ Coalesced(SetSpan(items, q, start, high))
         /\ FreePages(SetSpan(items, q, start, high)) = FreePages(items) \cup (start .. end - 1)
<1>1. /\ high \in Nat /\ end < high /\ start < high
      /\ \A j \in q + 1 .. Len(items) : high < items[j].start
  BY CoalescedFacts
<1>2. /\ SetSpan(items, q, start, high) \in Seq(Span)
      /\ Coalesced(SetSpan(items, q, start, high))
      /\ FreePages(SetSpan(items, q, start, high)) =
           (FreePages(items) \ SpanPages(items[q])) \cup (start .. high - 1)
  <2>1. Fits(items, q, start, high)
    BY <1>1 DEF Fits
  <2> QED BY <2>1, ReplaceSpan
<1>3. SpanPages(items[q]) = end .. high - 1
  BY DEF SpanPages
<1>4. end .. high - 1 \subseteq FreePages(items)
  <2>1. \A v \in end .. high - 1 : v \in Int /\ items[q].start <= v /\ v < items[q].end
    BY <1>1
  <2> QED BY <2>1, InFreePages
<1>5. start .. high - 1 = (start .. end - 1) \cup (end .. high - 1)
  BY <1>1
<1> QED BY <1>2, <1>3, <1>4, <1>5

\* Merging a span with its neighbour across the gap between them adds the
\* pages of the gap.
LEMMA MergeNeighbours ==
  ASSUME NEW items \in Seq(Span), Coalesced(items),
         NEW start \in Nat, NEW end \in Nat, start < end,
         NEW p \in 1 .. Len(items), items[p].end = start,
         NEW q \in 1 .. Len(items), q = p + 1, items[q].start = end,
         NEW low, low = items[p].start,
         NEW high, high = items[q].end,
         NEW grown \in Seq(Span), grown = SetSpan(items, p, low, end)
  PROVE  /\ RemoveAt(SetSpan(grown, p, low, high), q) \in Seq(Span)
         /\ Coalesced(RemoveAt(SetSpan(grown, p, low, high), q))
         /\ FreePages(RemoveAt(SetSpan(grown, p, low, high), q)) =
              FreePages(items) \cup (start .. end - 1)
<1> DEFINE merged == SetSpan(grown, p, low, high)
           rest == RemoveAt(items, q)
           final == SetSpan(rest, p, low, high)
<1>1. /\ Len(items) \in Nat
      /\ low \in Nat /\ high \in Nat /\ low < start /\ end < high /\ low < high
      /\ \A j \in 1 .. p - 1 : items[j].end < low
      /\ \A j \in q + 1 .. Len(items) : high < items[j].start
  <2>1. /\ Len(items) \in Nat
        /\ \A k \in 1 .. Len(items) : items[k].start \in Nat /\ items[k].end \in Nat
        /\ \A k \in 1 .. Len(items) : items[k].start < items[k].end
        /\ \A j, k \in 1 .. Len(items) : j < k => items[j].end < items[k].start
    BY CoalescedFacts
  <2>2. p \in Nat /\ q \in Nat /\ p >= 1 /\ q <= Len(items)
    BY <2>1
  <2>3. /\ low \in Nat /\ high \in Nat
        /\ low < start /\ end < high
    BY <2>1
  <2>4. low < high
    BY <2>3
  <2>5. ASSUME NEW j \in 1 .. p - 1
        PROVE  items[j].end < low
    <3>1. j \in 1 .. Len(items) /\ j < p
      BY <2>1, <2>2
    <3> QED BY <2>1, <3>1
  <2>6. ASSUME NEW j \in q + 1 .. Len(items)
        PROVE  high < items[j].start
    <3>1. j \in 1 .. Len(items) /\ q < j
      BY <2>1, <2>2
    <3> QED BY <2>1, <3>1
  <2> QED BY <2>1, <2>3, <2>4, <2>5, <2>6
<1>2. /\ Len(grown) = Len(items)
      /\ \A j \in 1 .. Len(items) : j # p => grown[j] = items[j]
  BY <1>1, SetSpanFacts
<1>3. /\ merged \in Seq(Span)
      /\ Len(merged) = Len(grown)
      /\ \A j \in 1 .. Len(grown) : merged[j] = IF j = p THEN VpSpan(low, high) ELSE grown[j]
  BY <1>1, <1>2, SetSpanFacts
<1>4. /\ rest \in Seq(Span)
      /\ Len(rest) = Len(items) - 1
      /\ Coalesced(rest)
      /\ FreePages(rest) = FreePages(items) \ SpanPages(items[q])
  BY RemoveSpan
<1>5. \A j \in 1 .. Len(items) - 1 : rest[j] = IF j < q THEN items[j] ELSE items[j + 1]
  BY RemoveAtFacts
<1> HIDE DEF merged, rest
<1>6. /\ RemoveAt(merged, q) \in Seq(Span)
      /\ Len(RemoveAt(merged, q)) = Len(merged) - 1
      /\ \A j \in 1 .. Len(merged) - 1 :
           RemoveAt(merged, q)[j] = IF j < q THEN merged[j] ELSE merged[j + 1]
  BY <1>2, <1>3, RemoveAtFacts
<1>7. p \in 1 .. Len(rest) /\ rest[p] = items[p]
  BY <1>1, <1>4, <1>5
<1>8. /\ final \in Seq(Span)
      /\ Len(final) = Len(rest)
      /\ \A j \in 1 .. Len(rest) : final[j] = IF j = p THEN VpSpan(low, high) ELSE rest[j]
  <2>1. VpSpan(low, high) \in Span
    BY <1>1 DEF VpSpan, Span
  <2> QED BY <1>4, <1>7, <2>1, ExceptSeq DEF SetSpan
<1> HIDE DEF final
<1>9. RemoveAt(merged, q) = final
  <2>1. Len(RemoveAt(merged, q)) = Len(final)
    BY <1>2, <1>3, <1>4, <1>6, <1>8
  <2>2. ASSUME NEW j \in 1 .. Len(items) - 1
        PROVE  RemoveAt(merged, q)[j] = final[j]
    <3>1. CASE j = p
      BY <1>1, <1>2, <1>3, <1>4, <1>6, <1>8, <3>1
    <3>2. CASE j < p
      BY <1>1, <1>2, <1>3, <1>4, <1>5, <1>6, <1>8, <3>2
    <3>3. CASE j > p
      <4>1. j + 1 \in 1 .. Len(items) /\ j + 1 # p /\ ~(j < q)
        BY <1>1, <3>3
      <4>2. RemoveAt(merged, q)[j] = items[j + 1]
        BY <1>2, <1>3, <1>6, <4>1
      <4>3. final[j] = items[j + 1]
        BY <1>4, <1>5, <1>8, <3>3, <4>1
      <4> QED BY <4>2, <4>3
    <3> QED BY <1>1, <3>1, <3>2, <3>3
  <2>3. Len(RemoveAt(merged, q)) = Len(items) - 1
    BY <1>2, <1>3, <1>6
  <2> QED BY <1>6, <1>8, <2>1, <2>2, <2>3, SeqEqual
<1>10. \A j \in 1 .. p - 1 : rest[j].end < low
  BY <1>1, <1>4, <1>5
<1>11. ASSUME NEW j \in p + 1 .. Len(rest)
       PROVE  high < rest[j].start
  <2>1. j + 1 \in q + 1 .. Len(items) /\ rest[j] = items[j + 1]
    BY <1>1, <1>4, <1>5
  <2> QED BY <1>1, <2>1
<1>12. /\ final \in Seq(Span) /\ Coalesced(final)
       /\ FreePages(final) = (FreePages(rest) \ SpanPages(rest[p])) \cup (low .. high - 1)
  <2>1. Fits(rest, p, low, high)
    BY <1>1, <1>10, <1>11 DEF Fits
  <2> QED BY <1>4, <1>7, <2>1, ReplaceSpan DEF final
<1>13. SpanPages(items[p]) = low .. start - 1 /\ SpanPages(items[q]) = end .. high - 1
  BY DEF SpanPages
<1>14. low .. start - 1 \subseteq FreePages(items) /\ end .. high - 1 \subseteq FreePages(items)
  <2>1. \A v \in low .. start - 1 : v \in Int /\ items[p].start <= v /\ v < items[p].end
    BY <1>1
  <2>2. \A v \in end .. high - 1 : v \in Int /\ items[q].start <= v /\ v < items[q].end
    BY <1>1
  <2> QED BY <2>1, <2>2, InFreePages
<1>15. low .. high - 1 = (low .. start - 1) \cup (start .. end - 1) \cup (end .. high - 1)
  BY <1>1
<1>16. FreePages(final) = FreePages(items) \cup (start .. end - 1)
  BY <1>4, <1>7, <1>12, <1>13, <1>14, <1>15
<1> QED BY <1>9, <1>12, <1>16 DEF merged

\* Freeing pages that are not in the list leaves a coalesced list that offers
\* them in addition to what it offered before, whichever neighbours it merges.
LEMMA AddRegionFacts ==
  ASSUME NEW items \in Seq(Span), Coalesced(items),
         NEW start \in Nat, NEW end \in Nat, start < end,
         NEW next, NextSpan(items, end, next),
         (start .. end - 1) \cap FreePages(items) = {}
  PROVE  /\ AddRegion(items, next, start, end) \in Seq(Span)
         /\ Coalesced(AddRegion(items, next, start, end))
         /\ FreePages(AddRegion(items, next, start, end)) =
              FreePages(items) \cup (start .. end - 1)
<1>1. /\ next \in 1 .. Len(items) + 1
      /\ \A j \in 1 .. next - 1 : items[j].end <= start
      /\ \A j \in next .. Len(items) : items[j].start >= end
  BY NextSpanFacts
<1>2. /\ Len(items) \in Nat
      /\ \A k \in 1 .. Len(items) : items[k].start \in Nat /\ items[k].end \in Nat
      /\ \A k \in 1 .. Len(items) : items[k].start < items[k].end
      /\ \A j, k \in 1 .. Len(items) : j < k => items[j].end < items[k].start
  BY CoalescedFacts
<1>3. ~TouchesPrev(items, next, start) => \A j \in 1 .. next - 1 : items[j].end < start
  BY <1>1, <1>2 DEF TouchesPrev
<1>4. ~TouchesNext(items, next, end) => \A j \in next .. Len(items) : end < items[j].start
  BY <1>1, <1>2 DEF TouchesNext
<1>5. CASE TouchesPrev(items, next, start)
  <2>1. PICK p \in 1 .. Len(items) : p = next - 1
    BY <1>1, <1>2, <1>5 DEF TouchesPrev
  <2>2. items[p].end = start /\ p + 1 = next
    BY <1>1, <1>5, <2>1 DEF TouchesPrev
  <2>3. PICK low : low = items[p].start
    OBVIOUS
  <2>4. low \in Nat
    BY <1>2, <2>3
  <2>5. PICK grown : grown = SetSpan(items, p, low, end)
    OBVIOUS
  <2>6. /\ grown \in Seq(Span)
        /\ Len(grown) = Len(items)
        /\ \A j \in 1 .. Len(items) : grown[j] = IF j = p THEN VpSpan(low, end) ELSE items[j]
        /\ VpSpan(low, end).start = low
        /\ VpSpan(low, end).end = end
    BY <2>4, <2>5, SetSpanFacts
  <2>7. AddRegion(items, next, start, end) =
          IF next <= Len(items) THEN TryMergeSpans(grown, p) ELSE grown
    BY <1>5, <2>1, <2>3, <2>5, <2>6 DEF AddRegion, ExtendPrev
  <2>8. CASE TouchesNext(items, next, end)
    <3>1. PICK q \in 1 .. Len(items) : q = next
      BY <1>1, <1>2, <2>8 DEF TouchesNext
    <3>2. items[q].start = end /\ q = p + 1
      BY <2>2, <2>8, <3>1 DEF TouchesNext
    <3>3. PICK high : high = items[q].end
      OBVIOUS
    <3>4. grown[p].start = low /\ grown[p].end = end /\ grown[q] = items[q]
      BY <2>6, <3>2
    <3>5. AddRegion(items, next, start, end) = RemoveAt(SetSpan(grown, p, low, high), q)
      BY <2>2, <2>7, <2>8, <3>1, <3>2, <3>3, <3>4 DEF TryMergeSpans, TouchesNext
    <3> QED BY <2>2, <2>3, <2>5, <2>6, <3>2, <3>3, <3>5, MergeNeighbours
  <2>9. CASE ~TouchesNext(items, next, end)
    <3>1. next <= Len(items) => TryMergeSpans(grown, p) = grown
      <4>1. SUFFICES ASSUME next <= Len(items)
                     PROVE  TryMergeSpans(grown, p) = grown
        OBVIOUS
      <4>2. next \in 1 .. Len(items) /\ next # p
        BY <1>1, <1>2, <2>2, <4>1
      <4>3. grown[p].end = end /\ grown[next] = items[next] /\ items[next].start # end
        BY <2>6, <2>9, <4>1, <4>2 DEF TouchesNext
      <4> QED BY <2>2, <4>3 DEF TryMergeSpans
    <3>2. AddRegion(items, next, start, end) = SetSpan(items, p, low, end)
      BY <2>5, <2>7, <3>1
    <3>3. \A j \in p + 1 .. Len(items) : end < items[j].start
      BY <1>4, <2>2, <2>9
    <3> QED BY <2>2, <2>3, <3>2, <3>3, ExtendUp
  <2> QED BY <2>8, <2>9
<1>6. CASE ~TouchesPrev(items, next, start) /\ TouchesNext(items, next, end)
  <2>1. next \in 1 .. Len(items) /\ items[next].start = end
    BY <1>1, <1>2, <1>6 DEF TouchesNext
  <2>2. PICK high : high = items[next].end
    OBVIOUS
  <2>3. high \in Nat
    BY <1>2, <2>1, <2>2
  <2>4. PICK grown : grown = SetSpan(items, next, start, high)
    OBVIOUS
  <2>5. /\ \A j \in 1 .. Len(items) : grown[j] = IF j = next THEN VpSpan(start, high) ELSE items[j]
        /\ VpSpan(start, high).start = start
    BY <2>1, <2>3, <2>4, SetSpanFacts
  <2>6. AddRegion(items, next, start, end) =
          IF next > 1 THEN TryMergeSpans(grown, next - 1) ELSE grown
    BY <1>6, <2>2, <2>4 DEF AddRegion, ExtendNext
  <2>7. next > 1 => TryMergeSpans(grown, next - 1) = grown
    <3>1. SUFFICES ASSUME next > 1
                   PROVE  TryMergeSpans(grown, next - 1) = grown
      OBVIOUS
    <3>2. PICK p \in 1 .. Len(items) : p = next - 1
      BY <1>1, <1>2, <3>1
    <3>3. grown[p] = items[p] /\ grown[next].start = start /\ p + 1 = next
      BY <2>1, <2>5, <3>2
    <3>4. items[p].end # start
      BY <1>6, <3>1, <3>2 DEF TouchesPrev
    <3> QED BY <3>2, <3>3, <3>4 DEF TryMergeSpans
  <2>8. AddRegion(items, next, start, end) = SetSpan(items, next, start, high)
    BY <2>4, <2>6, <2>7
  <2> QED BY <1>3, <1>6, <2>1, <2>2, <2>8, ExtendDown
<1>7. CASE ~TouchesPrev(items, next, start) /\ ~TouchesNext(items, next, end)
  <2>1. PICK span : span = VpSpan(start, end)
    OBVIOUS
  <2>2. span \in Span /\ span.start = start /\ span.end = end
    BY <2>1 DEF VpSpan, Span
  <2>3. AddRegion(items, next, start, end) = InsertAt(items, next, span)
    BY <1>7, <2>1 DEF AddRegion
  <2>4. /\ AddRegion(items, next, start, end) \in Seq(Span)
        /\ Coalesced(AddRegion(items, next, start, end))
        /\ FreePages(AddRegion(items, next, start, end)) = FreePages(items) \cup SpanPages(span)
    BY <1>1, <1>3, <1>4, <1>7, <2>2, <2>3, InsertSpanFacts
  <2>5. SpanPages(span) = start .. end - 1
    BY <2>2 DEF SpanPages
  <2> QED BY <2>4, <2>5
<1> QED BY <1>5, <1>6, <1>7

-----------------------------------------------------------------------------
(***************************************************************************)
(* When no span fits                                                       *)
(***************************************************************************)

\* In a coalesced list contiguous free pages lie in one span, so first fit
\* finds a span whenever n contiguous pages are free.
LEMMA NoFitNoRun ==
  ASSUME NEW list \in Seq(Span), Coalesced(list), NEW n \in Nat \ {0},
         NoFit(list, n), NEW p \in Int, PageRun(p, n) \subseteq FreePages(list)
  PROVE  FALSE
<1>1. /\ Len(list) \in Nat
      /\ DOMAIN list = 1 .. Len(list)
      /\ \A k \in 1 .. Len(list) : list[k].start \in Nat /\ list[k].end \in Nat
      /\ \A k \in 1 .. Len(list) : list[k].start < list[k].end
      /\ \A j, k \in 1 .. Len(list) : j < k => list[j].end < list[k].start
  BY CoalescedFacts
<1>2. p \in FreePages(list)
  BY DEF PageRun
<1>3. PICK i \in 1 .. Len(list) : list[i].start <= p /\ p < list[i].end
  BY <1>2, InFreePages
<1>4. list[i].end < p + n
  BY <1>1, <1>3 DEF NoFit, SpanNumPages
<1>5. list[i].end \in FreePages(list)
  BY <1>1, <1>3, <1>4 DEF PageRun
<1>6. PICK j \in 1 .. Len(list) : list[j].start <= list[i].end /\ list[i].end < list[j].end
  BY <1>5, InFreePages
<1>7. CASE j = i
  BY <1>1, <1>6, <1>7
<1>8. CASE j < i
  BY <1>1, <1>6, <1>8
<1>9. CASE i < j
  BY <1>1, <1>6, <1>9
<1> QED BY <1>7, <1>8, <1>9
=============================================================================
