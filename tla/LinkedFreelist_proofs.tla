------------------------ MODULE LinkedFreelist_proofs ------------------------
(***************************************************************************)
(* The free list as pointers, for every set of vp_spans and of pages.      *)
(*                                                                         *)
(* First the LIST macros: they keep a list linked both ways and change no  *)
(* other link than the one they are asked to change.  Linked is a          *)
(* conjunction over pairs of neighbours, so no induction along the list is *)
(* needed: each of those proofs looks at the pointers written.             *)
(*                                                                         *)
(* Then the calls on the chain.  A loop over the pointers is a recursive   *)
(* function, and what it yields is shown without an induction scheme: the  *)
(* sequence the loop ought to meet is a solution of the recursion, and the *)
(* least position at which another solution differed would follow from one *)
(* at which it does not.  The invariant Chained names that sequence; each  *)
(* call changes it as VirtPageAlloc says it changes `items`.               *)
(***************************************************************************)
EXTENDS LinkedFreelist, VirtPageAlloc_proofs, FiniteSetTheorems, WellFoundedInduction

\* Two assignments in a row: the fields of a list after SetNext and SetPrev.
LEMMA SetNextFields ==
  ASSUME NEW l \in Lists, NEW d \in Elems \cup {ListHead},
         NEW e \in Elems \cup {Null, Wild}
  PROVE  /\ SetNext(l, d, e) \in Lists
         /\ SetNext(l, d, e).next = [l.next EXCEPT ![d] = e]
         /\ SetNext(l, d, e).prev = l.prev
<1>1. l = [next |-> l.next, prev |-> l.prev]
  BY DEF Lists
<1>2. l.next \in [Elems \cup {ListHead} -> Elems \cup {Null, Wild}]
  BY DEF Lists
<1>3. [l.next EXCEPT ![d] = e] \in [Elems \cup {ListHead} -> Elems \cup {Null, Wild}]
  BY <1>2
<1>4. SetNext(l, d, e) = [next |-> [l.next EXCEPT ![d] = e], prev |-> l.prev]
  BY <1>1 DEF SetNext, Lists
<1>5. l.prev \in [Elems -> Elems \cup {ListHead, Wild}]
  BY DEF Lists
<1> QED
  BY <1>3, <1>4, <1>5 DEF Lists

LEMMA SetPrevFields ==
  ASSUME NEW l \in Lists, NEW e \in Elems, NEW d \in Elems \cup {ListHead, Wild}
  PROVE  /\ SetPrev(l, e, d) \in Lists
         /\ SetPrev(l, e, d).next = l.next
         /\ SetPrev(l, e, d).prev = [l.prev EXCEPT ![e] = d]
<1>1. l = [next |-> l.next, prev |-> l.prev]
  BY DEF Lists
<1>2. l.prev \in [Elems -> Elems \cup {ListHead, Wild}]
  BY DEF Lists
<1>3. [l.prev EXCEPT ![e] = d] \in [Elems -> Elems \cup {ListHead, Wild}]
  BY <1>2
<1>4. SetPrev(l, e, d) = [next |-> l.next, prev |-> [l.prev EXCEPT ![e] = d]]
  BY <1>1 DEF SetPrev, Lists
<1>5. l.next \in [Elems \cup {ListHead} -> Elems \cup {Null, Wild}]
  BY DEF Lists
<1> QED
  BY <1>3, <1>4, <1>5 DEF Lists

-----------------------------------------------------------------------------

\* after is l with e inserted behind the pointer at d, the elements of l being
\* in: it goes between that pointer and what it led to, and every other element
\* keeps its successor.
Inserted(l, in, d, e, after) ==
  /\ after \in Lists
  /\ Linked(after, in \cup {e})
  /\ after.next[d] = e /\ after.next[e] = l.next[d]
  /\ \A x \in (in \cup {ListHead}) \ {d} : after.next[x] = l.next[x]

\* LIST_INSERT_AFTER: the element goes between `at` and what followed it, and
\* the list stays linked both ways.
THEOREM InsertAfterKeepsLinks ==
  ASSUME NEW l \in Lists, NEW in \in SUBSET Elems, Linked(l, in),
         NEW at \in in \cup {ListHead}, NEW e \in Elems \ in
  PROVE  Inserted(l, in, at, e, ListInsertAfter(l, at, e))
<1> USE PointersAssumption
<1> DEFINE l1 == SetNext(l, e, l.next[at])
           l2 == SetNext(l1, at, e)
           l3 == SetPrev(l2, e, at)
           after == ListInsertAfter(l, at, e)
<1>1. /\ at \in Elems \cup {ListHead} /\ at # e
      /\ l.next[at] \in in \cup {Null} /\ l.next[at] # e
  BY DEF Linked
<1> HIDE DEF l1, l2, l3, after
<1>2. /\ l1 \in Lists /\ l1.prev = l.prev
      /\ l1.next = [l.next EXCEPT ![e] = l.next[at]]
  <2>1. e \in Elems \cup {ListHead} /\ l.next[at] \in Elems \cup {Null, Wild}
    BY <1>1
  <2> QED
    BY <2>1, SetNextFields DEF l1
<1>3. /\ l2 \in Lists /\ l2.prev = l.prev
      /\ l2.next = [l1.next EXCEPT ![at] = e]
  <2>1. e \in Elems \cup {Null, Wild} /\ at \in Elems \cup {ListHead} /\ l1 \in Lists
    BY <1>1, <1>2
  <2>2. /\ SetNext(l1, at, e) \in Lists
        /\ SetNext(l1, at, e).next = [l1.next EXCEPT ![at] = e]
        /\ SetNext(l1, at, e).prev = l1.prev
    BY ONLY <2>1, SetNextFields
  <2> QED
    BY <1>2, <2>2 DEF l2
<1>4. /\ l3 \in Lists /\ l3.next = l2.next
      /\ l3.prev = [l.prev EXCEPT ![e] = at]
  <2>1. at \in Elems \cup {ListHead, Wild}
    BY <1>1
  <2> QED
    BY <1>3, <2>1, SetPrevFields DEF l3
<1>5. /\ after \in Lists /\ after.next = l3.next
      /\ after.prev = IF l.next[at] # Null THEN [l3.prev EXCEPT ![l.next[at]] = e]
                                           ELSE l3.prev
  <2>1. CASE l.next[at] # Null
    <3>1. after = SetPrev(l3, l.next[at], e)
      BY <2>1 DEF ListInsertAfter, l1, l2, l3, after
    <3>2. l.next[at] \in Elems /\ e \in Elems \cup {ListHead, Wild}
      BY <1>1, <2>1
    <3>3. l3 \in Lists
      BY <1>4
    <3>4. /\ SetPrev(l3, l.next[at], e) \in Lists
          /\ SetPrev(l3, l.next[at], e).next = l3.next
          /\ SetPrev(l3, l.next[at], e).prev = [l3.prev EXCEPT ![l.next[at]] = e]
      BY ONLY <3>2, <3>3, SetPrevFields
    <3> QED
      BY <2>1, <3>1, <3>4
  <2>2. CASE l.next[at] = Null
    <3>1. after = l3
      BY <2>2 DEF ListInsertAfter, l1, l2, l3, after
    <3> QED
      BY <1>4, <2>2, <3>1
  <2> QED
    BY <2>1, <2>2
<1>6. l.next \in [Elems \cup {ListHead} -> Elems \cup {Null, Wild}]
  BY DEF Lists
<1>7. l.prev \in [Elems -> Elems \cup {ListHead, Wild}]
  BY DEF Lists
<1>8. \A d \in Elems \cup {ListHead} :
        after.next[d] = IF d = at THEN e ELSE IF d = e THEN l.next[at] ELSE l.next[d]
  BY <1>1, <1>2, <1>3, <1>4, <1>5, <1>6
<1>9. \A x \in Elems :
        after.prev[x] = IF x = l.next[at] THEN e ELSE IF x = e THEN at ELSE l.prev[x]
  BY <1>1, <1>4, <1>5, <1>7
<1>10. Linked(after, in \cup {e})
  <2>1. \A d \in (in \cup {e}) \cup {ListHead} : after.next[d] \in (in \cup {e}) \cup {Null}
    BY <1>1, <1>8 DEF Linked
  <2>2. \A x \in in \cup {e} : after.prev[x] \in (in \cup {e}) \cup {ListHead}
    <3>1. \A x \in in : l.prev[x] \in in \cup {ListHead} /\ x \in Elems
      BY DEF Linked
    <3> QED
      BY <1>9, <3>1
  <2>3. \A x \in in \cup {e} : after.next[after.prev[x]] = x
    <3>1. ASSUME NEW x \in in, x # l.next[at] PROVE after.next[after.prev[x]] = x
      <4>1. after.prev[x] = l.prev[x] /\ l.prev[x] \in in \cup {ListHead}
        BY <1>9, <3>1 DEF Linked
      <4>2. l.next[l.prev[x]] = x /\ l.prev[x] # at
        BY <3>1 DEF Linked
      <4> QED
        BY <1>8, <4>1, <4>2
    <3>2. ASSUME NEW x \in in, x = l.next[at] PROVE after.next[after.prev[x]] = x
      BY <1>1, <1>8, <1>9, <3>2
    <3>3. after.next[after.prev[e]] = e
      BY <1>1, <1>8, <1>9
    <3> QED
      BY <3>1, <3>2, <3>3
  <2>4. \A d \in (in \cup {e}) \cup {ListHead} :
          after.next[d] # Null => after.prev[after.next[d]] = d
    <3>1. ASSUME NEW d \in in \cup {ListHead}, d # at, l.next[d] # Null
          PROVE  after.prev[after.next[d]] = d
      <4>1. after.next[d] = l.next[d] /\ l.next[d] \in in /\ l.prev[l.next[d]] = d
        BY <1>8, <3>1 DEF Linked
      <4>2. l.next[d] # l.next[at]
        BY <3>1, <4>1 DEF Linked
      <4> QED
        BY <1>9, <4>1, <4>2
    <3>2. after.prev[after.next[at]] = at
      BY <1>1, <1>8, <1>9
    <3>3. after.next[e] # Null => after.prev[after.next[e]] = e
      BY <1>1, <1>8, <1>9
    <3> QED
      BY <1>8, <3>1, <3>2, <3>3
  <2> QED
    BY <2>1, <2>2, <2>3, <2>4 DEF Linked
<1>11. \A d \in (in \cup {ListHead}) \ {at} : after.next[d] = l.next[d]
  BY <1>8
<1>12. after.next[at] = e /\ after.next[e] = l.next[at]
  BY <1>1, <1>8
<1> QED
  BY <1>5, <1>10, <1>11, <1>12 DEF after, Inserted

\* LIST_INSERT_HEAD does what LIST_INSERT_AFTER would do to the head's pointer.
THEOREM InsertHeadKeepsLinks ==
  ASSUME NEW l \in Lists, NEW in \in SUBSET Elems, Linked(l, in), NEW e \in Elems \ in
  PROVE  Inserted(l, in, ListHead, e, ListInsertHead(l, e))
<1>1. ListInsertHead(l, e) = ListInsertAfter(l, ListHead, e)
  BY DEF ListInsertHead, ListInsertAfter, ListFirst
<1> QED
  BY <1>1, InsertAfterKeepsLinks

\* LIST_REMOVE: what pointed at e points at what followed it, and every other
\* element keeps its successor; e's memory may then be given back.  An element
\* that is reached from the head is not its own successor.
THEOREM RemoveKeepsLinks ==
  ASSUME NEW l \in Lists, NEW in \in SUBSET Elems, Linked(l, in), NEW e \in in, l.next[e] # e
  PROVE  LET after == Forget(ListRemove(l, e), e)
         IN  /\ after \in Lists
             /\ Linked(after, in \ {e})
             /\ after.next[l.prev[e]] = l.next[e]
             /\ \A d \in (in \cup {ListHead}) \ {e, l.prev[e]} : after.next[d] = l.next[d]
<1> USE PointersAssumption
<1> DEFINE closed == IF l.next[e] # Null THEN SetPrev(l, l.next[e], l.prev[e]) ELSE l
           removed == SetNext(closed, l.prev[e], l.next[e])
           wild == SetNext(removed, e, Wild)
           after == Forget(ListRemove(l, e), e)
<1> HIDE DEF closed, removed, wild, after
<1>1. /\ e \in Elems
      /\ l.prev[e] \in in \cup {ListHead} /\ l.next[l.prev[e]] = e
      /\ l.next[e] \in in \cup {Null}
  BY DEF Linked
<1>2. l.next \in [Elems \cup {ListHead} -> Elems \cup {Null, Wild}]
  BY DEF Lists
<1>3. l.prev \in [Elems -> Elems \cup {ListHead, Wild}]
  BY DEF Lists
<1>4. l.prev[e] # e /\ l.next[e] # e
  BY <1>1
<1>5. /\ closed \in Lists /\ closed.next = l.next
      /\ closed.prev = IF l.next[e] # Null THEN [l.prev EXCEPT ![l.next[e]] = l.prev[e]]
                                          ELSE l.prev
  <2>1. CASE l.next[e] # Null
    <3>1. l.next[e] \in Elems /\ l.prev[e] \in Elems \cup {ListHead, Wild}
      BY <1>1, <2>1
    <3>2. /\ SetPrev(l, l.next[e], l.prev[e]) \in Lists
          /\ SetPrev(l, l.next[e], l.prev[e]).next = l.next
          /\ SetPrev(l, l.next[e], l.prev[e]).prev = [l.prev EXCEPT ![l.next[e]] = l.prev[e]]
      BY <3>1, SetPrevFields
    <3> QED
      BY <2>1, <3>2 DEF closed
  <2>2. CASE l.next[e] = Null
    BY <2>2 DEF closed
  <2> QED
    BY <2>1, <2>2
<1>6. /\ removed \in Lists /\ removed.prev = closed.prev
      /\ removed.next = [l.next EXCEPT ![l.prev[e]] = l.next[e]]
  <2>1. /\ l.prev[e] \in Elems \cup {ListHead} /\ l.next[e] \in Elems \cup {Null, Wild}
        /\ closed \in Lists
    BY <1>1, <1>5
  <2>2. /\ SetNext(closed, l.prev[e], l.next[e]) \in Lists
        /\ SetNext(closed, l.prev[e], l.next[e]).next =
             [closed.next EXCEPT ![l.prev[e]] = l.next[e]]
        /\ SetNext(closed, l.prev[e], l.next[e]).prev = closed.prev
    BY ONLY <2>1, SetNextFields
  <2> QED
    BY <1>5, <2>2 DEF removed
<1>7. /\ wild \in Lists /\ wild.prev = removed.prev
      /\ wild.next = [removed.next EXCEPT ![e] = Wild]
  <2>1. e \in Elems \cup {ListHead} /\ Wild \in Elems \cup {Null, Wild} /\ removed \in Lists
    BY <1>1, <1>6
  <2>2. /\ SetNext(removed, e, Wild) \in Lists
        /\ SetNext(removed, e, Wild).next = [removed.next EXCEPT ![e] = Wild]
        /\ SetNext(removed, e, Wild).prev = removed.prev
    BY ONLY <2>1, SetNextFields
  <2> QED
    BY <2>2 DEF wild
<1>8. /\ after \in Lists /\ after.next = wild.next
      /\ after.prev = [wild.prev EXCEPT ![e] = Wild]
  <2>1. after = SetPrev(wild, e, Wild)
    BY DEF after, Forget, ListRemove, closed, removed, wild
  <2>2. e \in Elems /\ Wild \in Elems \cup {ListHead, Wild} /\ wild \in Lists
    BY <1>1, <1>7
  <2>3. /\ SetPrev(wild, e, Wild) \in Lists
        /\ SetPrev(wild, e, Wild).next = wild.next
        /\ SetPrev(wild, e, Wild).prev = [wild.prev EXCEPT ![e] = Wild]
    BY ONLY <2>2, SetPrevFields
  <2> QED
    BY <2>1, <2>3
<1>9. \A d \in Elems \cup {ListHead} :
        after.next[d] = IF d = e THEN Wild
                        ELSE IF d = l.prev[e] THEN l.next[e] ELSE l.next[d]
  BY <1>1, <1>2, <1>6, <1>7, <1>8
<1>10. \A x \in Elems \ {e} :
         after.prev[x] = IF x = l.next[e] THEN l.prev[e] ELSE l.prev[x]
  BY <1>1, <1>3, <1>5, <1>6, <1>7, <1>8
<1>11. Linked(after, in \ {e})
  <2>1. ASSUME NEW d \in (in \ {e}) \cup {ListHead}
        PROVE  after.next[d] \in (in \ {e}) \cup {Null}
    <3>1. CASE d = l.prev[e]
      BY <1>1, <1>4, <1>9, <3>1
    <3>2. CASE d # l.prev[e]
      <4>1. after.next[d] = l.next[d] /\ l.next[d] \in in \cup {Null}
        BY <1>1, <1>9, <3>2 DEF Linked
      <4>2. l.next[d] # e
        BY <1>1, <3>2 DEF Linked
      <4> QED
        BY <4>1, <4>2
    <3> QED
      BY <3>1, <3>2
  <2>2. ASSUME NEW x \in in \ {e}
        PROVE  after.prev[x] \in (in \ {e}) \cup {ListHead} /\ after.next[after.prev[x]] = x
    <3>1. CASE x = l.next[e]
      <4>1. after.prev[x] = l.prev[e]
        BY <1>10, <3>1
      <4>2. after.next[l.prev[e]] = l.next[e]
        BY <1>1, <1>4, <1>9
      <4> QED
        BY <1>1, <1>4, <3>1, <4>1, <4>2
    <3>2. CASE x # l.next[e]
      <4>1. after.prev[x] = l.prev[x] /\ l.prev[x] \in in \cup {ListHead} /\ l.next[l.prev[x]] = x
        BY <1>10, <3>2 DEF Linked
      <4>2. l.prev[x] # e /\ l.prev[x] # l.prev[e]
        BY <1>1, <3>2, <4>1
      <4>3. after.next[l.prev[x]] = l.next[l.prev[x]]
        BY <1>9, <4>1, <4>2
      <4> QED
        BY <4>1, <4>2, <4>3
    <3> QED
      BY <3>1, <3>2
  <2>3. ASSUME NEW d \in (in \ {e}) \cup {ListHead}, after.next[d] # Null
        PROVE  after.prev[after.next[d]] = d
    <3>1. CASE d = l.prev[e]
      <4>1. after.next[d] = l.next[e] /\ l.next[e] \in in \ {e}
        BY <1>1, <1>4, <1>9, <2>3, <3>1
      <4> QED
        BY <1>10, <3>1, <4>1
    <3>2. CASE d # l.prev[e]
      <4>1. after.next[d] = l.next[d]
        BY <1>1, <1>9, <3>2
      <4>2. l.next[d] \in in /\ l.prev[l.next[d]] = d
        BY <2>3, <4>1 DEF Linked
      <4>3. l.next[d] # e
        BY <3>2, <4>2
      <4>4. l.next[d] # l.next[e]
        <5>1. SUFFICES ASSUME l.next[d] = l.next[e] PROVE FALSE
          OBVIOUS
        <5>2. l.prev[l.next[e]] = e
          BY <4>2, <5>1 DEF Linked
        <5> QED
          BY <2>3, <4>2, <5>1, <5>2
      <4> QED
        BY <1>10, <4>1, <4>2, <4>3, <4>4
    <3> QED
      BY <3>1, <3>2
  <2> QED
    BY <2>1, <2>2, <2>3 DEF Linked
<1>12. after.next[l.prev[e]] = l.next[e]
  BY <1>1, <1>4, <1>9
<1>13. \A d \in (in \cup {ListHead}) \ {e, l.prev[e]} : after.next[d] = l.next[d]
  BY <1>9
<1> QED
  BY <1>8, <1>11, <1>12, <1>13 DEF after

\* LIST_INSERT_BEFORE: the element goes where the back pointer of `at` says
\* `at` was, without a look at the head of the list.
THEOREM InsertBeforeKeepsLinks ==
  ASSUME NEW l \in Lists, NEW in \in SUBSET Elems, Linked(l, in),
         NEW at \in in, NEW e \in Elems \ in
  PROVE  Inserted(l, in, l.prev[at], e, ListInsertBefore(l, at, e))
<1> USE PointersAssumption
<1> DEFINE before == l.prev[at]
<1>1. /\ before \in in \cup {ListHead} /\ l.next[before] = at /\ at # Null
  BY DEF Linked
<1>2. l.next \in [Elems \cup {ListHead} -> Elems \cup {Null, Wild}]
  BY DEF Lists
<1>3. l.prev \in [Elems -> Elems \cup {ListHead, Wild}]
  BY DEF Lists
<1> HIDE DEF before
<1> DEFINE l1 == SetPrev(l, e, before)
           l2 == SetNext(l1, e, at)
           l3 == SetNext(l2, before, e)
           l4 == SetPrev(l3, at, e)
           after == ListInsertBefore(l, at, e)
<1> HIDE DEF l1, l2, l3, l4, after
<1>4. l1 \in Lists /\ l1.next = l.next /\ l1.prev = [l.prev EXCEPT ![e] = before]
  <2>1. e \in Elems /\ before \in Elems \cup {ListHead, Wild}
    BY <1>1
  <2>2. /\ SetPrev(l, e, before) \in Lists
        /\ SetPrev(l, e, before).next = l.next
        /\ SetPrev(l, e, before).prev = [l.prev EXCEPT ![e] = before]
    BY <2>1, SetPrevFields
  <2> QED
    BY <2>2 DEF l1
<1>5. l2 \in Lists /\ l2.next = [l1.next EXCEPT ![e] = at] /\ l2.prev = l1.prev
  <2>1. e \in Elems \cup {ListHead} /\ at \in Elems \cup {Null, Wild} /\ l1 \in Lists
    BY <1>4
  <2>2. /\ SetNext(l1, e, at) \in Lists
        /\ SetNext(l1, e, at).next = [l1.next EXCEPT ![e] = at]
        /\ SetNext(l1, e, at).prev = l1.prev
    BY ONLY <2>1, SetNextFields
  <2> QED
    BY <2>2 DEF l2
<1>6. l3 \in Lists /\ l3.next = [l2.next EXCEPT ![before] = e] /\ l3.prev = l2.prev
  <2>1. before \in Elems \cup {ListHead} /\ e \in Elems \cup {Null, Wild} /\ l2 \in Lists
    BY <1>1, <1>5
  <2>2. /\ SetNext(l2, before, e) \in Lists
        /\ SetNext(l2, before, e).next = [l2.next EXCEPT ![before] = e]
        /\ SetNext(l2, before, e).prev = l2.prev
    BY ONLY <2>1, SetNextFields
  <2> QED
    BY <2>2 DEF l3
<1>7. l4 \in Lists /\ l4.next = l3.next /\ l4.prev = [l3.prev EXCEPT ![at] = e]
  <2>1. at \in Elems /\ e \in Elems \cup {ListHead, Wild} /\ l3 \in Lists
    BY <1>6
  <2>2. /\ SetPrev(l3, at, e) \in Lists
        /\ SetPrev(l3, at, e).next = l3.next
        /\ SetPrev(l3, at, e).prev = [l3.prev EXCEPT ![at] = e]
    BY ONLY <2>1, SetPrevFields
  <2> QED
    BY <2>2 DEF l4
<1>8. after = l4
  BY DEF after, ListInsertBefore, l1, l2, l3, l4, before
<1>9. before # e /\ at # e
  BY <1>1
<1>10. \A d \in Elems \cup {ListHead} :
         after.next[d] = IF d = before THEN e ELSE IF d = e THEN at ELSE l.next[d]
  BY <1>1, <1>2, <1>4, <1>5, <1>6, <1>7, <1>8, <1>9
<1>11. \A x \in Elems :
         after.prev[x] = IF x = at THEN e ELSE IF x = e THEN before ELSE l.prev[x]
  BY <1>1, <1>3, <1>4, <1>5, <1>6, <1>7, <1>8, <1>9
<1>12. \A x \in in : x # at => l.prev[x] # before
  BY <1>1 DEF Linked
<1>13. \A d \in in \cup {ListHead} : d # before => l.next[d] # at
  BY DEF Linked, before
<1>14. Linked(after, in \cup {e})
  <2>1. \A d \in (in \cup {e}) \cup {ListHead} : after.next[d] \in (in \cup {e}) \cup {Null}
    BY <1>10 DEF Linked
  <2>2. ASSUME NEW x \in in \cup {e}
        PROVE  after.prev[x] \in (in \cup {e}) \cup {ListHead} /\ after.next[after.prev[x]] = x
    <3>1. CASE x = at
      BY <1>9, <1>10, <1>11, <3>1
    <3>2. CASE x = e
      BY <1>1, <1>9, <1>10, <1>11, <3>2
    <3>3. CASE x \in in /\ x # at
      <4>1. after.prev[x] = l.prev[x] /\ l.prev[x] \in in \cup {ListHead} /\ l.next[l.prev[x]] = x
        BY <1>11, <3>3 DEF Linked
      <4>2. l.prev[x] # before /\ l.prev[x] # e
        BY <1>12, <3>3, <4>1
      <4> QED
        BY <1>10, <4>1, <4>2
    <3> QED
      BY <3>1, <3>2, <3>3
  <2>3. ASSUME NEW d \in (in \cup {e}) \cup {ListHead}, after.next[d] # Null
        PROVE  after.prev[after.next[d]] = d
    <3>1. CASE d = before
      BY <1>1, <1>9, <1>10, <1>11, <3>1
    <3>2. CASE d = e
      BY <1>9, <1>10, <1>11, <3>2
    <3>3. CASE d \in in \cup {ListHead} /\ d # before
      <4>1. after.next[d] = l.next[d] /\ l.next[d] \in in /\ l.prev[l.next[d]] = d
        BY <1>10, <2>3, <3>3 DEF Linked
      <4>2. l.next[d] # at
        BY <1>13, <3>3
      <4> QED
        BY <1>11, <4>1, <4>2
    <3> QED
      BY <3>1, <3>2, <3>3
  <2> QED
    BY <2>1, <2>2, <2>3 DEF Linked
<1>15. after.next[before] = e /\ after.next[e] = at
  BY <1>1, <1>9, <1>10
<1>16. \A d \in (in \cup {ListHead}) \ {before} : after.next[d] = l.next[d]
  BY <1>10
<1> QED
  <2>1. after.next[e] = l.next[before]
    BY <1>1, <1>15
  <2>2. Inserted(l, in, before, e, after)
    BY <1>7, <1>8, <1>14, <1>15, <1>16, <2>1 DEF Inserted
  <2> QED
    BY <2>2 DEF after, before

-----------------------------------------------------------------------------

\* A set of natural numbers has a least element.
LEMMA LeastNumber ==
  ASSUME NEW T \in SUBSET Nat, T # {}
  PROVE  \E m \in T : \A k \in T : m <= k
<1>1. T \subseteq Nat
  OBVIOUS
<1>2. PICK m \in T : \A k \in T : ~(<<k, m>> \in OpToRel(<, Nat))
  BY <1>1, NatLessThanWellFounded, WFMin
<1>3. m \in Nat /\ \A k \in T : k \in Nat
  BY <1>1
<1>4. \A k \in T : ~(k < m)
  BY <1>2, <1>3 DEF OpToRel
<1> QED BY <1>3, <1>4

\* What a loop that is to meet the elements of s is at in its i-th turn.
TurnOf(s, i) == IF i <= Len(s) THEN s[i] ELSE Null

\* What holds the pointer at the i-th element of s.
Before(s, i) == IF i > 1 THEN s[i - 1] ELSE ListHead

\* The pointers chain the elements of s in its order, and no other element.
Ordered(l, s) ==
  /\ l \in Lists
  /\ s \in Seq(Elems)
  /\ \A i, j \in 1 .. Len(s) : s[i] = s[j] => i = j
  /\ Linked(l, Range(s))
  /\ ListFirst(l) = TurnOf(s, 1)
  /\ \A i \in 1 .. Len(s) : ListNext(l, s[i]) = TurnOf(s, i + 1)

LEMMA OrderedFacts ==
  ASSUME NEW l, NEW s, Ordered(l, s)
  PROVE  /\ Len(s) \in Nat /\ DOMAIN s = 1 .. Len(s)
         /\ \A i \in 1 .. Len(s) : s[i] \in Elems
         /\ \A e : e \in Range(s) <=> \E i \in 1 .. Len(s) : e = s[i]
         /\ Range(s) \in SUBSET Elems
         /\ Len(s) <= Cardinality(Elems) /\ Cardinality(Elems) \in Nat
<1>1. /\ Len(s) \in Nat /\ DOMAIN s = 1 .. Len(s)
      /\ \A i \in 1 .. Len(s) : s[i] \in Elems
  BY DEF Ordered
<1>2. \A e : e \in Range(s) <=> \E i \in 1 .. Len(s) : e = s[i]
  BY <1>1 DEF Range
<1>3. IsFiniteSet(Elems) /\ Cardinality(Elems) \in Nat
  BY PointersAssumption, FS_CardinalityType
<1>4. s \in [1 .. Len(s) -> Elems]
  BY DEF Ordered
<1>5. s \in Injection(1 .. Len(s), Elems)
  BY <1>1, <1>4 DEF Ordered, Injection, IsInjective
<1>6. Cardinality(1 .. Len(s)) <= Cardinality(Elems)
  BY <1>3, <1>5, FS_Injection
<1>7. Cardinality(1 .. Len(s)) = Len(s)
  <2>1. Cardinality(1 .. Len(s)) = IF 1 > Len(s) THEN 0 ELSE Len(s) - 1 + 1
    BY <1>1, FS_Interval
  <2> QED BY <1>1, <2>1
<1> QED BY <1>1, <1>2, <1>3, <1>6, <1>7

-----------------------------------------------------------------------------
(***************************************************************************)
(* The loops over the list meet its elements in order.                     *)
(***************************************************************************)

\* The function by which ForEach follows the pointers.
Follows(l, at) ==
  at = [i \in 1 .. Cardinality(Elems) + 1 |->
          IF i = 1 THEN ListFirst(l)
          ELSE IF at[i - 1] \in Elems THEN ListNext(l, at[i - 1]) ELSE at[i - 1]]

LEMMA FollowsExists ==
  ASSUME NEW l, NEW w, Follows(l, w)
  PROVE  \E at : /\ Follows(l, at)
                 /\ ForEach(l) = [i \in {j \in DOMAIN at : at[j] \in Elems} |-> at[i]]
<1> DEFINE a == CHOOSE at : Follows(l, at)
<1>1. Follows(l, a)
  OBVIOUS
<1>2. ForEach(l) = [i \in {j \in DOMAIN a : a[j] \in Elems} |-> a[i]]
  BY DEF ForEach, Follows
<1> HIDE DEF a
<1> QED BY <1>1, <1>2

\* Where the pointers lead from the i-th element of the list.
LEMMA NextTurn ==
  ASSUME NEW l, NEW s, Ordered(l, s), NEW i \in Nat \ {0}
  PROVE  /\ TurnOf(s, i) \in Elems <=> i <= Len(s)
         /\ TurnOf(s, i + 1) = IF TurnOf(s, i) \in Elems THEN ListNext(l, TurnOf(s, i))
                               ELSE TurnOf(s, i)
<1>1. /\ Len(s) \in Nat /\ Null \notin Elems
      /\ \A k \in 1 .. Len(s) : s[k] \in Elems
  BY OrderedFacts, PointersAssumption
<1>2. TurnOf(s, i) \in Elems <=> i <= Len(s)
  BY <1>1 DEF TurnOf
<1>3. CASE i <= Len(s)
  BY <1>1, <1>2, <1>3 DEF Ordered, TurnOf
<1>4. CASE ~ (i <= Len(s))
  BY <1>1, <1>2, <1>4 DEF TurnOf
<1> QED BY <1>2, <1>3, <1>4

\* LIST_FOREACH meets the elements of the list, each once, in order.
LEMMA ForEachMeetsAll ==
  ASSUME NEW l, NEW s, Ordered(l, s)
  PROVE  ForEach(l) = s
<1>1. PICK last : last = Cardinality(Elems) + 1
  OBVIOUS
<1>2. last \in Nat /\ Len(s) \in Nat /\ Len(s) < last
  BY <1>1, OrderedFacts
<1>3. PICK w : w = [i \in 1 .. last |-> TurnOf(s, i)]
  OBVIOUS
<1>4. Follows(l, w)
  <2>1. \A i \in 1 .. last : i # 1 =>
          w[i] = IF w[i - 1] \in Elems THEN ListNext(l, w[i - 1]) ELSE w[i - 1]
    <3>1. SUFFICES ASSUME NEW i \in 1 .. last, i # 1
                   PROVE  w[i] = IF w[i - 1] \in Elems THEN ListNext(l, w[i - 1])
                                 ELSE w[i - 1]
      OBVIOUS
    <3>2. PICK k \in Nat \ {0} : k = i - 1
      BY <1>2, <3>1
    <3>3. w[i] = TurnOf(s, k + 1) /\ w[i - 1] = TurnOf(s, k)
      BY <1>2, <1>3, <3>1, <3>2
    <3>4. TurnOf(s, k + 1) = IF TurnOf(s, k) \in Elems THEN ListNext(l, TurnOf(s, k))
                             ELSE TurnOf(s, k)
      BY NextTurn
    <3> QED BY <3>3, <3>4
  <2>2. w[1] = ListFirst(l)
    BY <1>2, <1>3 DEF Ordered
  <2>3. w = [i \in 1 .. last |->
               IF i = 1 THEN ListFirst(l)
               ELSE IF w[i - 1] \in Elems THEN ListNext(l, w[i - 1]) ELSE w[i - 1]]
    BY <1>3, <2>1, <2>2
  <2> QED BY <1>1, <2>3 DEF Follows
<1>5. PICK at : /\ Follows(l, at)
                /\ ForEach(l) = [i \in {j \in DOMAIN at : at[j] \in Elems} |-> at[i]]
  BY <1>4, FollowsExists
<1>6. /\ DOMAIN at = 1 .. last
      /\ \A i \in 1 .. last :
           at[i] = IF i = 1 THEN ListFirst(l)
                   ELSE IF at[i - 1] \in Elems THEN ListNext(l, at[i - 1]) ELSE at[i - 1]
  <2> PICK f : f = at
    OBVIOUS
  <2>1. at = [i \in 1 .. last |->
               IF i = 1 THEN ListFirst(l)
               ELSE IF f[i - 1] \in Elems THEN ListNext(l, f[i - 1]) ELSE f[i - 1]]
    BY <1>1, <1>5 DEF Follows
  <2> QED BY <2>1
<1>7. \A i \in 1 .. last : at[i] = TurnOf(s, i)
  <2> DEFINE Off == {i \in 1 .. last : at[i] # TurnOf(s, i)}
  <2>1. SUFFICES ASSUME Off # {} PROVE FALSE
    OBVIOUS
  <2>2. Off \in SUBSET Nat
    BY <1>2
  <2>3. PICK m \in Off : \A k \in Off : m <= k
    BY <2>1, <2>2, LeastNumber
  <2>4. m \in 1 .. last /\ at[m] # TurnOf(s, m)
    BY <2>3
  <2>5. m # 1
    BY <1>2, <1>6, <2>4 DEF Ordered
  <2>6. PICK k \in Nat \ {0} : k = m - 1
    BY <1>2, <2>4, <2>5
  <2>7. at[k] = TurnOf(s, k)
    <3>1. k \in 1 .. last /\ ~ (m <= k)
      BY <1>2, <2>4, <2>6
    <3> QED BY <2>3, <3>1
  <2>8. m = k + 1
    BY <1>2, <2>4, <2>6
  <2>9. at[m] = IF at[k] \in Elems THEN ListNext(l, at[k]) ELSE at[k]
    BY <1>6, <2>4, <2>5, <2>6
  <2> QED BY <2>4, <2>7, <2>8, <2>9, NextTurn
<1>8. {j \in DOMAIN at : at[j] \in Elems} = 1 .. Len(s)
  <2>1. \A j \in 1 .. last : at[j] \in Elems <=> j <= Len(s)
    <3>1. SUFFICES ASSUME NEW j \in 1 .. last PROVE at[j] \in Elems <=> j <= Len(s)
      OBVIOUS
    <3>2. j \in Nat \ {0}
      BY <1>2
    <3> QED BY <1>7, <3>2, NextTurn
  <2> QED BY <1>2, <1>6, <2>1
<1>9. \A i \in 1 .. Len(s) : at[i] = s[i]
  BY <1>2, <1>7 DEF TurnOf
<1>10. ForEach(l) = [i \in 1 .. Len(s) |-> at[i]]
  BY <1>5, <1>8
<1>11. s = [i \in 1 .. Len(s) |-> s[i]]
  BY DEF Ordered
<1> QED BY <1>9, <1>10, <1>11

\* A loop that breaks stops at the first element it breaks at.
LEMMA StopsAtFirst ==
  ASSUME NEW l, NEW s, Ordered(l, s), NEW good,
         NEW i \in 1 .. Len(s) + 1,
         \A j \in 1 .. i - 1 : s[j] \notin good,
         i <= Len(s) => s[i] \in good
  PROVE  StopsAt(l, good) = i
<1>1. ForEach(l) = s /\ Len(s) \in Nat
  BY ForEachMeetsAll, OrderedFacts
<1>2. \A k \in 1 .. Len(s) + 1 :
        (\A j \in 1 .. k - 1 : s[j] \notin good) /\ (k <= Len(s) => s[k] \in good) => k = i
  <2>1. SUFFICES ASSUME NEW k \in 1 .. Len(s) + 1, \A j \in 1 .. k - 1 : s[j] \notin good,
                        k <= Len(s) => s[k] \in good, k # i
                 PROVE  FALSE
    OBVIOUS
  <2>2. CASE k < i
    BY <1>1, <2>1, <2>2
  <2>3. CASE i < k
    BY <1>1, <2>1, <2>3
  <2> QED BY <1>1, <2>1, <2>2, <2>3
<1>3. StopsAt(l, good) =
        CHOOSE k \in 1 .. Len(s) + 1 :
          /\ \A j \in 1 .. k - 1 : s[j] \notin good
          /\ k <= Len(s) => s[k] \in good
  BY <1>1 DEF StopsAt
<1> QED BY <1>2, <1>3

LEMMA AtTurnOf ==
  ASSUME NEW l, NEW s, Ordered(l, s)
  PROVE  /\ AtTurn(l, 0) = Null
         /\ \A i \in 1 .. Len(s) : AtTurn(l, i) = s[i] /\ s[i] # Null /\ s[i] \in Elems
         /\ AtTurn(l, Len(s) + 1) = Null
<1>1. /\ ForEach(l) = s /\ Len(s) \in Nat /\ DOMAIN s = 1 .. Len(s)
      /\ \A i \in 1 .. Len(s) : s[i] \in Elems
  BY ForEachMeetsAll, OrderedFacts
<1> QED BY <1>1, PointersAssumption DEF AtTurn

-----------------------------------------------------------------------------
(***************************************************************************)
(* The macros insert and remove where the sequence says.                   *)
(***************************************************************************)

\* le_prev of an element names the pointer at it.
LEMMA BackPointers ==
  ASSUME NEW l, NEW s, Ordered(l, s), NEW i \in 1 .. Len(s)
  PROVE  /\ l.prev[s[i]] = Before(s, i)
         /\ l.next[Before(s, i)] = s[i]
         /\ Before(s, i) \in Range(s) \cup {ListHead}
<1>1. /\ Len(s) \in Nat /\ s[i] # Null /\ s[i] \in Range(s)
  BY OrderedFacts, PointersAssumption
<1>2. l.next[Before(s, i)] = s[i] /\ Before(s, i) \in Range(s) \cup {ListHead}
  <2>1. CASE i = 1
    BY <1>1, <2>1 DEF Ordered, Before, TurnOf, ListFirst
  <2>2. CASE i # 1
    <3>1. PICK k \in 1 .. Len(s) : k = i - 1 /\ i = k + 1
      BY <1>1, <2>2
    <3>2. Before(s, i) = s[k] /\ s[k] \in Range(s)
      BY <1>1, <2>2, <3>1, OrderedFacts DEF Before
    <3>3. ListNext(l, s[k]) = s[i]
      BY <1>1, <3>1 DEF Ordered, TurnOf
    <3> QED BY <3>2, <3>3 DEF ListNext
  <2> QED BY <2>1, <2>2
<1>3. l.prev[l.next[Before(s, i)]] = Before(s, i)
  BY <1>1, <1>2 DEF Ordered, Linked
<1> QED BY <1>2, <1>3

\* An element enters the sequence at p when the pointer that led to the p-th
\* element leads to the new one, and that one's pointer on.
LEMMA OrderedInsert ==
  ASSUME NEW l, NEW s, Ordered(l, s), NEW p \in 1 .. Len(s) + 1, NEW e \in Elems \ Range(s),
         NEW after, Inserted(l, Range(s), Before(s, p), e, after)
  PROVE  Ordered(after, InsertAt(s, p, e)) /\ Range(InsertAt(s, p, e)) = Range(s) \cup {e}
<1>1. /\ Len(s) \in Nat
      /\ \A i \in 1 .. Len(s) : s[i] \in Elems /\ s[i] \in Range(s) /\ s[i] # ListHead
  BY OrderedFacts, PointersAssumption
<1>2. /\ after \in Lists /\ Linked(after, Range(s) \cup {e})
      /\ after.next[Before(s, p)] = e
      /\ \A d \in (Range(s) \cup {ListHead}) \ {Before(s, p)} : after.next[d] = l.next[d]
  BY DEF Inserted
<1>3. after.next[e] = TurnOf(s, p)
  <2>1. l.next[Before(s, p)] = TurnOf(s, p)
    <3>1. CASE p = 1
      BY <3>1 DEF Ordered, Before, ListFirst
    <3>2. CASE p # 1
      <4>1. PICK k \in 1 .. Len(s) : k = p - 1 /\ k + 1 = p /\ p > 1
        BY <1>1, <3>2
      <4> QED BY <4>1 DEF Ordered, Before, ListNext
    <3> QED BY <3>1, <3>2
  <2> QED BY <2>1 DEF Inserted
<1>4. PICK t : t = InsertAt(s, p, e)
  OBVIOUS
<1>5. /\ t \in Seq(Elems)
      /\ Len(t) = Len(s) + 1
      /\ \A j \in 1 .. Len(s) + 1 :
           t[j] = IF j < p THEN s[j] ELSE IF j = p THEN e ELSE s[j - 1]
  <2>1. e \in Elems /\ s \in Seq(Elems)
    BY DEF Ordered
  <2>2. /\ InsertAt(s, p, e) \in Seq(Elems)
        /\ Len(InsertAt(s, p, e)) = Len(s) + 1
        /\ \A j \in 1 .. Len(s) + 1 :
             InsertAt(s, p, e)[j] = IF j < p THEN s[j] ELSE IF j = p THEN e ELSE s[j - 1]
    BY <2>1, InsertAtFacts
  <2> QED BY <1>4, <2>2
<1>6. \A i, j \in 1 .. Len(s) : s[i] = s[j] => i = j
  BY DEF Ordered
<1>7. \A i, j \in 1 .. Len(t) : t[i] = t[j] => i = j
  <2>1. \A i \in 1 .. Len(t) : i # p => t[i] # e
    <3>1. SUFFICES ASSUME NEW i \in 1 .. Len(t), i # p PROVE t[i] \in Range(s)
      OBVIOUS
    <3>2. PICK a \in 1 .. Len(s) : t[i] = s[a]
      <4>1. CASE i < p
        BY <1>1, <1>5, <3>1, <4>1
      <4>2. CASE ~(i < p)
        <5>1. PICK a \in 1 .. Len(s) : a = i - 1 /\ ~(i < p) /\ i # p
          BY <1>1, <1>5, <3>1, <4>2
        <5> QED BY <1>5, <3>1, <5>1
      <4> QED BY <4>1, <4>2
    <3> QED BY <1>1, <3>2
  <2>2. SUFFICES ASSUME NEW i \in 1 .. Len(t), NEW j \in 1 .. Len(t), t[i] = t[j],
                        i # p, j # p
                 PROVE  i = j
    BY <1>5, <2>1
  <2>3. PICK a \in 1 .. Len(s) : t[i] = s[a] /\ a = IF i < p THEN i ELSE i - 1
    BY <1>1, <1>5, <2>2
  <2>4. PICK b \in 1 .. Len(s) : t[j] = s[b] /\ b = IF j < p THEN j ELSE j - 1
    BY <1>1, <1>5, <2>2
  <2>5. a = b
    BY <1>6, <2>2, <2>3, <2>4
  <2> QED BY <1>5, <2>2, <2>3, <2>4, <2>5
<1>8. Range(t) = Range(s) \cup {e}
  <2>1. DOMAIN t = 1 .. Len(s) + 1
    BY <1>5
  <2>2. ASSUME NEW x \in Range(t) PROVE x \in Range(s) \cup {e}
    <3>1. PICK j \in 1 .. Len(s) + 1 : x = t[j]
      BY <2>1, <2>2 DEF Range
    <3> QED BY <1>1, <1>5, <3>1
  <2>3. ASSUME NEW x \in Range(s) \cup {e} PROVE x \in Range(t)
    <3>1. CASE x = e
      <4>1. p \in 1 .. Len(s) + 1 /\ t[p] = e
        BY <1>1, <1>5
      <4> QED BY <2>1, <3>1, <4>1 DEF Range
    <3>2. CASE x # e
      <4>1. PICK i \in 1 .. Len(s) : x = s[i]
        BY <2>3, <3>2, OrderedFacts
      <4>2. PICK j \in 1 .. Len(s) + 1 : t[j] = s[i]
        <5>1. CASE i < p
          BY <1>1, <1>5, <5>1
        <5>2. CASE ~(i < p)
          <6>1. PICK j \in 1 .. Len(s) + 1 : j = i + 1 /\ ~(j < p) /\ j # p /\ j - 1 = i
            BY <1>1, <5>2
          <6> QED BY <1>5, <6>1
        <5> QED BY <5>1, <5>2
      <4> QED BY <2>1, <4>1, <4>2 DEF Range
    <3> QED BY <3>1, <3>2
  <2> QED BY <2>2, <2>3
<1>9. ListFirst(after) = TurnOf(t, 1)
  <2>1. CASE p = 1
    BY <1>1, <1>5, <1>2, <2>1 DEF Before, TurnOf, ListFirst
  <2>2. CASE p # 1
    <3>1. PICK k \in 1 .. Len(s) : k = p - 1
      BY <1>1, <2>2
    <3>2. Before(s, p) # ListHead
      BY <1>1, <2>2, <3>1 DEF Before
    <3>3. after.next[ListHead] = l.next[ListHead]
      BY <1>2, <3>2
    <3> QED BY <1>1, <1>5, <2>2, <3>3 DEF Ordered, TurnOf, ListFirst
  <2> QED BY <2>1, <2>2
<1>10. \A i \in 1 .. Len(t) : ListNext(after, t[i]) = TurnOf(t, i + 1)
  <2>1. SUFFICES ASSUME NEW i \in 1 .. Len(t)
                 PROVE  after.next[t[i]] = TurnOf(t, i + 1)
    BY DEF ListNext
  <2>2. CASE i = p
    <3>1. t[i] = e
      BY <1>5, <2>1, <2>2
    <3>2. TurnOf(t, i + 1) = TurnOf(s, p)
      <4>1. CASE p <= Len(s)
        <5>1. t[p + 1] = s[p]
          BY <1>1, <1>5, <4>1
        <5> QED BY <1>1, <1>5, <2>2, <4>1, <5>1 DEF TurnOf
      <4>2. CASE ~(p <= Len(s))
        BY <1>1, <1>5, <2>2, <4>2 DEF TurnOf
      <4> QED BY <4>1, <4>2
    <3> QED BY <1>3, <3>1, <3>2
  <2>3. CASE i + 1 = p
    <3>1. t[i] = s[i] /\ Before(s, p) = s[i] /\ t[p] = e
      BY <1>1, <1>5, <2>1, <2>3 DEF Before
    <3> QED BY <1>1, <1>5, <1>2, <2>3, <3>1 DEF TurnOf
  <2>4. CASE i # p /\ i + 1 # p
    <3>1. PICK k \in 1 .. Len(s) : t[i] = s[k] /\ k = IF i < p THEN i ELSE i - 1
      BY <1>1, <1>5, <2>1, <2>4
    <3>2. s[k] # Before(s, p) /\ s[k] \in Range(s)
      <4>1. CASE p > 1
        <5>1. PICK q \in 1 .. Len(s) : q = p - 1
          BY <1>1, <4>1
        <5>2. k # q
          BY <1>1, <2>1, <2>4, <3>1, <5>1
        <5> QED BY <1>1, <1>6, <4>1, <5>1, <5>2 DEF Before
      <4>2. CASE ~(p > 1)
        BY <1>1, <4>2 DEF Before
      <4> QED BY <4>1, <4>2
    <3>3. after.next[t[i]] = TurnOf(s, k + 1)
      BY <1>2, <3>1, <3>2 DEF Ordered, ListNext
    <3>4. TurnOf(s, k + 1) = TurnOf(t, i + 1)
      <4>1. CASE k + 1 <= Len(s)
        <5>1. t[i + 1] = s[k + 1]
          BY <1>1, <1>5, <2>1, <2>4, <3>1, <4>1
        <5>2. i + 1 <= Len(t)
          BY <1>1, <1>5, <2>1, <2>4, <3>1, <4>1
        <5> QED BY <4>1, <5>1, <5>2 DEF TurnOf
      <4>2. CASE ~(k + 1 <= Len(s))
        <5>1. ~(i + 1 <= Len(t))
          BY <1>1, <1>5, <2>1, <2>4, <3>1, <4>2
        <5> QED BY <4>2, <5>1 DEF TurnOf
      <4> QED BY <4>1, <4>2
    <3> QED BY <3>3, <3>4
  <2> QED BY <2>2, <2>3, <2>4
<1> QED BY <1>4, <1>5, <1>7, <1>8, <1>9, <1>10, <1>2 DEF Ordered

\* LIST_REMOVE takes the p-th element out of the sequence.
LEMMA OrderedRemove ==
  ASSUME NEW l, NEW s, Ordered(l, s), NEW p \in 1 .. Len(s)
  PROVE  LET after == Forget(ListRemove(l, s[p]), s[p])
         IN  /\ Ordered(after, RemoveAt(s, p))
             /\ Range(RemoveAt(s, p)) = Range(s) \ {s[p]}
<1>1. /\ Len(s) \in Nat
      /\ \A i \in 1 .. Len(s) : s[i] \in Elems /\ s[i] \in Range(s) /\ s[i] # ListHead
      /\ Range(s) \in SUBSET Elems
  BY OrderedFacts, PointersAssumption
<1>2. \A i, j \in 1 .. Len(s) : s[i] = s[j] => i = j
  BY DEF Ordered
<1>3. PICK after : after = Forget(ListRemove(l, s[p]), s[p])
  OBVIOUS
<1>4. l.next[s[p]] = TurnOf(s, p + 1) /\ l.prev[s[p]] = Before(s, p)
  BY BackPointers DEF Ordered, ListNext
<1>5. l.next[s[p]] # s[p]
  <2>1. CASE p + 1 <= Len(s)
    <3>1. PICK q \in 1 .. Len(s) : q = p + 1 /\ q # p
      BY <1>1, <2>1
    <3> QED BY <1>2, <1>4, <2>1, <3>1 DEF TurnOf
  <2>2. CASE ~(p + 1 <= Len(s))
    BY <1>1, <1>4, <2>2, PointersAssumption DEF TurnOf
  <2> QED BY <2>1, <2>2
<1>6. /\ after \in Lists
      /\ Linked(after, Range(s) \ {s[p]})
      /\ after.next[Before(s, p)] = TurnOf(s, p + 1)
      /\ \A d \in (Range(s) \cup {ListHead}) \ {s[p], Before(s, p)} : after.next[d] = l.next[d]
  <2>1. PICK in, e : in = Range(s) /\ e = s[p]
    OBVIOUS
  <2>2. l \in Lists /\ in \in SUBSET Elems /\ Linked(l, in) /\ e \in in /\ l.next[e] # e
    BY <1>1, <1>5, <2>1 DEF Ordered
  <2>3. after = Forget(ListRemove(l, e), e)
    BY <1>3, <2>1
  <2>4. /\ after \in Lists
        /\ Linked(after, in \ {e})
        /\ after.next[l.prev[e]] = l.next[e]
        /\ \A d \in (in \cup {ListHead}) \ {e, l.prev[e]} : after.next[d] = l.next[d]
    BY ONLY <2>2, <2>3, RemoveKeepsLinks
  <2> QED BY <1>4, <2>1, <2>4
<1>7. PICK t : t = RemoveAt(s, p)
  OBVIOUS
<1>8. /\ t \in Seq(Elems)
      /\ Len(t) = Len(s) - 1
      /\ \A j \in 1 .. Len(s) - 1 : t[j] = IF j < p THEN s[j] ELSE s[j + 1]
  BY <1>7, RemoveAtFacts DEF Ordered
<1>9. \A i, j \in 1 .. Len(t) : t[i] = t[j] => i = j
  <2>1. SUFFICES ASSUME NEW i \in 1 .. Len(t), NEW j \in 1 .. Len(t), t[i] = t[j]
                 PROVE  i = j
    OBVIOUS
  <2>2. PICK a \in 1 .. Len(s) : t[i] = s[a] /\ a = IF i < p THEN i ELSE i + 1
    BY <1>1, <1>8, <2>1
  <2>3. PICK b \in 1 .. Len(s) : t[j] = s[b] /\ b = IF j < p THEN j ELSE j + 1
    BY <1>1, <1>8, <2>1
  <2>4. a = b
    BY <1>2, <2>1, <2>2, <2>3
  <2> QED BY <1>1, <1>8, <2>1, <2>2, <2>3, <2>4
<1>10. Range(t) = Range(s) \ {s[p]}
  <2>1. DOMAIN t = 1 .. Len(s) - 1
    BY <1>8
  <2>2. ASSUME NEW x \in Range(t) PROVE x \in Range(s) \ {s[p]}
    <3>1. PICK j \in 1 .. Len(s) - 1 : x = t[j]
      BY <2>1, <2>2 DEF Range
    <3>2. PICK i \in 1 .. Len(s) : x = s[i] /\ i # p
      BY <1>1, <1>8, <3>1
    <3> QED BY <1>1, <1>2, <3>2
  <2>3. ASSUME NEW x \in Range(s) \ {s[p]} PROVE x \in Range(t)
    <3>1. PICK i \in 1 .. Len(s) : x = s[i] /\ i # p
      BY <2>3, OrderedFacts
    <3>2. PICK j \in 1 .. Len(s) - 1 : t[j] = s[i]
      <4>1. CASE i < p
        BY <1>1, <1>8, <3>1, <4>1
      <4>2. CASE ~(i < p)
        <5>1. PICK j \in 1 .. Len(s) - 1 : j = i - 1 /\ ~(j < p) /\ j + 1 = i
          BY <1>1, <3>1, <4>2
        <5> QED BY <1>8, <5>1
      <4> QED BY <4>1, <4>2
    <3> QED BY <2>1, <3>1, <3>2 DEF Range
  <2> QED BY <2>2, <2>3
<1>11. ListFirst(after) = TurnOf(t, 1)
  <2>1. CASE p = 1
    <3>1. after.next[ListHead] = TurnOf(s, 2)
      BY <1>6, <2>1 DEF Before
    <3> QED BY <1>1, <1>8, <2>1, <3>1 DEF TurnOf, ListFirst
  <2>2. CASE p # 1
    <3>1. PICK k \in 1 .. Len(s) : k = p - 1
      BY <1>1, <2>2
    <3>2. Before(s, p) # ListHead /\ s[p] # ListHead
      BY <1>1, <2>2, <3>1 DEF Before
    <3>3. after.next[ListHead] = l.next[ListHead]
      BY <1>6, <3>2
    <3> QED BY <1>1, <1>8, <2>2, <3>3 DEF Ordered, TurnOf, ListFirst
  <2> QED BY <2>1, <2>2
<1>12. \A i \in 1 .. Len(t) : ListNext(after, t[i]) = TurnOf(t, i + 1)
  <2>1. SUFFICES ASSUME NEW i \in 1 .. Len(t)
                 PROVE  after.next[t[i]] = TurnOf(t, i + 1)
    BY DEF ListNext
  <2>2. CASE i + 1 = p
    <3>1. t[i] = s[i] /\ Before(s, p) = s[i]
      BY <1>1, <1>8, <2>1, <2>2 DEF Before
    <3>2. TurnOf(s, p + 1) = TurnOf(t, p)
      <4>1. CASE p + 1 <= Len(s)
        <5>1. t[p] = s[p + 1]
          BY <1>1, <1>8, <4>1
        <5> QED BY <1>1, <1>8, <4>1, <5>1 DEF TurnOf
      <4>2. CASE ~(p + 1 <= Len(s))
        BY <1>1, <1>8, <4>2 DEF TurnOf
      <4> QED BY <4>1, <4>2
    <3> QED BY <1>6, <2>2, <3>1, <3>2
  <2>3. CASE i + 1 # p
    <3>1. PICK k \in 1 .. Len(s) : t[i] = s[k] /\ k = IF i < p THEN i ELSE i + 1
      BY <1>1, <1>8, <2>1
    <3>2. s[k] # Before(s, p) /\ s[k] # s[p] /\ s[k] \in Range(s)
      <4>1. k # p
        BY <1>1, <2>1, <3>1
      <4>2. CASE p > 1
        <5>1. PICK q \in 1 .. Len(s) : q = p - 1
          BY <1>1, <4>2
        <5>2. k # q
          BY <1>1, <1>8, <2>1, <2>3, <3>1, <5>1
        <5> QED BY <1>1, <1>2, <4>1, <4>2, <5>1, <5>2 DEF Before
      <4>3. CASE ~(p > 1)
        BY <1>1, <1>2, <4>1, <4>3 DEF Before
      <4> QED BY <4>2, <4>3
    <3>3. after.next[t[i]] = TurnOf(s, k + 1)
      BY <1>6, <3>1, <3>2 DEF Ordered, ListNext
    <3>4. TurnOf(s, k + 1) = TurnOf(t, i + 1)
      <4>1. CASE k + 1 <= Len(s)
        <5>1. t[i + 1] = s[k + 1]
          BY <1>1, <1>8, <2>1, <2>3, <3>1, <4>1
        <5>2. i + 1 <= Len(t)
          BY <1>1, <1>8, <2>1, <2>3, <3>1, <4>1
        <5> QED BY <4>1, <5>1, <5>2 DEF TurnOf
      <4>2. CASE ~(k + 1 <= Len(s))
        <5>1. ~(i + 1 <= Len(t))
          BY <1>1, <1>8, <2>1, <2>3, <3>1, <4>2
        <5> QED BY <4>2, <5>1 DEF TurnOf
      <4> QED BY <4>1, <4>2
    <3> QED BY <3>3, <3>4
  <2> QED BY <2>2, <2>3
<1> QED BY <1>3, <1>6, <1>7, <1>8, <1>9, <1>10, <1>11, <1>12 DEF Ordered

-----------------------------------------------------------------------------
(***************************************************************************)
(* The calls.  Keeps(state, s, list): the pointers chain s, these are the  *)
(* vp_spans that are allocated, and they hold the spans of list.           *)
(***************************************************************************)

Keeps(state, s, list) ==
  /\ Ordered(state.chain, s)
  /\ state.allocated = Range(s)
  /\ state.spans \in [Elems -> Span]
  /\ Len(list) = Len(s)
  /\ \A i \in 1 .. Len(s) : state.spans[s[i]] = list[i]

\* The p-th vp_span may hold another span than list.
KeepsBut(state, s, list, p) ==
  /\ Ordered(state.chain, s)
  /\ state.allocated = Range(s)
  /\ state.spans \in [Elems -> Span]
  /\ Len(list) = Len(s)
  /\ \A i \in 1 .. Len(s) : i # p => state.spans[s[i]] = list[i]

LEMMA StateFields ==
  ASSUME NEW l, NEW sp, NEW a
  PROVE  State(l, sp, a).chain = l /\ State(l, sp, a).spans = sp /\ State(l, sp, a).allocated = a
BY DEF State

\* LIST_REMOVE and FREE take one span away.
LEMMA RemoveAndFreeKeeps ==
  ASSUME NEW state, NEW s, NEW list \in Seq(Span), NEW p \in 1 .. Len(s),
         KeepsBut(state, s, list, p)
  PROVE  Keeps(RemoveAndFree(state, s[p]), RemoveAt(s, p), RemoveAt(list, p))
<1>1. /\ Ordered(state.chain, s) /\ Len(s) \in Nat
      /\ \A i \in 1 .. Len(s) : s[i] \in Elems
  BY OrderedFacts DEF KeepsBut
<1>2. PICK e : e = s[p]
  OBVIOUS
<1>3. PICK new : new = RemoveAndFree(state, e)
  OBVIOUS
<1>4. /\ new.chain = Forget(ListRemove(state.chain, e), e)
      /\ new.spans = [state.spans EXCEPT ![e] = Garbage]
      /\ new.allocated = state.allocated \ {e}
  BY <1>3, StateFields DEF RemoveAndFree
<1>5. Ordered(new.chain, RemoveAt(s, p)) /\ Range(RemoveAt(s, p)) = Range(s) \ {e}
  BY <1>1, <1>2, <1>4, OrderedRemove
<1>6. new.allocated = Range(RemoveAt(s, p))
  BY <1>4, <1>5 DEF KeepsBut
<1>7. Garbage \in Span
  BY DEF Garbage, VpSpan, Span
<1>8. /\ new.spans \in [Elems -> Span]
      /\ \A x \in Elems : x # e => new.spans[x] = state.spans[x]
  BY <1>4, <1>7 DEF KeepsBut
<1>9. /\ Len(RemoveAt(s, p)) = Len(s) - 1
      /\ \A j \in 1 .. Len(s) - 1 : RemoveAt(s, p)[j] = IF j < p THEN s[j] ELSE s[j + 1]
  BY <1>1, RemoveAtFacts DEF Ordered
<1>10. Len(list) = Len(s) /\ p \in 1 .. Len(list)
  BY DEF KeepsBut
<1>11. /\ Len(RemoveAt(list, p)) = Len(s) - 1
       /\ \A j \in 1 .. Len(s) - 1 :
            RemoveAt(list, p)[j] = IF j < p THEN list[j] ELSE list[j + 1]
  BY <1>10, RemoveAtFacts
<1>12. \A j \in 1 .. Len(s) - 1 : new.spans[RemoveAt(s, p)[j]] = RemoveAt(list, p)[j]
  <2>1. SUFFICES ASSUME NEW j \in 1 .. Len(s) - 1
                 PROVE  new.spans[RemoveAt(s, p)[j]] = RemoveAt(list, p)[j]
    OBVIOUS
  <2>2. PICK i \in 1 .. Len(s) :
          RemoveAt(s, p)[j] = s[i] /\ RemoveAt(list, p)[j] = list[i] /\ i # p
    BY <1>1, <1>9, <1>11, <2>1
  <2>3. s[i] # e
    BY <1>1, <1>2, <2>2 DEF Ordered
  <2> QED BY <1>1, <1>8, <2>2, <2>3 DEF KeepsBut
<1> QED BY <1>2, <1>3, <1>5, <1>6, <1>8, <1>9, <1>11, <1>12 DEF Keeps

\* Writing one vp_span changes the span at its place in the list.
LEMMA SetSpanKeeps ==
  ASSUME NEW l, NEW sp, NEW a, NEW s, NEW list \in Seq(Span), Keeps(State(l, sp, a), s, list),
         NEW p \in 1 .. Len(s), NEW start \in Nat, NEW end \in Nat
  PROVE  Keeps(State(l, [sp EXCEPT ![s[p]] = VpSpan(start, end)], a), s,
               SetSpan(list, p, start, end))
<1>1. /\ Ordered(l, s) /\ a = Range(s) /\ sp \in [Elems -> Span] /\ Len(list) = Len(s)
      /\ \A i \in 1 .. Len(s) : sp[s[i]] = list[i]
  BY StateFields DEF Keeps
<1>2. \A i \in 1 .. Len(s) : s[i] \in Elems /\ (s[i] = s[p] => i = p)
  BY <1>1, OrderedFacts DEF Ordered
<1>3. PICK new : new = [sp EXCEPT ![s[p]] = VpSpan(start, end)]
  OBVIOUS
<1>4. p \in 1 .. Len(list)
  BY <1>1
<1>5. /\ VpSpan(start, end) \in Span
      /\ Len(SetSpan(list, p, start, end)) = Len(list)
      /\ \A j \in 1 .. Len(list) :
           SetSpan(list, p, start, end)[j] = IF j = p THEN VpSpan(start, end) ELSE list[j]
  BY <1>4, SetSpanFacts
<1>6. new \in [Elems -> Span]
  BY <1>1, <1>3, <1>5
<1>7. \A i \in 1 .. Len(s) : new[s[i]] = SetSpan(list, p, start, end)[i]
  BY <1>1, <1>2, <1>3, <1>5
<1>8. PICK state, u : state = State(l, new, a) /\ u = SetSpan(list, p, start, end)
  OBVIOUS
<1>9. state.chain = l /\ state.spans = new /\ state.allocated = a
  BY <1>8, StateFields
<1>10. Keeps(state, s, u)
  BY <1>1, <1>5, <1>6, <1>7, <1>8, <1>9 DEF Keeps
<1> QED BY <1>3, <1>8, <1>10

\* Assigning start or end of a span.
LEMMA FieldSet ==
  ASSUME NEW span \in Span, NEW x
  PROVE  /\ [span EXCEPT !.start = x] = VpSpan(x, span.end)
         /\ [span EXCEPT !.end = x] = VpSpan(span.start, x)
         /\ span.start \in Nat /\ span.end \in Nat
BY DEF VpSpan, Span

\* try_merge_spans of two neighbours.
LEMMA MergeKeeps ==
  ASSUME NEW sp, NEW s, NEW list \in Seq(Span), Keeps(State(chain, sp, allocated), s, list),
         NEW p \in 1 .. Len(s), NEW q \in 1 .. Len(s), q = p + 1
  PROVE  \E t : Keeps(MergeLinked(sp, s[p], s[q]), t, TryMergeSpans(list, p))
<1>1. /\ sp \in [Elems -> Span] /\ Ordered(chain, s) /\ Len(list) = Len(s)
      /\ sp[s[p]] = list[p] /\ sp[s[q]] = list[q]
  BY StateFields DEF Keeps
<1>2. s[p] \in Elems /\ s[q] \in Elems
  BY <1>1, OrderedFacts
<1>3. CASE list[p].end # list[q].start
  <2>1. MergeLinked(sp, s[p], s[q]) = State(chain, sp, allocated)
    BY <1>1, <1>3 DEF MergeLinked
  <2>2. TryMergeSpans(list, p) = list
    BY <1>3 DEF TryMergeSpans
  <2> QED BY <2>1, <2>2
<1>4. CASE list[p].end = list[q].start
  <2>1. PICK high : high = list[q].end
    OBVIOUS
  <2>2. PICK low : low = list[p].start
    OBVIOUS
  <2>3. PICK grown : grown = SetSpan(list, p, low, high)
    OBVIOUS
  <2>4. PICK sp2 : sp2 = [sp EXCEPT ![s[p]].end = high]
    OBVIOUS
  <2>5. high \in Nat /\ low \in Nat
    BY <1>1, <1>2, <2>1, <2>2 DEF Span
  <2>6. sp2 = [sp EXCEPT ![s[p]] = VpSpan(low, high)]
    <3>1. sp[s[p]] \in Span /\ sp[s[p]].start = low
      BY <1>1, <1>2, <2>2
    <3>2. [sp[s[p]] EXCEPT !.end = high] = VpSpan(low, high)
      BY <3>1, FieldSet
    <3> QED BY <2>4, <3>2
  <2>7. Keeps(State(chain, sp2, allocated), s, grown)
    BY <2>3, <2>5, <2>6, SetSpanKeeps
  <2>8. KeepsBut(State(chain, sp2, allocated), s, grown, q)
    BY <2>7 DEF Keeps, KeepsBut
  <2>9. grown \in Seq(Span)
    BY <1>1, <2>3, <2>5, SetSpanFacts
  <2>10. Keeps(RemoveAndFree(State(chain, sp2, allocated), s[q]), RemoveAt(s, q),
               RemoveAt(grown, q))
    BY <2>8, <2>9, RemoveAndFreeKeeps
  <2>11. MergeLinked(sp, s[p], s[q]) = RemoveAndFree(State(chain, sp2, allocated), s[q])
    BY <1>1, <1>4, <2>1, <2>4 DEF MergeLinked
  <2>12. TryMergeSpans(list, p) = RemoveAt(grown, q)
    BY <1>4, <2>1, <2>2, <2>3 DEF TryMergeSpans
  <2> QED BY <2>10, <2>11, <2>12
<1> QED BY <1>3, <1>4

\* The new span goes where the list has its place, whichever macro puts it there.
LEMMA InsertSpanOrders ==
  ASSUME NEW s, Ordered(chain, s), NEW p \in 1 .. Len(s) + 1, NEW e \in Elems \ Range(s),
         NEW prev, prev = IF p > 1 THEN s[p - 1] ELSE Null
  PROVE  /\ Ordered(InsertSpan(prev, TurnOf(s, p), e), InsertAt(s, p, e))
         /\ Range(InsertAt(s, p, e)) = Range(s) \cup {e}
<1>1. /\ Len(s) \in Nat
      /\ \A i \in 1 .. Len(s) : s[i] \in Elems /\ s[i] \in Range(s) /\ s[i] # Null
      /\ Range(s) \in SUBSET Elems
  BY OrderedFacts, PointersAssumption
<1>2. PICK in : in = Range(s)
  OBVIOUS
<1> PICK l : l = chain
  OBVIOUS
<1>3. l \in Lists /\ in \in SUBSET Elems /\ Linked(l, in) /\ e \in Elems \ in
  BY <1>1, <1>2 DEF Ordered
<1>4. PICK after : after = InsertSpan(prev, TurnOf(s, p), e)
  OBVIOUS
<1>5. Inserted(l, in, Before(s, p), e, after)
  <2>1. CASE p > 1
    <3>1. PICK k \in 1 .. Len(s) : k = p - 1 /\ k + 1 = p
      BY <1>1, <2>1
    <3>2. PICK at \in in : at = s[k]
      BY <1>1, <1>2
    <3>3. prev = at /\ at # Null /\ at = Before(s, p)
      BY <1>1, <2>1, <3>1, <3>2 DEF Before
    <3>4. after = ListInsertAfter(l, at, e)
      BY <1>4, <3>3 DEF InsertSpan
    <3>5. at \in in \cup {ListHead}
      OBVIOUS
    <3> QED BY <1>3, <3>3, <3>4, <3>5, InsertAfterKeepsLinks
  <2>2. CASE p = 1 /\ 1 <= Len(s)
    <3>1. PICK at \in in : at = s[1]
      BY <1>1, <1>2, <2>2
    <3>2. prev = Null /\ TurnOf(s, p) = at /\ at # Null
      BY <1>1, <2>2, <3>1 DEF TurnOf
    <3>3. after = ListInsertBefore(l, at, e)
      BY <1>4, <3>2 DEF InsertSpan
    <3>4. l.prev[at] = Before(s, p)
      BY <1>1, <2>2, <3>1, BackPointers
    <3> QED BY <1>3, <3>3, <3>4, InsertBeforeKeepsLinks
  <2>3. CASE p = 1 /\ ~(1 <= Len(s))
    <3>1. prev = Null /\ TurnOf(s, p) = Null /\ Before(s, p) = ListHead
      BY <2>3 DEF TurnOf, Before
    <3>2. after = ListInsertHead(l, e)
      BY <1>4, <3>1 DEF InsertSpan
    <3> QED BY <1>3, <3>1, <3>2, InsertHeadKeepsLinks
  <2> QED BY <1>1, <2>1, <2>2, <2>3
<1>6. Ordered(l, s) /\ Inserted(l, Range(s), Before(s, p), e, after)
  BY <1>2, <1>5
<1>7. Ordered(after, InsertAt(s, p, e)) /\ Range(InsertAt(s, p, e)) = Range(s) \cup {e}
  BY <1>6, OrderedInsert
<1> QED BY <1>4, <1>7

\* The new vp_span holds the region.
LEMMA InsertKeeps ==
  ASSUME NEW s, NEW list \in Seq(Span), Keeps(State(chain, spans, allocated), s, list),
         NEW p \in 1 .. Len(s) + 1, NEW e \in Elems \ allocated,
         NEW prev, prev = IF p > 1 THEN s[p - 1] ELSE Null, NEW start \in Nat, NEW end \in Nat
  PROVE  Keeps(State(InsertSpan(prev, TurnOf(s, p), e),
                     [spans EXCEPT ![e] = VpSpan(start, end)], allocated \cup {e}),
               InsertAt(s, p, e), InsertAt(list, p, VpSpan(start, end)))
<1>1. /\ Ordered(chain, s) /\ allocated = Range(s) /\ spans \in [Elems -> Span]
      /\ Len(list) = Len(s)
      /\ \A i \in 1 .. Len(s) : spans[s[i]] = list[i]
  BY StateFields DEF Keeps
<1>2. /\ Len(s) \in Nat /\ e \in Elems
      /\ \A i \in 1 .. Len(s) : s[i] \in Elems /\ s[i] # e
  BY <1>1, OrderedFacts
<1>3. PICK after, t, sp2, a, list2, span :
        /\ after = InsertSpan(prev, TurnOf(s, p), e)
        /\ t = InsertAt(s, p, e)
        /\ sp2 = [spans EXCEPT ![e] = VpSpan(start, end)]
        /\ a = allocated \cup {e}
        /\ list2 = InsertAt(list, p, VpSpan(start, end))
        /\ span = VpSpan(start, end)
  OBVIOUS
<1>4. Ordered(after, t) /\ a = Range(t)
  BY <1>1, <1>3, InsertSpanOrders
<1>5. span \in Span
  BY <1>3 DEF VpSpan, Span
<1>6. /\ sp2 \in [Elems -> Span] /\ sp2[e] = span
      /\ \A i \in 1 .. Len(s) : sp2[s[i]] = list[i]
  BY <1>1, <1>2, <1>3, <1>5
<1>7. /\ Len(t) = Len(s) + 1
      /\ \A j \in 1 .. Len(s) + 1 :
           t[j] = IF j < p THEN s[j] ELSE IF j = p THEN e ELSE s[j - 1]
  <2>1. s \in Seq(Elems)
    BY <1>1 DEF Ordered
  <2> QED BY <1>2, <1>3, <2>1, InsertAtFacts
<1>8. /\ Len(list2) = Len(s) + 1
      /\ \A j \in 1 .. Len(s) + 1 :
           list2[j] = IF j < p THEN list[j] ELSE IF j = p THEN span ELSE list[j - 1]
  <2>1. p \in 1 .. Len(list) + 1
    BY <1>1
  <2>2. /\ Len(InsertAt(list, p, span)) = Len(list) + 1
        /\ \A j \in 1 .. Len(list) + 1 :
             InsertAt(list, p, span)[j] =
               IF j < p THEN list[j] ELSE IF j = p THEN span ELSE list[j - 1]
    BY <1>5, <2>1, InsertAtFacts
  <2> QED BY <1>1, <1>3, <2>2
<1>9. \A j \in 1 .. Len(t) : sp2[t[j]] = list2[j]
  <2>1. SUFFICES ASSUME NEW j \in 1 .. Len(s) + 1 PROVE sp2[t[j]] = list2[j]
    BY <1>7
  <2>2. CASE j = p
    BY <1>6, <1>7, <1>8, <2>2
  <2>3. CASE j # p
    <3>1. PICK i \in 1 .. Len(s) : t[j] = s[i] /\ list2[j] = list[i]
      BY <1>2, <1>7, <1>8, <2>1, <2>3
    <3> QED BY <1>6, <3>1
  <2> QED BY <2>2, <2>3
<1>10. PICK state : state = State(after, sp2, a)
  OBVIOUS
<1>11. state.chain = after /\ state.spans = sp2 /\ state.allocated = a
  BY <1>10, StateFields
<1>12. Keeps(state, t, list2)
  BY <1>4, <1>6, <1>7, <1>8, <1>9, <1>11 DEF Keeps
<1> QED BY <1>3, <1>10, <1>12

-----------------------------------------------------------------------------
(***************************************************************************)
(* The invariant, and that every call keeps it.                            *)
(***************************************************************************)

Chained == \E s : Keeps(State(chain, spans, allocated), s, items)

\* What a call leaves.
LEMMA BecomesChained ==
  ASSUME NEW state, NEW t, Becomes(state), Keeps(state, t, items')
  PROVE  Chained'
<1>1. PICK new : new = State(chain', spans', allocated')
  OBVIOUS
<1>2. new.chain = state.chain /\ new.spans = state.spans /\ new.allocated = state.allocated
  BY <1>1, StateFields DEF Becomes
<1>3. Keeps(new, t, items')
  BY <1>2 DEF Keeps
<1> QED BY <1>1, <1>3 DEF Chained, State

\* A call that fails changes nothing.
LEMMA UnchangedChained ==
  ASSUME Chained, UNCHANGED <<items, chain, spans, allocated>>
  PROVE  Chained'
BY DEF Chained

\* freelist_alloc takes the pages out of the vp_span that first fit names.
LEMMA AllocChained ==
  ASSUME IInv, Chained, NEW n \in 1 .. MaxRequest, VpAlloc(n), LinkedAlloc(n)
  PROVE  Chained'
<1>1. items \in Seq(Span) /\ n \in Nat \ {0}
  BY MaxRequestAssumption DEF IInv, TypeOK
<1>2. PICK s : Keeps(State(chain, spans, allocated), s, items)
  BY DEF Chained
<1>3. /\ Ordered(chain, s) /\ allocated = Range(s) /\ spans \in [Elems -> Span]
      /\ Len(items) = Len(s)
      /\ \A i \in 1 .. Len(s) : spans[s[i]] = items[i]
  BY <1>2, StateFields DEF Keeps
<1>4. /\ Len(s) \in Nat /\ DOMAIN items = 1 .. Len(s)
      /\ \A i \in 1 .. Len(s) : s[i] \in Elems /\ s[i] \in allocated
      /\ \A i \in 1 .. Len(s) : items[i].start \in Nat /\ items[i].end \in Nat
  BY <1>1, <1>3, OrderedFacts, CoalescedFacts
<1>5. PICK good : good = {e \in allocated : SpanNumPages(spans[e]) >= n}
  OBVIOUS
<1>6. \A i \in 1 .. Len(s) : s[i] \in good <=> ~(SpanNumPages(items[i]) < n)
  BY <1>1, <1>3, <1>4, <1>5 DEF SpanNumPages
<1>7. PICK span : span = AtTurn(chain, StopsAt(chain, good))
  OBVIOUS
<1>8. PICK shrunk : shrunk = [spans EXCEPT ![span].start = @ + n]
  OBVIOUS
<1>9. /\ span = Null => UNCHANGED <<chain, spans, allocated>>
      /\ span # Null /\ SpanEmpty(shrunk[span]) =>
           Becomes(RemoveAndFree(State(chain, shrunk, allocated), span))
      /\ span # Null /\ ~SpanEmpty(shrunk[span]) => Becomes(State(chain, shrunk, allocated))
  BY <1>5, <1>7, <1>8 DEF LinkedAlloc
<1>10. CASE NoFit(items, n) /\ UNCHANGED <<items, held>>
  <2>1. StopsAt(chain, good) = Len(s) + 1
    <3>1. /\ Len(s) + 1 \in 1 .. Len(s) + 1
          /\ \A j \in 1 .. (Len(s) + 1) - 1 : s[j] \notin good
          /\ ~(Len(s) + 1 <= Len(s))
      BY <1>4, <1>6, <1>10 DEF NoFit
    <3> QED BY <1>3, <3>1, StopsAtFirst
  <2>2. span = Null
    BY <1>3, <1>7, <2>1, AtTurnOf
  <2>3. UNCHANGED <<items, chain, spans, allocated>>
    BY <1>9, <1>10, <2>2
  <2> QED BY <2>3, UnchangedChained
<1>11. ASSUME NEW i \in DOMAIN items, FirstFit(items, n, i), items' = TakeFrom(items, i, n)
       PROVE  Chained'
  <2>1. i \in 1 .. Len(s) /\ s[i] \in good /\ \A j \in 1 .. i - 1 : s[j] \notin good
    <3>1. i \in 1 .. Len(s)
      BY <1>4, <1>11
    <3>2. /\ ~(SpanNumPages(items[i]) < n)
          /\ \A j \in 1 .. i - 1 : SpanNumPages(items[j]) < n
      <4>1. items[i].start \in Nat /\ items[i].end \in Nat
        BY <1>4, <3>1
      <4> QED BY <1>1, <1>11, <4>1 DEF FirstFit, SpanNumPages
    <3>3. \A j \in 1 .. i - 1 : j \in 1 .. Len(s)
      BY <1>4, <3>1
    <3> QED BY <1>6, <3>1, <3>2, <3>3
  <2>2. StopsAt(chain, good) = i
    <3>1. i \in 1 .. Len(s) + 1
      BY <1>4, <2>1
    <3> QED BY <1>3, <2>1, <3>1, StopsAtFirst
  <2>3. span = s[i] /\ span # Null /\ span \in Elems
    BY <1>3, <1>7, <2>1, <2>2, AtTurnOf
  <2>4. PICK low, high, rest :
          low = items[i].start + n /\ high = items[i].end /\ rest = VpSpan(low, high)
    OBVIOUS
  <2>5. low \in Nat /\ high \in Nat /\ rest.start = low /\ rest.end = high
    BY <1>1, <1>4, <2>1, <2>4 DEF VpSpan
  <2>6. shrunk = [spans EXCEPT ![span] = rest]
    <3>1. spans[span] = items[i] /\ spans[span] \in Span
      BY <1>3, <2>1, <2>3
    <3>2. [spans[span] EXCEPT !.start = low] = rest
      BY <2>4, <3>1, FieldSet
    <3>3. shrunk = [spans EXCEPT ![span].start = low]
      BY <1>8, <2>4, <3>1
    <3> QED BY <3>2, <3>3
  <2>7. shrunk[span] = rest
    BY <1>3, <2>3, <2>6
  <2>8. Keeps(State(chain, shrunk, allocated), s, SetSpan(items, i, low, high))
    BY <1>1, <1>2, <2>1, <2>3, <2>4, <2>5, <2>6, SetSpanKeeps
  <2>9. CASE SpanEmpty(rest)
    <3>1. items' = RemoveAt(items, i)
      BY <1>11, <2>4, <2>9 DEF TakeFrom
    <3>2. Becomes(RemoveAndFree(State(chain, shrunk, allocated), s[i]))
      BY <1>9, <2>3, <2>7, <2>9
    <3>3. KeepsBut(State(chain, shrunk, allocated), s, items, i)
      <4>1. \A j \in 1 .. Len(s) : j # i => SetSpan(items, i, low, high)[j] = items[j]
        <5>1. i \in 1 .. Len(items)
          BY <1>3, <2>1
        <5>2. \A j \in 1 .. Len(items) :
                SetSpan(items, i, low, high)[j] =
                  IF j = i THEN VpSpan(low, high) ELSE items[j]
          BY <1>1, <2>5, <5>1, SetSpanFacts
        <5> QED BY <1>3, <5>2
      <4> QED BY <1>3, <2>8, <4>1 DEF Keeps, KeepsBut
    <3>4. Keeps(RemoveAndFree(State(chain, shrunk, allocated), s[i]), RemoveAt(s, i),
                RemoveAt(items, i))
      BY <1>1, <2>1, <3>3, RemoveAndFreeKeeps
    <3> QED BY <3>1, <3>2, <3>4, BecomesChained
  <2>10. CASE ~SpanEmpty(rest)
    <3>1. items' = SetSpan(items, i, low, high)
      BY <1>11, <2>4, <2>5, <2>10 DEF TakeFrom
    <3>2. Becomes(State(chain, shrunk, allocated))
      BY <1>9, <2>3, <2>7, <2>10
    <3> QED BY <2>8, <3>1, <3>2, BecomesChained
  <2> QED BY <2>9, <2>10
<1> QED BY <1>10, <1>11 DEF VpAlloc

\* freelist_free looks for the same place as the walk over the pointers, and
\* does there what AddRegion does.
LEMMA FreeChained ==
  ASSUME IInv, Chained, NEW start \in Nat, NEW end \in Nat,
         NEW turn, NextSpan(items, end, turn), items' = AddRegion(items, turn, start, end),
         LinkedFree(start, end)
  PROVE  Chained'
<1>1. items \in Seq(Span)
  BY DEF IInv, TypeOK
<1>2. PICK s : Keeps(State(chain, spans, allocated), s, items)
  BY DEF Chained
<1>3. /\ Ordered(chain, s) /\ allocated = Range(s) /\ spans \in [Elems -> Span]
      /\ Len(items) = Len(s)
      /\ \A i \in 1 .. Len(s) : spans[s[i]] = items[i]
  BY <1>2, StateFields DEF Keeps
<1>4. /\ Len(s) \in Nat
      /\ \A i \in 1 .. Len(s) : s[i] \in Elems /\ s[i] \in allocated
      /\ \A i \in 1 .. Len(s) : items[i].start \in Nat /\ items[i].end \in Nat
  BY <1>1, <1>3, OrderedFacts, CoalescedFacts
<1>5. PICK good : good = {e \in allocated : spans[e].start >= end}
  OBVIOUS
<1>6. \A i \in 1 .. Len(s) : s[i] \in good <=> items[i].start >= end
  BY <1>3, <1>4, <1>5
<1>7. /\ turn \in 1 .. Len(s) + 1
      /\ \A j \in 1 .. turn - 1 : j \in 1 .. Len(s) /\ items[j].start < end
      /\ turn <= Len(s) => turn \in 1 .. Len(s) /\ items[turn].start >= end
  BY <1>3, <1>4 DEF NextSpan
<1>8. \A j \in 1 .. turn - 1 : s[j] \notin good
  <2>1. SUFFICES ASSUME NEW j \in 1 .. turn - 1 PROVE ~(items[j].start >= end)
    BY <1>6, <1>7
  <2>2. items[j].start \in Nat /\ items[j].start < end
    BY <1>4, <1>7
  <2> QED BY <2>2
<1>9. StopsAt(chain, good) = turn
  BY <1>3, <1>6, <1>7, <1>8, StopsAtFirst
<1>10. PICK next, prev : next = AtTurn(chain, turn) /\ prev = AtTurn(chain, turn - 1)
  OBVIOUS
<1>11. /\ next = TurnOf(s, turn)
       /\ next # Null <=> turn <= Len(s)
       /\ turn <= Len(s) => next = s[turn]
  <2>1. CASE turn <= Len(s)
    BY <1>3, <1>7, <1>10, <2>1, AtTurnOf DEF TurnOf
  <2>2. CASE ~(turn <= Len(s))
    <3>1. turn = Len(s) + 1
      BY <1>4, <1>7, <2>2
    <3> QED BY <1>3, <1>10, <2>2, <3>1, AtTurnOf DEF TurnOf
  <2> QED BY <2>1, <2>2
<1>12. /\ prev = IF turn > 1 THEN s[turn - 1] ELSE Null
       /\ prev # Null <=> turn > 1
  <2>1. CASE turn > 1
    <3>1. turn - 1 \in 1 .. Len(s)
      BY <1>4, <1>7, <2>1
    <3> QED BY <1>3, <1>10, <2>1, <3>1, AtTurnOf
  <2>2. CASE ~(turn > 1)
    <3>1. turn - 1 = 0
      BY <1>4, <1>7, <2>2
    <3> QED BY <1>3, <1>10, <2>2, <3>1, AtTurnOf
  <2> QED BY <2>1, <2>2
<1>13. PICK afterPrev, beforeNext :
         /\ afterPrev = [spans EXCEPT ![prev].end = end]
         /\ beforeNext = [spans EXCEPT ![next].start = start]
  OBVIOUS
<1>14. IF prev # Null /\ spans[prev].end = start
       THEN Becomes(IF next # Null THEN MergeLinked(afterPrev, prev, next)
                                   ELSE State(chain, afterPrev, allocated))
       ELSE IF next # Null /\ spans[next].start = end
       THEN Becomes(IF prev # Null THEN MergeLinked(beforeNext, prev, next)
                                   ELSE State(chain, beforeNext, allocated))
       ELSE \E span \in Elems \ allocated :
              Becomes(State(InsertSpan(prev, next, span),
                            [spans EXCEPT ![span] = VpSpan(start, end)],
                            allocated \cup {span}))
  BY <1>5, <1>9, <1>10, <1>13 DEF LinkedFree
<1>15. TouchesPrev(items, turn, start) <=> prev # Null /\ spans[prev].end = start
  <2>1. CASE turn > 1
    <3>1. PICK p \in 1 .. Len(s) : p = turn - 1
      BY <1>4, <1>7, <2>1
    <3>2. spans[prev] = items[turn - 1]
      BY <1>3, <1>12, <2>1, <3>1
    <3> QED BY <1>12, <2>1, <3>2 DEF TouchesPrev
  <2>2. CASE ~(turn > 1)
    BY <1>12, <2>2 DEF TouchesPrev
  <2> QED BY <2>1, <2>2
<1>16. TouchesNext(items, turn, end) <=> next # Null /\ spans[next].start = end
  <2>1. CASE turn <= Len(s)
    BY <1>3, <1>7, <1>11, <2>1 DEF TouchesNext
  <2>2. CASE ~(turn <= Len(s))
    BY <1>3, <1>11, <2>2 DEF TouchesNext
  <2> QED BY <2>1, <2>2
<1>17. CASE TouchesPrev(items, turn, start)
  <2>1. PICK p \in 1 .. Len(s) : p = turn - 1 /\ turn = p + 1
    BY <1>4, <1>7, <1>17 DEF TouchesPrev
  <2>2. prev = s[p] /\ prev # Null
    BY <1>12, <1>17, <2>1 DEF TouchesPrev
  <2>3. PICK low, grown : low = items[p].start /\ grown = SetSpan(items, p, low, end)
    OBVIOUS
  <2>4. low \in Nat /\ items[p] \in Span /\ spans[prev] = items[p]
    BY <1>1, <1>3, <1>4, <2>1, <2>2, <2>3
  <2>5. afterPrev = [spans EXCEPT ![s[p]] = VpSpan(low, end)]
    <3>1. [spans[prev] EXCEPT !.end = end] = VpSpan(low, end)
      BY <2>3, <2>4, FieldSet
    <3> QED BY <1>13, <2>2, <3>1
  <2>6. Keeps(State(chain, afterPrev, allocated), s, grown)
    BY <1>1, <1>2, <2>3, <2>4, <2>5, SetSpanKeeps
  <2>7. grown \in Seq(Span)
    BY <1>1, <1>3, <2>3, <2>4, SetSpanFacts
  <2>8. items' = IF turn <= Len(items) THEN TryMergeSpans(grown, p) ELSE grown
    BY <1>17, <2>1, <2>3 DEF AddRegion, ExtendPrev
  <2>9. CASE turn <= Len(s)
    <3>1. Becomes(MergeLinked(afterPrev, s[p], s[turn]))
      BY <1>11, <1>14, <1>15, <1>17, <2>2, <2>9
    <3>2. items' = TryMergeSpans(grown, p)
      BY <1>3, <2>8, <2>9
    <3>3. \E t : Keeps(MergeLinked(afterPrev, s[p], s[turn]), t, TryMergeSpans(grown, p))
      BY <1>7, <2>1, <2>6, <2>7, <2>9, MergeKeeps
    <3> QED BY <3>1, <3>2, <3>3, BecomesChained
  <2>10. CASE ~(turn <= Len(s))
    <3>1. Becomes(State(chain, afterPrev, allocated))
      BY <1>11, <1>14, <1>15, <1>17, <2>10
    <3>2. items' = grown
      BY <1>3, <2>8, <2>10
    <3> QED BY <2>6, <3>1, <3>2, BecomesChained
  <2> QED BY <2>9, <2>10
<1>18. CASE ~TouchesPrev(items, turn, start) /\ TouchesNext(items, turn, end)
  <2>1. /\ turn \in 1 .. Len(s) /\ next = s[turn] /\ next # Null
        /\ spans[next] = items[turn] /\ items[turn] \in Span
    BY <1>1, <1>3, <1>7, <1>11, <1>18 DEF TouchesNext
  <2>2. PICK high, grown : high = items[turn].end /\ grown = SetSpan(items, turn, start, high)
    OBVIOUS
  <2>3. high \in Nat
    BY <1>4, <2>1, <2>2
  <2>4. beforeNext = [spans EXCEPT ![s[turn]] = VpSpan(start, high)]
    <3>1. [spans[next] EXCEPT !.start = start] = VpSpan(start, high)
      BY <2>1, <2>2, FieldSet
    <3> QED BY <1>13, <2>1, <3>1
  <2>5. Keeps(State(chain, beforeNext, allocated), s, grown)
    BY <1>1, <1>2, <2>1, <2>2, <2>3, <2>4, SetSpanKeeps
  <2>6. grown \in Seq(Span)
    BY <1>1, <1>3, <2>1, <2>2, <2>3, SetSpanFacts
  <2>7. items' = IF turn > 1 THEN TryMergeSpans(grown, turn - 1) ELSE grown
    BY <1>18, <2>2 DEF AddRegion, ExtendNext
  <2>8. CASE turn > 1
    <3>1. PICK p \in 1 .. Len(s) : p = turn - 1 /\ turn = p + 1
      BY <1>4, <1>7, <2>8
    <3>2. Becomes(MergeLinked(beforeNext, s[p], s[turn]))
      BY <1>12, <1>14, <1>15, <1>16, <1>18, <2>1, <2>8, <3>1
    <3>3. items' = TryMergeSpans(grown, p)
      BY <2>7, <2>8, <3>1
    <3>4. \E t : Keeps(MergeLinked(beforeNext, s[p], s[turn]), t, TryMergeSpans(grown, p))
      BY <2>1, <2>5, <2>6, <3>1, MergeKeeps
    <3> QED BY <3>2, <3>3, <3>4, BecomesChained
  <2>9. CASE ~(turn > 1)
    <3>1. Becomes(State(chain, beforeNext, allocated))
      BY <1>12, <1>14, <1>15, <1>16, <1>18, <2>1, <2>9
    <3>2. items' = grown
      BY <2>7, <2>9
    <3> QED BY <2>5, <3>1, <3>2, BecomesChained
  <2> QED BY <2>8, <2>9
<1>19. CASE ~TouchesPrev(items, turn, start) /\ ~TouchesNext(items, turn, end)
  <2>1. PICK span \in Elems \ allocated :
          Becomes(State(InsertSpan(prev, TurnOf(s, turn), span),
                        [spans EXCEPT ![span] = VpSpan(start, end)],
                        allocated \cup {span}))
    BY <1>11, <1>14, <1>15, <1>16, <1>19
  <2>2. items' = InsertAt(items, turn, VpSpan(start, end))
    BY <1>19 DEF AddRegion
  <2>3. Keeps(State(InsertSpan(prev, TurnOf(s, turn), span),
                    [spans EXCEPT ![span] = VpSpan(start, end)], allocated \cup {span}),
              InsertAt(s, turn, span), InsertAt(items, turn, VpSpan(start, end)))
    BY <1>1, <1>2, <1>7, <1>12, InsertKeeps
  <2> QED BY <2>1, <2>2, <2>3, BecomesChained
<1> QED BY <1>17, <1>18, <1>19

\* after[i] is where freelist_reset is when its loop has run i turns from z.
Turns(last, z, after) ==
  after = [i \in 0 .. last |-> IF i = 0 THEN z ELSE ResetTurn(after[i - 1])]

\* The loop has a result, however many turns it runs: it takes one more turn
\* than a loop that has one.
LEMMA TurnsExist ==
  ASSUME NEW last \in Nat, NEW z
  PROVE  \E after : Turns(last, z, after)
<1> DEFINE Without == {m \in Nat : ~\E after : Turns(m, z, after)}
<1>1. SUFFICES ASSUME Without # {} PROVE FALSE
  OBVIOUS
<1>2. PICK m \in Without : \A k \in Without : m <= k
  <2>1. Without \in SUBSET Nat
    OBVIOUS
  <2> HIDE DEF Without
  <2> QED BY <1>1, <2>1, LeastNumber
<1>3. m \in Nat /\ ~\E after : Turns(m, z, after)
  BY <1>2
<1>4. m # 0
  <2>1. SUFFICES ASSUME m = 0 PROVE FALSE
    OBVIOUS
  <2>2. PICK f : f = [i \in 0 .. 0 |-> z]
    OBVIOUS
  <2>3. f = [i \in 0 .. 0 |-> IF i = 0 THEN z ELSE ResetTurn(f[i - 1])]
    BY <2>2
  <2> QED BY <1>3, <2>1, <2>3 DEF Turns
<1>5. PICK k \in Nat : k = m - 1 /\ m = k + 1
  BY <1>3, <1>4
<1>6. k \notin Without
  BY <1>2, <1>3, <1>5
<1>7. PICK f : Turns(k, z, f)
  BY <1>6
<1>8. PICK h : h = f
  OBVIOUS
<1>9. f = [i \in 0 .. k |-> IF i = 0 THEN z ELSE ResetTurn(h[i - 1])]
  BY <1>7, <1>8 DEF Turns
<1>10. PICK g : g = [i \in 0 .. m |-> IF i = 0 THEN z ELSE ResetTurn(f[i - 1])]
  OBVIOUS
<1>11. \A i \in 0 .. k : g[i] = f[i]
  BY <1>5, <1>8, <1>9, <1>10
<1>12. \A i \in 0 .. m : i # 0 => g[i - 1] = f[i - 1]
  BY <1>5, <1>11
<1>13. g = [i \in 0 .. m |-> IF i = 0 THEN z ELSE ResetTurn(g[i - 1])]
  BY <1>10, <1>12
<1> QED BY <1>3, <1>13 DEF Turns

\* Where the loop is after i of its turns: the first spans are gone, and the
\* next element is the first of those that are left.
Reset(loop, i, n) ==
  \E t \in Seq(Elems), list \in Seq(Span) :
    /\ Keeps(loop.list, t, list)
    /\ Len(t) = IF i < n THEN n - i ELSE 0
    /\ loop.span = TurnOf(t, 1)

LEMMA ResetTurnKeeps ==
  ASSUME NEW loop, NEW i \in Nat, NEW n \in Nat, Reset(loop, i, n)
  PROVE  Reset(ResetTurn(loop), i + 1, n)
<1>1. PICK t \in Seq(Elems), list \in Seq(Span) :
        /\ Keeps(loop.list, t, list)
        /\ Len(t) = IF i < n THEN n - i ELSE 0
        /\ loop.span = TurnOf(t, 1)
  BY DEF Reset
<1>2. Ordered(loop.list.chain, t) /\ Len(list) = Len(t)
  BY <1>1 DEF Keeps
<1>3. CASE i < n
  <2>1. 1 \in 1 .. Len(t) /\ loop.span = t[1] /\ t[1] \in Elems
    BY <1>1, <1>3 DEF TurnOf
  <2>2. PICK new : new = ResetTurn(loop)
    OBVIOUS
  <2>3. new.list = RemoveAndFree(loop.list, t[1]) /\ new.span = ListNext(loop.list.chain, t[1])
    BY <2>1, <2>2 DEF ResetTurn
  <2>4. KeepsBut(loop.list, t, list, 1)
    BY <1>1 DEF Keeps, KeepsBut
  <2>5. Keeps(new.list, RemoveAt(t, 1), RemoveAt(list, 1))
    BY <2>1, <2>3, <2>4, RemoveAndFreeKeeps
  <2>6. PICK u : u = RemoveAt(t, 1)
    OBVIOUS
  <2>7. /\ u \in Seq(Elems) /\ Len(u) = Len(t) - 1
        /\ \A j \in 1 .. Len(t) - 1 : u[j] = IF j < 1 THEN t[j] ELSE t[j + 1]
    BY <2>1, <2>6, RemoveAtFacts
  <2>8. new.span = TurnOf(u, 1)
    <3>1. new.span = TurnOf(t, 2)
      BY <1>2, <2>1, <2>3 DEF Ordered
    <3> QED BY <1>1, <1>3, <2>7, <3>1 DEF TurnOf
  <2>9. Len(u) = IF i + 1 < n THEN n - (i + 1) ELSE 0
    BY <1>1, <1>3, <2>7
  <2>10. RemoveAt(list, 1) \in Seq(Span)
    BY <1>2, <2>1, RemoveAtFacts
  <2> QED BY <2>2, <2>5, <2>6, <2>7, <2>8, <2>9, <2>10 DEF Reset
<1>4. CASE ~(i < n)
  <2>1. loop.span \notin Elems
    BY <1>1, <1>4, PointersAssumption DEF TurnOf
  <2>2. ResetTurn(loop) = loop
    BY <2>1 DEF ResetTurn
  <2>3. Len(t) = IF i + 1 < n THEN n - (i + 1) ELSE 0
    BY <1>1, <1>4
  <2> QED BY <1>1, <2>2, <2>3 DEF Reset
<1> QED BY <1>3, <1>4

\* freelist_reset gives back every vp_span of the list.
LEMMA ResetChained ==
  ASSUME IInv, Chained, VpReset, LinkedReset
  PROVE  Chained'
<1>1. PICK s : Keeps(State(chain, spans, allocated), s, items)
  BY DEF Chained
<1>2. items \in Seq(Span) /\ items' = <<>>
  BY DEF IInv, TypeOK, VpReset
<1>3. /\ Ordered(chain, s) /\ s \in Seq(Elems)
      /\ Len(s) \in Nat /\ Len(s) <= Cardinality(Elems) /\ Cardinality(Elems) \in Nat
  BY <1>1, StateFields, OrderedFacts DEF Keeps, Ordered
<1>4. PICK last, n : last = Cardinality(Elems) /\ n = Len(s)
  OBVIOUS
<1>5. PICK z : z = [list |-> State(chain, spans, allocated), span |-> ListFirst(chain)]
  OBVIOUS
<1>6. PICK after : Turns(last, z, after) /\ Becomes(after[last].list)
  <2> DEFINE a == CHOOSE f : Turns(last, z, f)
  <2>1. Turns(last, z, a)
    BY <1>3, <1>4, TurnsExist
  <2>2. Becomes(a[last].list)
    BY <1>4, <1>5 DEF LinkedReset, Turns
  <2> HIDE DEF a
  <2> QED BY <2>1, <2>2
<1>7. \A i \in 0 .. last : after[i] = IF i = 0 THEN z ELSE ResetTurn(after[i - 1])
  <2>1. PICK f : f = after
    OBVIOUS
  <2>2. after = [i \in 0 .. last |-> IF i = 0 THEN z ELSE ResetTurn(f[i - 1])]
    BY <1>6, <2>1 DEF Turns
  <2> QED BY <2>1, <2>2
<1>8. Reset(z, 0, n)
  <2>1. z.list = State(chain, spans, allocated) /\ z.span = TurnOf(s, 1)
    BY <1>3, <1>5 DEF Ordered
  <2>2. Len(s) = IF 0 < n THEN n - 0 ELSE 0
    BY <1>3, <1>4
  <2> QED BY <1>1, <1>2, <1>3, <2>1, <2>2 DEF Reset
<1>9. \A i \in 0 .. last : Reset(after[i], i, n)
  <2> DEFINE Off == {i \in 0 .. last : ~Reset(after[i], i, n)}
  <2>1. SUFFICES ASSUME Off # {} PROVE FALSE
    OBVIOUS
  <2>2. PICK m \in Off : \A k \in Off : m <= k
    <3>1. Off \in SUBSET Nat
      BY <1>3, <1>4
    <3> HIDE DEF Off
    <3> QED BY <2>1, <3>1, LeastNumber
  <2>3. m \in 0 .. last /\ ~Reset(after[m], m, n)
    BY <2>2
  <2>4. m # 0
    BY <1>7, <1>8, <2>3
  <2>5. PICK k \in Nat : k = m - 1 /\ m = k + 1 /\ k \in 0 .. last
    BY <1>3, <1>4, <2>3, <2>4
  <2>6. k \notin Off
    BY <2>2, <2>5
  <2>7. Reset(after[k], k, n)
    BY <2>5, <2>6
  <2>8. after[m] = ResetTurn(after[k])
    BY <1>7, <2>3, <2>4, <2>5
  <2>9. Reset(ResetTurn(after[k]), k + 1, n)
    BY <1>3, <1>4, <2>5, <2>7, ResetTurnKeeps
  <2> QED BY <2>3, <2>5, <2>8, <2>9
<1>10. PICK t \in Seq(Elems), list \in Seq(Span) : Keeps(after[last].list, t, list) /\ Len(t) = 0
  <2>1. Reset(after[last], last, n) /\ ~(last < n)
    BY <1>3, <1>4, <1>9
  <2> QED BY <2>1 DEF Reset
<1>11. list = <<>>
  <2>1. Len(list) = 0
    BY <1>10 DEF Keeps
  <2> QED BY <2>1
<1> QED BY <1>2, <1>6, <1>10, <1>11, BecomesChained

LEMMA InitChained == LinkedInit => Chained
<1> SUFFICES ASSUME LinkedInit PROVE Chained
  OBVIOUS
<1>1. PICK s : s = <<>>
  OBVIOUS
<1>2. s \in Seq(Elems) /\ Len(s) = 0 /\ DOMAIN s = {} /\ Range(s) = {}
  BY <1>1 DEF Range
<1>3. Ordered(chain, s)
  <2>1. chain = NewList
    BY DEF LinkedInit
  <2>2. NewList \in Lists /\ NewList.next[ListHead] = Null
    BY PointersAssumption DEF NewList, Lists
  <2>3. Linked(NewList, {})
    BY <2>2 DEF Linked
  <2>4. ListFirst(NewList) = TurnOf(s, 1)
    BY <1>2, <2>2 DEF ListFirst, TurnOf
  <2> QED BY <1>2, <2>1, <2>2, <2>3, <2>4 DEF Ordered
<1>4. spans \in [Elems -> Span] /\ allocated = Range(s) /\ Len(items) = Len(s)
  BY <1>1, <1>2 DEF LinkedInit, Init, Garbage, VpSpan, Span
<1>5. Keeps(State(chain, spans, allocated), s, items)
  BY <1>2, <1>3, <1>4, StateFields DEF Keeps
<1> QED BY <1>5 DEF Chained

\* The chain and VirtPageAlloc take the same step.
LEMMA LinkedNextInv ==
  IInv /\ Chained /\ [LinkedNext]_linkedVars => [Next]_vars /\ IInv' /\ Chained'
<1> SUFFICES ASSUME IInv, Chained, [LinkedNext]_linkedVars
             PROVE  [Next]_vars /\ IInv' /\ Chained'
  OBVIOUS
<1>1. [Next]_vars
  BY DEF LinkedNext, Next, linkedVars, vars
<1>2. IInv'
  BY <1>1, NextInv
<1>3. ASSUME NEW n \in 1 .. MaxRequest, VpAlloc(n), LinkedAlloc(n)
      PROVE  Chained'
  BY <1>3, AllocChained
<1>4. ASSUME NEW start \in Pages, NEW n \in 1 .. MaxRequest, VpFree(start, n),
             \/ ret'.val = 0 /\ LinkedFree(start, start + n)
             \/ ret'.val # 0 /\ UNCHANGED <<chain, spans, allocated>>
      PROVE  Chained'
  <2>1. start \in Nat /\ start + n \in Nat
    BY PagesAssumption, MaxRequestAssumption
  <2>2. PICK turn \in 1 .. Len(items) + 1 :
          /\ NextSpan(items, start + n, turn)
          /\ \/ items' = AddRegion(items, turn, start, start + n) /\ ret' = Returned("vp_free", 0)
             \/ items' = items /\ ret' = Returned("vp_free", -1)
    BY <1>4 DEF VpFree
  <2>3. CASE items' = AddRegion(items, turn, start, start + n) /\ ret' = Returned("vp_free", 0)
    <3>1. ret'.val = 0
      BY <2>3 DEF Returned
    <3>2. LinkedFree(start, start + n)
      BY <1>4, <3>1
    <3> QED BY <2>1, <2>2, <2>3, <3>2, FreeChained
  <2>4. CASE items' = items /\ ret' = Returned("vp_free", -1)
    <3>1. ret'.val # 0
      BY <2>4 DEF Returned
    <3>2. UNCHANGED <<items, chain, spans, allocated>>
      BY <1>4, <2>4, <3>1
    <3> QED BY <3>2, UnchangedChained
  <2> QED BY <2>2, <2>3, <2>4
<1>5. ASSUME VpReset, LinkedReset
      PROVE  Chained'
  BY <1>5, ResetChained
<1>6. CASE UNCHANGED linkedVars
  <2>1. UNCHANGED <<items, chain, spans, allocated>>
    BY <1>6 DEF linkedVars
  <2> QED BY <1>1, <1>2, <2>1, UnchangedChained
<1> QED BY <1>1, <1>2, <1>3, <1>4, <1>5, <1>6 DEF LinkedNext

\* What the invariant says of the loops over the list.
LEMMA ChainedMeansList == IInv /\ Chained => FreelistChained
<1> SUFFICES ASSUME IInv, Chained PROVE FreelistChained
  OBVIOUS
<1>1. PICK s : Keeps(State(chain, spans, allocated), s, items)
  BY DEF Chained
<1>2. /\ Ordered(chain, s) /\ allocated = Range(s) /\ Len(items) = Len(s)
      /\ \A i \in 1 .. Len(s) : spans[s[i]] = items[i]
  BY <1>1, StateFields DEF Keeps
<1>3. ForEach(chain) = s /\ DOMAIN s = 1 .. Len(s)
  BY <1>2, ForEachMeetsAll, OrderedFacts
<1>4. items = [i \in 1 .. Len(s) |-> items[i]]
  BY <1>2 DEF IInv, TypeOK
<1>5. [i \in DOMAIN s |-> spans[s[i]]] = items
  BY <1>2, <1>3, <1>4
<1>6. Linked(chain, allocated)
  BY <1>2 DEF Ordered
<1> QED BY <1>2, <1>3, <1>5, <1>6 DEF FreelistChained

\* virtmem_alloc.c's free list, for any number of vp_spans and of pages: at
\* every moment between two calls the pointers of the LIST macros, back pointers
\* included, chain the spans VirtPageAlloc says, in its order, and exactly the
\* vp_spans that are allocated; no call leaks one or leaves a freed one reachable.
THEOREM ChainIsTheFreelist == LinkedSpec => []FreelistChained
<1>1. LinkedInit => IInv /\ Chained
  BY InitInv, InitChained DEF LinkedInit
<1>2. IInv /\ Chained /\ [LinkedNext]_linkedVars => (IInv /\ Chained)'
  BY LinkedNextInv
<1>3. IInv /\ Chained => FreelistChained
  BY ChainedMeansList
<1> QED BY <1>1, <1>2, <1>3, PTL DEF LinkedSpec

\* Beside the chain, the calls are those of VirtPageAlloc: what is proved of
\* that module holds here.
LEMMA LinkedIsVirtPageAlloc == LinkedSpec => Spec
<1>1. LinkedInit => IInv /\ Chained /\ Init
  BY InitInv, InitChained DEF LinkedInit
<1>2. IInv /\ Chained /\ [LinkedNext]_linkedVars => (IInv /\ Chained)' /\ [Next]_vars
  BY LinkedNextInv
<1> QED BY <1>1, <1>2, PTL DEF LinkedSpec, Spec
=============================================================================
