----------------------------- MODULE ListQueue -----------------------------
(***************************************************************************)
(* The LIST macros of include/dangless/queue.h: a linked list whose        *)
(* elements also hold the address of the pointer that points at them.      *)
(*                                                                         *)
(* next[ListHead] is lh_first and next[e] is e's le_next.  A le_prev is    *)
(* the address of one of these, so it is written as what holds it:         *)
(* prev[e] = d stands for &d->le_next, or for &head->lh_first when d is    *)
(* ListHead.                                                               *)
(***************************************************************************)
EXTENDS FiniteSets

CONSTANTS
  Elems,     \* the addresses of the elements there may be
  ListHead,  \* the head of the list
  Null,      \* LIST_END
  Wild       \* what the pointers of memory that is not allocated hold

ASSUME PointersAssumption ==
  /\ IsFiniteSet(Elems)
  /\ ListHead \notin Elems /\ Null \notin Elems /\ Wild \notin Elems
  /\ ListHead # Null /\ ListHead # Wild /\ Null # Wild

Lists == [next : [Elems \cup {ListHead} -> Elems \cup {Null, Wild}],
          prev : [Elems -> Elems \cup {ListHead, Wild}]]

\* A list as LIST_HEAD_INITIALIZER leaves it, and no element allocated.
NewList ==
  [next |-> [d \in Elems \cup {ListHead} |-> IF d = ListHead THEN Null ELSE Wild],
   prev |-> [e \in Elems |-> Wild]]

ListFirst(l) == l.next[ListHead]

ListNext(l, e) == l.next[e]

\* The pointer at d is assigned.
SetNext(l, d, e) == [l EXCEPT !.next[d] = e]

\* The back pointer of e is made the address of the pointer at d.
SetPrev(l, e, d) == [l EXCEPT !.prev[e] = d]

\* Mutant: the element that followed keeps its old back pointer.
ListInsertAfterOneWay(l, at, e) == SetPrev(SetNext(SetNext(l, e, l.next[at]), at, e), e, at)

ListInsertAfter(l, at, e) ==
  LET linked == SetPrev(SetNext(SetNext(l, e, l.next[at]), at, e), e, at)
  IN  IF l.next[at] # Null THEN SetPrev(linked, l.next[at], e) ELSE linked

ListInsertBefore(l, at, e) ==
  LET linked == SetNext(SetPrev(l, e, l.prev[at]), e, at)
  IN  SetPrev(SetNext(linked, l.prev[at], e), at, e)

ListInsertHead(l, e) ==
  LET linked == SetPrev(SetNext(SetNext(l, e, ListFirst(l)), ListHead, e), e, ListHead)
  IN  IF ListFirst(l) # Null THEN SetPrev(linked, ListFirst(l), e) ELSE linked

ListRemove(l, e) ==
  LET closed == IF l.next[e] # Null THEN SetPrev(l, l.next[e], l.prev[e]) ELSE l
  IN  SetNext(closed, l.prev[e], l.next[e])

\* The memory of an element goes back to the system allocator.
Forget(l, e) == SetPrev(SetNext(l, e, Wild), e, Wild)

-----------------------------------------------------------------------------

\* l holds exactly the elements `in`, as far as two neighbours can tell: every
\* pointer leads to an element of the list or ends it, the back pointer of an
\* element names the pointer that points at it, and no other pointer does.
Linked(l, in) ==
  /\ \A d \in in \cup {ListHead} : l.next[d] \in in \cup {Null}
  /\ \A e \in in : l.prev[e] \in in \cup {ListHead} /\ l.next[l.prev[e]] = e
  /\ \A d \in in \cup {ListHead} : l.next[d] # Null => l.prev[l.next[d]] = d
=============================================================================
