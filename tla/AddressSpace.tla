---------------------------- MODULE AddressSpace ----------------------------
(***************************************************************************)
(* What the page-table code promises its callers: an address space that is *)
(* a function from virtual pages to what they reach, as if there were no   *)
(* tables.  A call names a run of pages.  It changes those pages only, one *)
(* at a time, and when it returns all of them are as the call says: mapped *)
(* in order, or as they were if the mapping failed, or invalidated.        *)
(***************************************************************************)
EXTENDS Integers, FiniteSets

CONSTANTS
  Threads,
  Pages,        \* the virtual pages that may be mapped
  PhysStarts    \* the physical pages that a mapping may start with

VARIABLES
  space,        \* the physical page, or the state, of each virtual page
  call          \* per thread, the call it is in

vars == <<call, space>>

Unmapped == -1
Invalidated == -2

NoCall == [kind |-> "none", start |-> 0, n |-> 0, pa |-> 0]

\* The calls about a run of pages that dangless may map.
Calls ==
  LET runs == {r \in Pages \X (1 .. Cardinality(Pages)) :
                 r[1] .. r[1] + r[2] - 1 \subseteq Pages}
  IN  {[kind |-> "map", start |-> r[1], n |-> r[2], pa |-> pa] :
         r \in runs, pa \in PhysStarts}
      \cup {[kind |-> "invalidate", start |-> r[1], n |-> r[2], pa |-> 0] : r \in runs}

CallPages(c) == c.start .. c.start + c.n - 1

\* What the call makes of a page of its region.
Target(c, p) ==
  CASE c.kind = "map" -> c.pa + p - c.start
    [] c.kind = "undo" -> Unmapped
    [] c.kind = "invalidate" -> Invalidated

Init ==
  /\ space = [p \in Pages |-> Unmapped]
  /\ call = [t \in Threads |-> NoCall]

\* No two calls are about the same page, and only unmapped pages are mapped,
\* only mapped ones invalidated.
Begin(t) ==
  /\ call[t] = NoCall
  /\ \E c \in Calls :
       /\ call' = [call EXCEPT ![t] = c]
       /\ \A u \in Threads : CallPages(call[u]) \cap CallPages(c) = {}
       /\ \A p \in CallPages(c) :
            IF c.kind = "map" THEN space[p] = Unmapped ELSE space[p] \in Nat
  /\ UNCHANGED space

\* One page gets what the call promises for it.
Change(t) ==
  /\ UNCHANGED call
  /\ \E p \in CallPages(call[t]) : space' = [space EXCEPT ![p] = Target(call[t], p)]

GiveUp(t) ==
  /\ call[t].kind = "map"
  /\ call' = [call EXCEPT ![t].kind = "undo"]
  /\ UNCHANGED space

\* A call returns at or after its last change.
End(t) ==
  /\ call[t] # NoCall
  /\ call' = [call EXCEPT ![t] = NoCall]
  /\ \/ UNCHANGED space
     \/ \E p \in CallPages(call[t]) : space' = [space EXCEPT ![p] = Target(call[t], p)]
  /\ \A p \in CallPages(call[t]) : space'[p] = Target(call[t], p)

Next == \E t \in Threads : Begin(t) \/ Change(t) \/ GiveUp(t) \/ End(t)

Spec == Init /\ [][Next]_vars
=============================================================================
