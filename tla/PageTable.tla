----------------------------- MODULE PageTable ------------------------------
(***************************************************************************)
(* The page tables: pt_walk, pt_resolve, pt_map_region and pt_unmap_page   *)
(* of virtmem.c, and virtual_invalidate of dangless_malloc.c, on the tree  *)
(* of tables itself.                                                       *)
(*                                                                         *)
(* Addresses are virtual page numbers.  A table is a frame with FanOut     *)
(* entries; an entry is zero, PTE_INVALIDATED, a table of the next level,  *)
(* or a page: of 4 KB at level 1, a huge one (PTE_PS) above it.  The lower *)
(* half of the address space is the program's: identity-mapped with huge   *)
(* pages.  The virtual page allocator hands out runs of RemapPages.        *)
(*                                                                         *)
(* pt_map_page holds g_pt_mapping_mutex; pt_unmap_page, virtual_invalidate *)
(* and the walks do not.  A step reads a path or writes one entry.  Each   *)
(* thread runs on a processor of its own, whose TLB holds one translation  *)
(* (a bound of this model) that the processor may fill in at any time.     *)
(***************************************************************************)
EXTENDS Integers, FiniteSets

CONSTANTS
  Threads,
  FanOut,       \* PT_NUM_ENTRIES
  NumFrames,    \* frames of Dune's page allocator
  RemapPages,   \* virtual pages that dangless may use
  PhysStarts,   \* physical pages where a chunk may start
  CachedPages,  \* bound: the pages whose translations the TLBs may hold
  NoThread

Levels == 4

\* The frame CR3 points to, the level 3 table of the program's pages, and the
\* frames of the page allocator, in the order in which it returns them.
Root == 0
Low == 1
PoolFrames == 2 .. NumFrames + 1
Frames == 0 .. NumFrames + 1

Pages == 0 .. FanOut * FanOut * FanOut * FanOut - 1

\* Pages that an entry of the level maps.
Mapped(level) ==
  <<1, FanOut, FanOut * FanOut, FanOut * FanOut * FanOut>>[level]

\* The first entry of the root is the program's.
ProgramPages == 0 .. Mapped(Levels) - 1

ASSUME TreeAssumption ==
  /\ FanOut \in Nat \ {0, 1}
  /\ NumFrames \in Nat
  /\ NoThread \notin Threads
  /\ RemapPages \subseteq Pages \ ProgramPages
  /\ IsFiniteSet(RemapPages)
  /\ \A pa \in PhysStarts : pa \in Nat /\ pa + Cardinality(RemapPages) \in Pages
  /\ CachedPages \subseteq RemapPages

VARIABLES
  table,        \* the entries of every frame
  pool,         \* the frames Dune's page allocator has left
  lock,         \* who holds g_pt_mapping_mutex
  tlb,          \* per thread, the translation its processor has cached
  fresh,        \* the pages the virtual page allocator may hand out
  mapped,       \* the regions in use
  op            \* per thread, the call it is in

vars == <<table, pool, lock, tlb, fresh, mapped, op>>

Zero == [kind |-> "zero"]
Marker == [kind |-> "marker"]
Garbage == [kind |-> "garbage"]   \* what a frame holds before it is zeroed
Table(f) == [kind |-> "table", frame |-> f]
Page(p) == [kind |-> "page", page |-> p]

NoSlot == <<Root, 0>>

Region(start, n, pa) == [start |-> start, n |-> n, pa |-> pa]

RegionPages(r) == r.start .. r.start + r.n - 1

Idle == [pc |-> "idle", start |-> 0, n |-> 0, pa |-> 0, i |-> 0, end |-> 0,
         level |-> Levels, slot |-> NoSlot]

Slots == Frames \X (0 .. FanOut - 1)

\* Where a walk may be.
Steps == [level : 1 .. Levels, slot : Slots]

Entries ==
  {Zero, Marker, Garbage} \cup {Table(f) : f \in Frames} \cup {Page(p) : p \in Pages}

\* Where a call may be.
CallStates ==
  [pc : {"idle", "map", "level", "unmap", "walk", "invalidate"}, start : Pages,
   n : Nat, pa : Pages, i : Nat, end : Nat, level : 1 .. Levels, slot : Slots]

TypeOK ==
  /\ table \in [Frames -> [0 .. FanOut - 1 -> Entries]]
  /\ pool \subseteq PoolFrames
  /\ lock \in Threads \cup {NoThread}
  /\ tlb \in [Threads -> SUBSET (Pages \X Nat)]
  /\ fresh \subseteq RemapPages
  /\ mapped \subseteq [start : RemapPages, n : Nat, pa : Pages]
  /\ op \in [Threads -> CallStates]

\* The tree that Dune has set up.
InitialEntry(f, i) ==
  IF f = Root THEN IF i = 0 THEN Table(Low) ELSE Zero
  ELSE IF f = Low THEN Page(i * Mapped(3)) ELSE Garbage

Init ==
  /\ table = [f \in Frames |-> [i \in 0 .. FanOut - 1 |-> InitialEntry(f, i)]]
  /\ pool = PoolFrames
  /\ lock = NoThread
  /\ tlb = [t \in Threads |-> {}]
  /\ fresh = RemapPages
  /\ mapped = {}
  /\ op = [t \in Threads |-> Idle]

-----------------------------------------------------------------------------
(* Walks. *)

\* pt_level_offset
Index(page, level) == (page \div Mapped(level)) % FanOut

Entry(slot) == table[slot[1]][slot[2]]

\* The entry of the table f that a walk for the page looks at.
At(page, f, level) == [level |-> level, slot |-> <<f, Index(page, level)>>]

\* pt_walk: the last entry on the way down, and its level.  A step goes one
\* level down, unless the walk ends where it is.
Walk(page, requested) ==
  LET down == [w \in Steps |->
                 IF Entry(w.slot).kind = "table" /\ w.level > requested
                 THEN At(page, Entry(w.slot).frame, w.level - 1)
                 ELSE w]
  IN  down[down[down[At(page, Root, Levels)]]]

Leaf(page) == Entry(Walk(page, 1).slot)

\* pt_resolve: the physical page, if the page is mapped.  Garbage reaches no
\* page that anybody meant.
Resolve(page) ==
  LET w == Walk(page, 1)
      e == Entry(w.slot)
  IN  CASE e.kind = "page" -> e.page + (page % Mapped(w.level))
        [] e.kind = "marker" -> -2
        [] e.kind = "zero" -> -1
        [] OTHER -> -3

\* What dangless_pagefault_handler tells the user about a page.
ReportsDangling(page) == Leaf(page) = Marker

Set(slot, e) == table' = [table EXCEPT ![slot[1]][slot[2]] = e]

Moves(t, frame) == op' = [op EXCEPT ![t] = frame]

Returns(t) == Moves(t, Idle)

\* tlb_flush_one, on the processor that executes it.
Flush(t, page) == tlb' = [tlb EXCEPT ![t] = {e \in @ : e[1] # page}]

\* The processor of t walks the tables itself and caches what it finds.
FillTlb(t, page) ==
  /\ Leaf(page).kind = "page"
  /\ tlb' = [tlb EXCEPT ![t] = {<<page, Resolve(page)>>}]
  /\ UNCHANGED <<table, pool, lock, fresh, mapped, op>>

-----------------------------------------------------------------------------
(* pt_map_region, on a run of pages that vp_alloc returned. *)

MapRegion(t, start, n, pa) ==
  /\ op[t] = Idle
  /\ RegionPages(Region(start, n, pa)) \subseteq fresh
  /\ fresh' = fresh \ RegionPages(Region(start, n, pa))
  /\ Moves(t, [Idle EXCEPT !.pc = "map", !.start = start, !.n = n, !.pa = pa])
  /\ UNCHANGED <<table, pool, lock, tlb, mapped>>

\* The page a loop over the region is at.
Current(t) == op[t].start + op[t].i

\* Mutant: pt_map_page does not take the mutex.
LockAndWalkUnlocked(t) ==
  /\ op[t].pc = "map" /\ op[t].i < op[t].n
  /\ LET w == Walk(Current(t), 1)
     IN  Moves(t, [op[t] EXCEPT !.pc = "level", !.level = w.level, !.slot = w.slot])
  /\ UNCHANGED <<table, pool, lock, tlb, fresh, mapped>>

\* pt_map_page takes the mutex and walks to where the tables end.
LockAndWalk(t) ==
  /\ op[t].pc = "map" /\ op[t].i < op[t].n
  /\ lock = NoThread /\ lock' = t
  /\ LET w == Walk(Current(t), 1)
     IN  Moves(t, [op[t] EXCEPT !.pc = "level", !.level = w.level, !.slot = w.slot])
  /\ UNCHANGED <<table, pool, tlb, fresh, mapped>>

\* pp_alloc: the first frame of the free list.
IsNextFrame(f) == \A g \in pool : f <= g

\* Mutant: the table is linked before it is zeroed, which nobody does.
CreateLevelDirty(t) ==
  /\ op[t].pc = "level" /\ op[t].level > 1
  /\ \E f \in pool :
       /\ IsNextFrame(f) /\ pool' = pool \ {f}
       /\ Set(op[t].slot, Table(f))
       /\ Moves(t, [op[t] EXCEPT !.level = @ - 1,
                      !.slot = <<f, Index(Current(t), op[t].level - 1)>>])
  /\ UNCHANGED <<lock, tlb, fresh, mapped>>

\* Mutant: pt_map_page_create_level does not move *pppte down.
CreateLevelInPlace(t) ==
  /\ op[t].pc = "level" /\ op[t].level > 1
  /\ \E f \in pool :
       /\ IsNextFrame(f) /\ pool' = pool \ {f}
       /\ table' = [table EXCEPT ![f] = [i \in 0 .. FanOut - 1 |-> Zero],
                                 ![op[t].slot[1]][op[t].slot[2]] = Table(f)]
       /\ Moves(t, [op[t] EXCEPT !.level = @ - 1])
  /\ UNCHANGED <<lock, tlb, fresh, mapped>>

\* pt_map_page_create_level: a zeroed frame becomes the table one level down.
CreateLevel(t) ==
  /\ op[t].pc = "level" /\ op[t].level > 1
  /\ \E f \in pool :
       /\ IsNextFrame(f) /\ pool' = pool \ {f}
       /\ table' = [table EXCEPT ![f] = [i \in 0 .. FanOut - 1 |-> Zero],
                                 ![op[t].slot[1]][op[t].slot[2]] = Table(f)]
       /\ Moves(t, [op[t] EXCEPT !.level = @ - 1,
                      !.slot = <<f, Index(Current(t), op[t].level - 1)>>])
  /\ UNCHANGED <<lock, tlb, fresh, mapped>>

\* Mutant: fail_cleanup returns with the mutex held.
CreateLevelFailsLocked(t) ==
  /\ op[t].pc = "level" /\ op[t].level > 1
  /\ Moves(t, [op[t] EXCEPT !.pc = "unmap", !.n = op[t].i, !.i = 0,
                 !.level = Levels, !.slot = NoSlot, !.end = op[t].n])
  /\ UNCHANGED <<table, pool, lock, tlb, fresh, mapped>>

\* There is no frame, Dune being a user of them as well: the tables made so
\* far stay, and pt_map_region undoes the pages before this one.  `end` keeps
\* the size of the region, for the caller gives all of it back.
CreateLevelFails(t) ==
  /\ op[t].pc = "level" /\ op[t].level > 1
  /\ lock' = NoThread
  /\ Moves(t, [op[t] EXCEPT !.pc = "unmap", !.n = op[t].i, !.i = 0,
                 !.level = Levels, !.slot = NoSlot, !.end = op[t].n])
  /\ UNCHANGED <<table, pool, tlb, fresh, mapped>>

\* The entry is written and the mutex released.
WriteEntry(t) ==
  /\ op[t].pc = "level" /\ op[t].level = 1
  /\ Set(op[t].slot, Page(op[t].pa + op[t].i))
  /\ lock' = NoThread
  /\ Moves(t, [op[t] EXCEPT !.pc = "map", !.i = @ + 1, !.level = Levels, !.slot = NoSlot])
  /\ UNCHANGED <<pool, tlb, fresh, mapped>>

RegionMapped(t) ==
  /\ op[t].pc = "map" /\ op[t].i = op[t].n
  /\ mapped' = mapped \cup {Region(op[t].start, op[t].n, op[t].pa)}
  /\ Returns(t)
  /\ UNCHANGED <<table, pool, lock, tlb, fresh>>

\* Mutant: pt_unmap_page leaves the marker of invalidated pages.
UnmapPageWithMarker(t) ==
  /\ op[t].pc = "unmap" /\ op[t].i < op[t].n
  /\ Set(Walk(Current(t), 1).slot, Marker)
  /\ Flush(t, Current(t))
  /\ Moves(t, [op[t] EXCEPT !.i = @ + 1])
  /\ UNCHANGED <<pool, lock, fresh, mapped>>

\* pt_unmap_page, without the mutex.  It fails if the walk ends above level 1.
UnmapPage(t) ==
  /\ op[t].pc = "unmap" /\ op[t].i < op[t].n
  /\ LET w == Walk(Current(t), 1)
     IN  IF w.level = 1
         THEN Set(w.slot, Zero) /\ Flush(t, Current(t))
         ELSE UNCHANGED <<table, tlb>>
  /\ Moves(t, [op[t] EXCEPT !.i = @ + 1])
  /\ UNCHANGED <<pool, lock, fresh, mapped>>

\* The caller gives the pages back to the virtual page allocator.
RegionFailed(t) ==
  /\ op[t].pc = "unmap" /\ op[t].i = op[t].n
  /\ fresh' = fresh \cup RegionPages(Region(op[t].start, op[t].end, op[t].pa))
  /\ Returns(t)
  /\ UNCHANGED <<table, pool, lock, tlb, mapped>>

-----------------------------------------------------------------------------
(* virtual_invalidate: all of a region, or its tail when realloc shrinks. *)

InvalidateTail(t, r, from) ==
  /\ op[t] = Idle
  /\ mapped' = (mapped \ {r}) \cup (IF from = 0 THEN {} ELSE {Region(r.start, from, r.pa)})
  /\ Moves(t, [Idle EXCEPT !.pc = "walk", !.start = r.start + from, !.n = r.n - from])
  /\ UNCHANGED <<table, pool, lock, tlb, fresh>>

\* Mutant: the run of entries is not cut at the end of the table.
WalkToRunUncut(t) ==
  /\ op[t].pc = "walk" /\ op[t].i < op[t].n
  /\ Moves(t, [op[t] EXCEPT !.pc = "invalidate", !.end = op[t].n,
                 !.slot = Walk(Current(t), 1).slot])
  /\ UNCHANGED <<table, pool, lock, tlb, fresh, mapped>>

\* One walk serves the neighbouring entries of the same table.
WalkToRun(t) ==
  /\ op[t].pc = "walk" /\ op[t].i < op[t].n
  /\ LET slot == Walk(Current(t), 1).slot
         rest == op[t].n - op[t].i
         room == FanOut - Index(Current(t), 1)
     IN  Moves(t, [op[t] EXCEPT !.pc = "invalidate", !.slot = slot,
                     !.end = op[t].i + (IF rest < room THEN rest ELSE room)])
  /\ UNCHANGED <<table, pool, lock, tlb, fresh, mapped>>

\* What follows an entry: the next entry of the run, or another walk.
AfterEntry(t) ==
  IF op[t].i + 1 < op[t].end
  THEN [op[t] EXCEPT !.i = @ + 1, !.slot = <<@[1], @[2] + 1>>]
  ELSE [op[t] EXCEPT !.pc = "walk", !.i = @ + 1, !.end = 0, !.slot = NoSlot]

\* Mutant: the TLB is not flushed.
InvalidateEntryOnly(t) ==
  /\ op[t].pc = "invalidate"
  /\ Set(op[t].slot, Marker)
  /\ Moves(t, AfterEntry(t))
  /\ UNCHANGED <<pool, lock, tlb, fresh, mapped>>

InvalidateEntry(t) ==
  /\ op[t].pc = "invalidate"
  /\ Set(op[t].slot, Marker)
  /\ Flush(t, Current(t))
  /\ Moves(t, AfterEntry(t))
  /\ UNCHANGED <<pool, lock, fresh, mapped>>

Invalidated(t) ==
  /\ op[t].pc = "walk" /\ op[t].i = op[t].n
  /\ Returns(t)
  /\ UNCHANGED <<table, pool, lock, tlb, fresh, mapped>>

-----------------------------------------------------------------------------

Call(t) ==
  \/ \E start \in RemapPages, n \in 1 .. Cardinality(RemapPages), pa \in PhysStarts :
       MapRegion(t, start, n, pa)
  \/ \E r \in mapped : \E from \in 0 .. r.n - 1 : InvalidateTail(t, r, from)

Step(t) ==
  \/ LockAndWalk(t) \/ CreateLevel(t) \/ CreateLevelFails(t) \/ WriteEntry(t)
  \/ RegionMapped(t) \/ UnmapPage(t) \/ RegionFailed(t)
  \/ WalkToRun(t) \/ InvalidateEntry(t) \/ Invalidated(t)

Next ==
  \E t \in Threads :
    \/ Call(t) \/ Step(t)
    \/ \E p \in CachedPages : FillTlb(t, p)

Spec == Init /\ [][Next]_vars

-----------------------------------------------------------------------------
(***************************************************************************)
(* Properties                                                              *)
(***************************************************************************)

\* The entries that point to the table f.
LinksTo(f) == {s \in Slots : s[1] \notin pool /\ Entry(s) = Table(f)}

\* The tables are a tree and no frame is lost: a frame is with the page
\* allocator, or exactly one entry leads to it.  The tables of a mapping that
\* failed half-way are kept in the tree, where the next mapping finds them, and
\* two threads never build the same part of it.
TablesFormTree ==
  /\ LinksTo(Root) = {}
  /\ Cardinality(LinksTo(Low)) = 1
  /\ \A f \in PoolFrames : Cardinality(LinksTo(f)) = IF f \in pool THEN 0 ELSE 1

\* Pages in the hands of a call.
InCall(p) ==
  \E t \in Threads :
    /\ op[t].pc # "idle"
    /\ p \in op[t].start .. op[t].start + (IF op[t].pc = "unmap" THEN op[t].end ELSE op[t].n) - 1

\* An access is refused exactly when the program may not make it, and the
\* message of the page-fault handler is right: the pages of a region in use
\* reach their own memory, an access to one that was freed is reported as a
\* dangling pointer, and one to a page that was never used, or only by a
\* mapping that failed, is not.  Pages that are not dangless's business keep
\* the mapping they had.
AccessesJudgedRight ==
  \A p \in Pages :
    \/ InCall(p)
    \/ p \in ProgramPages /\ Resolve(p) = p
    \/ /\ p \notin RemapPages \ fresh /\ p \notin ProgramPages
       /\ Resolve(p) = -1 /\ ~ReportsDangling(p)
    \/ \E r \in mapped : p \in RegionPages(r) /\ Resolve(p) = r.pa + p - r.start
    \/ /\ p \in RemapPages \ fresh /\ \A r \in mapped : p \notin RegionPages(r)
       /\ ReportsDangling(p)

\* The mutex is held exactly while a thread creates tables or writes an entry,
\* one thread at a time, and the path that fails releases it: otherwise no thread
\* could map a page again.
MutexReleased == \A t \in Threads : lock = t <=> op[t].pc = "level"

\* A mapping never replaces a table, and every page that is invalidated has an
\* entry of its own in a table of the lowest level.
TablesFound ==
  \A t \in Threads :
    /\ op[t].pc = "level" => Entry(op[t].slot).kind # "table"
    /\ op[t].pc = "walk" /\ op[t].i < op[t].n => Walk(Current(t), 1).level = 1

\* What pt_map_page and virtual_invalidate assert, and builds without assertions
\* rely on: a mapping replaces neither a table nor a page, and virtual_invalidate
\* finds an entry of the lowest level that still maps the page.
AssertionsHold ==
  /\ TablesFound
  /\ \A t \in Threads :
       /\ op[t].pc = "level" => Entry(op[t].slot).kind # "page"
       /\ op[t].pc = "walk" /\ op[t].i < op[t].n => Leaf(Current(t)).kind = "page"

\* A thread that unmaps or invalidates a page does not reach the page's memory
\* through its own TLB afterwards.  (Other processors are not flushed.)
FlushesWhatItChanges ==
  [][\A t \in Threads : op'[t] # op[t] =>
       \A p \in RemapPages :
         Resolve(p) >= 0 /\ Resolve(p)' < 0 => \A e \in tlb'[t] : e[1] # p]_vars

\* The tables implement a flat address space, whatever the callers do
\* concurrently: making a table changes no translation, a call changes the
\* pages of its own region only, in tables it shares with others too, and has
\* done all it promised when it returns.
CallOf(t) ==
  LET kind == CASE op[t].pc = "idle" -> "none"
                [] op[t].pc \in {"map", "level"} -> "map"
                [] op[t].pc = "unmap" -> "undo"
                [] OTHER -> "invalidate"
  IN  [kind |-> kind, start |-> op[t].start, pa |-> op[t].pa,
       n |-> IF op[t].pc = "unmap" THEN op[t].end ELSE op[t].n]

Flat == INSTANCE AddressSpace WITH
  Pages <- RemapPages,
  space <- [p \in RemapPages |-> Resolve(p)],
  call <- [t \in Threads |-> CallOf(t)]

ImplementsAddressSpace == Flat!Spec
=============================================================================
