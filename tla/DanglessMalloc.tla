--------------------------- MODULE DanglessMalloc ---------------------------
(***************************************************************************)
(* The allocator itself: dangless_malloc.c over the Dune platform          *)
(* (virtual_remap.c, virtmem.c) and the free list of virtmem_alloc.c.      *)
(*                                                                         *)
(* An allocation gets a chunk from the system allocator and a second,      *)
(* fresh run of virtual pages that alias the chunk's physical pages; the   *)
(* program sees the alias.  Freeing invalidates the alias for good before  *)
(* the chunk goes back to the system allocator.                            *)
(*                                                                         *)
(* An address counts units, PageSize units to a page and EntryPages pages  *)
(* to an entry of the PML4.  Entry 0 is the program's: its pages are       *)
(* identity-mapped and hold the system allocator's heap.  The program may  *)
(* use others of entries 1 .. NumEntries; dangless may take the rest.      *)
(*                                                                         *)
(* A thread is somewhere inside one call (op[t]); a step is what it does   *)
(* under one mutex, or to one page-table entry.                            *)
(***************************************************************************)
EXTENDS VpFreelist, FiniteSets

CONSTANTS
  Threads,      \* the threads of the program
  PageSize,     \* units in a page
  EntryPages,   \* pages that one PML4 entry maps
  NumEntries,   \* the last entry of the PML4
  ProgramEntries, \* PML4 entries the program uses
  MaxLen,       \* bound on the usable size of a chunk, in units
  AutoDedicate, \* DANGLESS_CONFIG_AUTO_DEDICATE_PML4ES
  UserRegions,  \* spans of pages the program passes to dangless_dedicate_vmem
  ReallocToZero \* whether the program calls realloc(p, 0)

ASSUME SizesAssumption ==
  /\ PageSize \in Nat \ {0} /\ EntryPages \in Nat \ {0}
  /\ NumEntries \in Nat /\ MaxLen \in Nat \ {0}
  /\ 0 \in ProgramEntries /\ ProgramEntries \subseteq 0 .. NumEntries

ASSUME SwitchesAssumption ==
  /\ AutoDedicate \in BOOLEAN /\ ReallocToZero \in BOOLEAN

HeapUnits == 0 .. EntryPages * PageSize - 1

HeapPages == 0 .. EntryPages - 1

VirtPages == EntryPages .. (NumEntries + 1) * EntryPages - 1

ASSUME UserRegionsAssumption ==
  \A r \in UserRegions : r \in Span /\ SpanPages(r) # {} /\ SpanPages(r) \subseteq VirtPages

VARIABLES
  inDune,       \* in_kernel_mode(): dangless_init has entered Dune
  heap,         \* the chunks the system allocator has handed out
  items,        \* g_freelist_main.items
  pte,          \* the level 1 entry of each virtual page
  tables,       \* per PML4 entry, how many levels of tables exist below it
  once,         \* g_auto_dedicate_once
  happened,     \* g_auto_dedicate_happened
  given,        \* the user regions dedicated so far
  live,         \* the pointers the program holds, with the chunk behind each
  abandoned,    \* history: pages of the aliases that realloc(p, 0) left behind
  op            \* per thread, the call it is in

vars == <<inDune, heap, items, pte, tables, once, happened, given, live, abandoned, op>>

allocVars == <<heap, live>>
virtVars == <<items, pte, tables>>
dedicateVars == <<once, happened, given>>

Unmapped == -1      \* a zero entry
Invalidated == -2   \* PTE_INVALIDATED

Chunk(base, len, zero) == [base |-> base, len |-> len, zero |-> zero]

Pointer(ptr, base) == [ptr |-> ptr, base |-> base]

Frame == [pc : {"idle", "vp_alloc", "no_vm", "once", "dedicate", "map", "unmap",
                "vp_free", "invalidate", "sysfree", "sysrealloc"},
          base : HeapUnits, ptr : Nat, page : Nat, i : Nat, n : Nat,
          then : {"", "sysfree", "vp_alloc", "return"}]

Idle == [pc |-> "idle", base |-> 0, ptr |-> 0, page |-> 0, i |-> 0, n |-> 0,
         then |-> ""]

TypeOK ==
  /\ inDune \in BOOLEAN
  /\ heap \subseteq [base : HeapUnits, len : 1 .. MaxLen, zero : BOOLEAN]
  /\ items \in Seq(Span)
  /\ pte \in [VirtPages -> HeapPages \cup {Unmapped, Invalidated}]
  /\ tables \in [0 .. NumEntries -> 0 .. 3]
  /\ once \in {"new", "running", "done"}
  /\ happened \in BOOLEAN
  /\ given \subseteq UserRegions
  /\ live \subseteq [ptr : Nat, base : HeapUnits]
  /\ abandoned \subseteq VirtPages
  /\ op \in [Threads -> Frame]

Init ==
  /\ inDune = FALSE
  /\ heap = {}
  /\ items = <<>>
  /\ pte = [p \in VirtPages |-> Unmapped]
  /\ tables = [e \in 0 .. NumEntries |-> IF e \in ProgramEntries THEN 3 ELSE 0]
  /\ once = "new"
  /\ happened = FALSE
  /\ given = {}
  /\ live = {}
  /\ abandoned = {}
  /\ op = [t \in Threads |-> Idle]

-----------------------------------------------------------------------------
(* Addresses and pages. *)

PageOf(addr) == addr \div PageSize

OffsetIn(addr) == addr % PageSize

AddressOf(page) == page * PageSize

\* Mutant: ROUND_UP moves an aligned address to the next page.
RoundUpAligned(addr) == AddressOf(PageOf(addr + PageSize))

RoundUp(addr) == AddressOf(PageOf(addr + PageSize - 1))

SpannedPages(addr, len) == PageOf(RoundUp(addr + len)) - PageOf(addr)

EntryOf(page) == page \div EntryPages

Units(chunk) == chunk.base .. chunk.base + chunk.len - 1

HasChunk(base) == \E c \in heap : c.base = base

ChunkAt(base) == CHOOSE c \in heap : c.base = base

\* The pages of [ptr, ptr + usable size) for the chunk at base, if it exists.
Footprint(ptr, base) ==
  {PageOf(ptr + u - base) : u \in UNION {Units(c) : c \in {d \in heap : d.base = base}}}

\* NUM_SPANNED_PAGES over the usable size of the chunk.
ChunkPages(base) == SpannedPages(base, ChunkAt(base).len)

\* vremap_resolve: a page walk finds memory that is not where the identity
\* mapping puts it.
Remapped(ptr) == PageOf(ptr) \in VirtPages /\ pte[PageOf(ptr)] \in HeapPages

Resolve(ptr) ==
  IF Remapped(ptr) THEN AddressOf(pte[PageOf(ptr)]) + OffsetIn(ptr) ELSE ptr

Moves(t, frame) == op' = [op EXCEPT ![t] = frame]

\* The call returns, and the program holds the pointers in `got`.
Returns(t, got) == Moves(t, Idle) /\ live' = live \cup got

Remap(base) == [Idle EXCEPT !.pc = "vp_alloc", !.base = base]

-----------------------------------------------------------------------------
(* The system allocator, as glibc's: any free place may be used. *)

FitsHeap(chunk, chunks) ==
  /\ Units(chunk) \subseteq HeapUnits
  /\ \A c \in chunks : Units(chunk) \cap Units(c) = {}

\* The chunks a request may be served with: a request for 0 units gets one of
\* the smallest size, and a usable size may exceed the request.
ChunksFor(zero, chunks) ==
  {c \in {Chunk(base, len, zero) : base \in HeapUnits, len \in 1 .. MaxLen} :
     FitsHeap(c, chunks) /\ (zero => c.len = 1)}

-----------------------------------------------------------------------------
(***************************************************************************)
(* Set-up: dangless_init enters Dune before main, hence before there are   *)
(* other threads; what was allocated earlier is not remapped.              *)
(***************************************************************************)

EnterDune ==
  /\ ~inDune
  /\ \A t \in Threads : op[t] = Idle
  /\ inDune' = TRUE
  /\ UNCHANGED <<allocVars, abandoned, virtVars, dedicateVars, op>>

\* vp_free of [start, end): the list takes it, or MALLOC(struct vp_span) fails
\* and the pages are lost to the allocator.
GivePages(start, end) ==
  \E next \in 1 .. Len(items) + 1 :
    /\ NextSpan(items, end, next)
    /\ \/ items' = AddRegion(items, next, start, end)
       \/ NeedsNewSpan(items, next, start, end) /\ UNCHANGED items

\* dangless_dedicate_vmem, for memory of the program's choice.  The program
\* names each region once, and before dangless has dedicated any itself.
DedicateVmem(t, region) ==
  /\ op[t] = Idle
  /\ region \notin given /\ once = "new"
  /\ given' = given \cup {region}
  /\ GivePages(region.start, region.end)
  /\ UNCHANGED <<inDune, abandoned, allocVars, pte, tables, once, happened, op>>

-----------------------------------------------------------------------------
(***************************************************************************)
(* malloc, calloc, posix_memalign and realloc(NULL, n): a chunk from the   *)
(* system allocator, then do_vremap.  The system allocator is taken at its *)
(* word; what its proxies really call is the business of Bootstrap.        *)
(***************************************************************************)

Allocate(t) ==
  /\ op[t] = Idle
  /\ \E zero \in BOOLEAN : \E c \in ChunksFor(zero, heap) :
       /\ heap' = heap \cup {c}
       /\ \/ ~inDune /\ Returns(t, {Pointer(c.base, c.base)})
          \/ inDune /\ zero /\ UNCHANGED <<live, op>>
          \/ inDune /\ ~zero /\ Moves(t, Remap(c.base)) /\ UNCHANGED live
  /\ UNCHANGED <<inDune, abandoned, virtVars, dedicateVars>>

\* The system allocator has no memory: the call returns NULL.
AllocateFails(t) == op[t] = Idle /\ UNCHANGED vars

\* vremap_map up to vp_alloc.
VpAlloc(t) ==
  /\ op[t].pc = "vp_alloc"
  /\ \/ \E k \in DOMAIN items :
          /\ FirstFit(items, ChunkPages(op[t].base), k)
          /\ items' = TakeFrom(items, k, ChunkPages(op[t].base))
          /\ Moves(t, [op[t] EXCEPT !.pc = "map", !.page = items[k].start])
     \/ /\ NoFit(items, ChunkPages(op[t].base))
        /\ Moves(t, [op[t] EXCEPT !.pc = "no_vm"])
        /\ UNCHANGED items
  /\ UNCHANGED <<inDune, abandoned, allocVars, pte, tables, dedicateVars>>

\* Mutant: do_vremap falls back without trying to dedicate.
FallBackAtOnce(t) ==
  /\ op[t].pc = "no_vm"
  /\ Returns(t, {Pointer(op[t].base, op[t].base)})
  /\ UNCHANGED <<inDune, abandoned, heap, virtVars, dedicateVars>>

\* EVREM_NO_VM: the flag is read without a lock.  Falling back hands the
\* chunk itself to the program.
NoVirtualMemory(t) ==
  /\ op[t].pc = "no_vm"
  /\ IF AutoDedicate /\ ~happened
     THEN Moves(t, [op[t] EXCEPT !.pc = "once"]) /\ UNCHANGED live
     ELSE Returns(t, {Pointer(op[t].base, op[t].base)})
  /\ UNCHANGED <<inDune, abandoned, heap, virtVars, dedicateVars>>

\* Mutant: auto_dedicate_vmem is called without pthread_once.
DedicateEachTime(t) ==
  /\ op[t].pc = "once"
  /\ once' = "running"
  /\ Moves(t, [op[t] EXCEPT !.pc = "dedicate"])
  /\ UNCHANGED <<inDune, abandoned, allocVars, virtVars, happened, given>>

\* pthread_once: one thread runs auto_dedicate_vmem, the others wait for it.
DedicateOnce(t) ==
  /\ op[t].pc = "once"
  /\ \/ /\ once = "new"
        /\ once' = "running"
        /\ Moves(t, [op[t] EXCEPT !.pc = "dedicate"])
     \/ /\ once = "done"
        /\ Moves(t, Remap(op[t].base))
        /\ UNCHANGED once
  /\ UNCHANGED <<inDune, abandoned, allocVars, virtVars, happened, given>>

\* Mutant: only the entry of the heap is left alone.
EntryOfHeap(e) == e = 0

EntryInUse(e) == tables[e] > 0

\* One turn of the loop of auto_dedicate_vmem; a failure to dedicate an entry
\* is not reported.
DedicateEntry(t) ==
  /\ op[t].pc = "dedicate" /\ op[t].i <= NumEntries
  /\ IF EntryInUse(op[t].i)
     THEN UNCHANGED items
     ELSE GivePages(op[t].i * EntryPages, (op[t].i + 1) * EntryPages)
  /\ Moves(t, [op[t] EXCEPT !.i = @ + 1])
  /\ UNCHANGED <<inDune, abandoned, allocVars, pte, tables, dedicateVars>>

\* Mutant: g_auto_dedicate_happened is never set.
DedicateDoneUnnoticed(t) ==
  /\ op[t].pc = "dedicate" /\ op[t].i > NumEntries
  /\ once' = "done"
  /\ Moves(t, Remap(op[t].base))
  /\ UNCHANGED <<inDune, abandoned, allocVars, virtVars, happened, given>>

DedicateDone(t) ==
  /\ op[t].pc = "dedicate" /\ op[t].i > NumEntries
  /\ happened' = TRUE
  /\ once' = "done"
  /\ Moves(t, Remap(op[t].base))
  /\ UNCHANGED <<inDune, abandoned, allocVars, virtVars, given>>

-----------------------------------------------------------------------------
(* pt_map_region: page by page, and undone page by page if a table is missing. *)

\* Mutant: every page of the region is mapped to the first physical page.
FirstBackingPage(t) == PageOf(op[t].base)

\* The physical page behind the page being mapped: pa + offset.
BackingPage(t) == PageOf(op[t].base) + op[t].i

\* pt_map_page creates the missing levels of tables and writes the entry.
MapPage(t) ==
  LET page == op[t].page + op[t].i
  IN  /\ op[t].pc = "map"
      /\ pte' = [pte EXCEPT ![page] = BackingPage(t)]
      /\ tables' = [tables EXCEPT ![EntryOf(page)] = 3]
      /\ IF op[t].i + 1 < ChunkPages(op[t].base)
         THEN Moves(t, [op[t] EXCEPT !.i = @ + 1]) /\ UNCHANGED live
         ELSE Returns(t, {Pointer(AddressOf(op[t].page) + OffsetIn(op[t].base),
                                  op[t].base)})
      /\ UNCHANGED <<inDune, abandoned, heap, items, dedicateVars>>

\* Mutant: pt_map_region returns without undoing what it mapped.
MapPageFailsHalfway(t) ==
  LET e == EntryOf(op[t].page + op[t].i)
  IN  /\ op[t].pc = "map"
      /\ \E made \in tables[e] .. 2 : tables' = [tables EXCEPT ![e] = made]
      /\ Moves(t, [op[t] EXCEPT !.pc = "vp_free", !.i = 0])
      /\ UNCHANGED <<inDune, abandoned, allocVars, items, pte, dedicateVars>>

\* pp_zalloc fails before all of the levels exist; those made so far stay.
MapPageFails(t) ==
  LET e == EntryOf(op[t].page + op[t].i)
  IN  /\ op[t].pc = "map"
      /\ \E made \in tables[e] .. 2 : tables' = [tables EXCEPT ![e] = made]
      /\ Moves(t, [op[t] EXCEPT !.pc = "unmap", !.n = op[t].i, !.i = 0])
      /\ UNCHANGED <<inDune, abandoned, allocVars, items, pte, dedicateVars>>

\* pt_unmap_page, which no mutex protects, for each page mapped before.
UnmapPage(t) ==
  /\ op[t].pc = "unmap"
  /\ IF op[t].i < op[t].n
     THEN /\ pte' = [pte EXCEPT ![op[t].page + op[t].i] = Unmapped]
          /\ Moves(t, [op[t] EXCEPT !.i = @ + 1])
     ELSE /\ Moves(t, [op[t] EXCEPT !.pc = "vp_free", !.i = 0, !.n = 0])
          /\ UNCHANGED pte
  /\ UNCHANGED <<inDune, abandoned, allocVars, items, tables, dedicateVars>>

\* Mutant: the call returns NULL when the mapping failed.
GiveBackAndFail(t) ==
  /\ op[t].pc = "vp_free"
  /\ GivePages(op[t].page, op[t].page + ChunkPages(op[t].base))
  /\ Returns(t, {})
  /\ UNCHANGED <<inDune, abandoned, heap, pte, tables, dedicateVars>>

\* EVREM_VIRT_MAP: the pages are given back, and the program gets the chunk.
GiveBack(t) ==
  /\ op[t].pc = "vp_free"
  /\ GivePages(op[t].page, op[t].page + ChunkPages(op[t].base))
  /\ Returns(t, {Pointer(op[t].base, op[t].base)})
  /\ UNCHANGED <<inDune, abandoned, heap, pte, tables, dedicateVars>>

-----------------------------------------------------------------------------
(***************************************************************************)
(* free                                                                    *)
(***************************************************************************)

\* Mutant: realloc does not invalidate the region it replaces.
InvalidationUnlessMoved(p, base, page, npages, then) ==
  [Idle EXCEPT !.pc = "invalidate", !.base = base, !.ptr = p, !.page = page,
               !.n = IF then = "vp_alloc" THEN 0 ELSE npages, !.then = then]

\* Mutant: free passes its argument, not original_ptr, to sysfree.
InvalidationOfArgument(p, base, page, npages, then) ==
  [Idle EXCEPT !.pc = "invalidate", !.base = IF then = "sysfree" THEN p ELSE base,
               !.ptr = p, !.page = page, !.n = npages, !.then = then]

\* Mutant: the loop runs while page_offset <= npages.
InvalidationInclusive(p, base, page, npages, then) ==
  [Idle EXCEPT !.pc = "invalidate", !.base = base, !.ptr = p, !.page = page,
               !.n = npages + 1, !.then = then]

\* virtual_invalidate(p, npages), and what follows it.
Invalidation(p, base, page, npages, then) ==
  [Idle EXCEPT !.pc = "invalidate", !.base = base, !.ptr = p, !.page = page,
               !.n = npages, !.then = then]

\* The program gives up the pointer when it calls free.
Free(t, a) ==
  /\ op[t] = Idle
  /\ live' = live \ {a}
  /\ Moves(t, IF inDune /\ Remapped(a.ptr)
              THEN Invalidation(a.ptr, Resolve(a.ptr), PageOf(a.ptr),
                                ChunkPages(Resolve(a.ptr)), "sysfree")
              ELSE [Idle EXCEPT !.pc = "sysfree", !.base = a.ptr])
  /\ UNCHANGED <<inDune, abandoned, heap, virtVars, dedicateVars>>

AfterInvalidation(t) ==
  \/ /\ op[t].then = "sysfree"
     /\ Moves(t, [Idle EXCEPT !.pc = "sysfree", !.base = op[t].base])
     /\ UNCHANGED live
  \/ /\ op[t].then = "vp_alloc"
     /\ Moves(t, Remap(op[t].base))
     /\ UNCHANGED live
  \/ /\ op[t].then = "return"
     /\ Returns(t, {Pointer(op[t].ptr, op[t].base)})

\* Mutant: the invalidated pages go back to the allocator.
InvalidateAndRecycle(t) ==
  /\ op[t].pc = "invalidate"
  /\ IF op[t].i < op[t].n
     THEN /\ pte' = [pte EXCEPT ![op[t].page + op[t].i] = Invalidated]
          /\ Moves(t, [op[t] EXCEPT !.i = @ + 1])
          /\ UNCHANGED <<live, items>>
     ELSE /\ AfterInvalidation(t)
          /\ GivePages(op[t].page, op[t].page + op[t].n)
          /\ UNCHANGED pte
  /\ UNCHANGED <<inDune, abandoned, heap, tables, dedicateVars>>

\* One turn of the loop of virtual_invalidate, or its end.
Invalidate(t) ==
  /\ op[t].pc = "invalidate"
  /\ IF op[t].i < op[t].n
     THEN /\ pte' = [pte EXCEPT ![op[t].page + op[t].i] = Invalidated]
          /\ Moves(t, [op[t] EXCEPT !.i = @ + 1])
          /\ UNCHANGED live
     ELSE AfterInvalidation(t) /\ UNCHANGED pte
  /\ UNCHANGED <<inDune, abandoned, heap, items, tables, dedicateVars>>

SysFree(t) ==
  /\ op[t].pc = "sysfree"
  /\ heap' = {c \in heap : c.base # op[t].base}
  /\ Moves(t, Idle)
  /\ UNCHANGED <<inDune, abandoned, live, virtVars, dedicateVars>>

-----------------------------------------------------------------------------
(***************************************************************************)
(* realloc of a pointer that is not NULL                                   *)
(***************************************************************************)

Realloc(t, a) ==
  /\ op[t] = Idle
  /\ live' = live \ {a}
  /\ Moves(t, [Idle EXCEPT !.pc = "sysrealloc", !.ptr = a.ptr,
                 !.base = IF inDune THEN Resolve(a.ptr) ELSE a.ptr])
  /\ UNCHANGED <<inDune, abandoned, heap, virtVars, dedicateVars>>

WasRemapped(t) == op[t].ptr # op[t].base

\* sysrealloc returned NULL for want of memory: the program keeps its pointer.
SysReallocFails(t) ==
  /\ op[t].pc = "sysrealloc"
  /\ Returns(t, {Pointer(op[t].ptr, op[t].base)})
  /\ UNCHANGED <<inDune, abandoned, heap, virtVars, dedicateVars>>

\* realloc(p, 0): the system allocator frees the chunk and returns NULL, which
\* is what the program gets as well.
SysReallocToZero(t) ==
  /\ op[t].pc = "sysrealloc" /\ ReallocToZero
  /\ heap' = heap \ {ChunkAt(op[t].base)}
  /\ abandoned' = abandoned \cup
       (IF WasRemapped(t) THEN Footprint(op[t].ptr, op[t].base) ELSE {})
  /\ Moves(t, Idle)
  /\ UNCHANGED <<inDune, live, virtVars, dedicateVars>>

\* What realloc does once sysrealloc has returned the chunk c.
AfterSysRealloc(t, c) ==
  LET p    == op[t].ptr
      base == op[t].base
      old  == ChunkPages(base)
      new  == SpannedPages(c.base, c.len)
  IN  \/ ~inDune /\ Returns(t, {Pointer(c.base, c.base)})
      \/ inDune /\ ~WasRemapped(t) /\ Moves(t, Remap(c.base)) /\ UNCHANGED live
      \/ /\ inDune /\ WasRemapped(t) /\ c.base = base /\ new = old
         /\ Returns(t, {Pointer(p, base)})
      \/ /\ inDune /\ WasRemapped(t) /\ c.base = base /\ new < old
         /\ Moves(t, Invalidation(p, base, PageOf(RoundUp(p + c.len)), old - new, "return"))
         /\ UNCHANGED live
      \/ /\ inDune /\ WasRemapped(t) /\ (c.base # base \/ new > old)
         /\ Moves(t, Invalidation(p, c.base, PageOf(p), old, "vp_alloc"))
         /\ UNCHANGED live

\* The chunk stays where it is, or another one replaces it.
SysRealloc(t) ==
  /\ op[t].pc = "sysrealloc"
  /\ LET old == ChunkAt(op[t].base) IN
       \E c \in {d \in ChunksFor(FALSE, heap \ {old}) : d.base = old.base}
                \cup ChunksFor(FALSE, heap) :
         /\ heap' = (heap \ {old}) \cup {c}
         /\ AfterSysRealloc(t, c)
  /\ UNCHANGED <<inDune, abandoned, virtVars, dedicateVars>>

-----------------------------------------------------------------------------

Call(t) ==
  \/ \E region \in UserRegions : DedicateVmem(t, region)
  \/ Allocate(t) \/ AllocateFails(t)
  \/ \E a \in live : Free(t, a) \/ Realloc(t, a)

Step(t) ==
  \/ VpAlloc(t) \/ NoVirtualMemory(t)
  \/ DedicateOnce(t) \/ DedicateEntry(t) \/ DedicateDone(t)
  \/ MapPage(t) \/ MapPageFails(t) \/ UnmapPage(t) \/ GiveBack(t)
  \/ Invalidate(t) \/ SysFree(t)
  \/ SysReallocFails(t) \/ SysReallocToZero(t) \/ SysRealloc(t)

Next ==
  \/ EnterDune
  \/ \E t \in Threads : Call(t) \/ Step(t)

Spec == Init /\ [][Next]_vars

\* A thread inside a call is not stopped for ever: the system schedules it,
\* and the only wait, pthread_once, is for another thread inside a call.
FairSpec == Spec /\ \A t \in Threads : WF_vars(Step(t))

-----------------------------------------------------------------------------
(***************************************************************************)
(* Properties                                                              *)
(***************************************************************************)

\* The pages a pointer of the program occupies beside its chunk.
AliasPages(a) == IF a.ptr = a.base THEN {} ELSE Footprint(a.ptr, a.base)

\* The pages a call in progress is responsible for.
OpPages(t) ==
  CASE op[t].pc \in {"map", "unmap", "vp_free"} ->
         Footprint(AddressOf(op[t].page) + OffsetIn(op[t].base), op[t].base)
    [] op[t].pc = "sysrealloc" /\ WasRemapped(t) -> Footprint(op[t].ptr, op[t].base)
    [] op[t].pc = "invalidate" -> PageOf(op[t].ptr) .. op[t].page + op[t].n - 1
    [] OTHER -> {}

\* Page p is part of an allocation the program still holds, or in the hands of
\* a call in progress; while free is at work the memory is still allocated.
HasOwner(p) ==
  \/ \E a \in live : p \in AliasPages(a)
  \/ \E t \in Threads :
       /\ p \in OpPages(t)
       /\ op[t].then = "sysfree" => HasChunk(op[t].base)

\* A page through which memory can be reached has an owner.  Otherwise a
\* dangling pointer reaches memory that the system allocator hands out again.
NoDanglingAlias == \A p \in VirtPages : pte[p] \in HeapPages => HasOwner(p)

\* The only dangling pointers that still reach memory are those realloc(p, 0)
\* leaves behind, whatever else happens before and after: their pages are not
\* handed out again, and no other path through the allocator leaves one.
OnlyAbandonedDangle ==
  \A p \in VirtPages : pte[p] \in HeapPages => HasOwner(p) # (p \in abandoned)

\* Every pointer the program holds reaches all of its own memory: the chunk
\* exists, no other pointer has it, and each unit of it is found through the
\* pointer, the last one of a chunk that straddles pages included.
LivePointerWorks(a) ==
  /\ HasChunk(a.base)
  /\ \A b \in live : b.base = a.base => b = a
  /\ \A u \in Units(ChunkAt(a.base)) :
       LET q == a.ptr + u - a.base IN q = u \/ (Remapped(q) /\ Resolve(q) = u)

LivePointersWork == \A a \in live : LivePointerWorks(a)

\* A virtual page is free, or part of one alias, or in the hands of one call;
\* the pages of the program's own entries are none of these.
PagesHaveOneOwner ==
  /\ Coalesced(items)
  /\ \A p \in VirtPages :
       LET users == {a \in live : p \in AliasPages(a)}
           calls == {t \in Threads : p \in OpPages(t)}
       IN  /\ \A a, b \in users : a = b
           /\ \A t, u \in calls : t = u
           /\ users = {} \/ calls = {}
           /\ p \in FreePages(items) => users = {} /\ calls = {} /\ pte[p] = Unmapped
           /\ EntryOf(p) \in ProgramEntries /\ p \notin UNION {SpanPages(r) : r \in given} =>
                p \notin FreePages(items) /\ users = {} /\ calls = {}

\* Memory of the system allocator is never lost: whatever path a call takes,
\* a failed mapping included, someone can still free the chunk.  Requests for
\* zero bytes are the exception: do_vremap returns NULL and drops the chunk.
ChunksReachable ==
  \A c \in heap :
    \/ c.zero
    \/ \E a \in live : a.base = c.base
    \/ \E t \in Threads : op[t].pc # "idle" /\ op[t].base = c.base

\* sysfree gets what the system allocator handed out, once: a chunk that
\* exists and that no pointer of the program stands for.
SysFreeGetsChunk ==
  \A t \in Threads :
    op[t].pc = "sysfree" =>
      /\ HasChunk(op[t].base)
      /\ \A a \in live : a.base # op[t].base
      /\ \A u \in Threads : u # t /\ op[u].pc # "idle" => op[u].base # op[t].base

\* pt_map_page asserts that it replaces no valid entry.
NeverReplacesMapping ==
  \A t \in Threads : op[t].pc = "map" => pte[op[t].page + op[t].i] \notin HeapPages

\* virtual_invalidate asserts that what it invalidates is valid.
InvalidatesValidPages ==
  \A t \in Threads : op[t].pc = "invalidate" =>
    \A i \in op[t].i .. op[t].n - 1 :
      op[t].page + i \in VirtPages /\ pte[op[t].page + i] \in HeapPages

\* What the code asserts, and builds without assertions rely on.
AssertionsHold == NeverReplacesMapping /\ InvalidatesValidPages

\* The pages of an allocation are never used for anything else: a page that
\* was invalidated stays invalidated and never returns to the free list.
RetiredForEver ==
  [][\A p \in VirtPages :
       pte[p] = Invalidated => pte'[p] = Invalidated /\ p \notin FreePages(items')]_vars

\* The program gets an unprotected pointer for want of virtual memory only
\* when no run of free pages would do, and what dangless may dedicate has been
\* dedicated.
FallsBack(t) == op[t].pc = "no_vm" /\ op'[t].pc = "idle"

FallbackMeansExhausted ==
  [][\A t \in Threads : FallsBack(t) =>
       /\ \A p \in VirtPages :
            ~(PageRun(p, Cardinality(Footprint(op[t].base, op[t].base)))
                \subseteq FreePages(items))
       /\ AutoDedicate => happened]_vars

\* The allocator asks no more of the page tables than AddressSpace promises,
\* which the tables of PageTable implement: calls that run at the same time are
\* about different pages, only unmapped pages are mapped and only mapped ones
\* invalidated, and a call that fails half-way leaves its pages as they were.
CallOf(t) ==
  LET Run(kind, n, pa) == [kind |-> kind, start |-> op[t].page, n |-> n, pa |-> pa]
  IN  CASE op[t].pc = "map" -> Run("map", ChunkPages(op[t].base), PageOf(op[t].base))
        [] op[t].pc = "unmap" -> Run("undo", ChunkPages(op[t].base), PageOf(op[t].base))
        [] op[t].pc = "invalidate" -> Run("invalidate", op[t].n, 0)
        [] OTHER -> [kind |-> "none", start |-> 0, n |-> 0, pa |-> 0]

Flat == INSTANCE AddressSpace WITH
  Pages <- VirtPages,
  PhysStarts <- HeapPages,
  space <- pte,
  call <- [t \in Threads |-> CallOf(t)]

UsesAddressSpace == Flat!Spec

\* Every call returns: the retry of do_vremap happens at most once, nobody
\* waits for ever in pthread_once, the loops over pages end.
CallsReturn == \A t \in Threads : op[t].pc # "idle" ~> op[t].pc = "idle"
=============================================================================
