# Dangless-malloc in TLA+

Dangless-malloc replaces `malloc`, `calloc`, `posix_memalign`, `realloc` and
`free`. Each allocation gets memory from the system allocator and a second,
fresh range of virtual pages that *alias* it. The program sees only the alias.
`free` invalidates the page-table entries of the alias for good, so that a
dangling pointer faults instead of reaching memory that was handed out again.
The process runs in ring 0 under Dune, so the allocator edits its own page
tables, and has to rewrite the pointers in system calls, because the host
kernel does not know the aliases.

This directory holds TLA+ models of that program, the TLC runs that check
them, and TLAPS proofs. Paths below are relative to `src/sources/`.

## The system

### Components

| component | code | state | operations |
|---|---|---|---|
| allocator entry points | `src/dangless_malloc.c` | `g_auto_dedicate_once`, `g_auto_dedicate_happened`, per-thread hook depth | `dangless_malloc` ... `dangless_free`, `dangless_realloc`, `dangless_dedicate_vmem`, `do_vremap`, `virtual_invalidate` |
| virtual remapping | `src/platform/dune/virtual_remap.c` | the last result code | `vremap_map`, `vremap_resolve` |
| virtual page allocator | `src/virtmem_alloc.c` | a list of free spans and its mutex | `vp_alloc`, `vp_free`, `vp_reset` |
| page tables | `src/virtmem.c`, `src/platform/dune/mem.c` | four levels of tables in memory, a mutex, the TLB | `pt_walk`, `pt_resolve`, `pt_map_page`, `pt_map_region`, `pt_unmap_page` |
| physical pages | `src/platform/dune/physmem_alloc.c` | Dune's page pool | `pp_alloc`, `pp_zalloc`, `pp_free` |
| linked lists | `include/dangless/queue.h` | two pointers in each element | `LIST_INSERT_*`, `LIST_REMOVE`, `LIST_FOREACH` |
| system allocator proxy | `src/platform/dune/sysmalloc.c` | addresses found by `dlsym`, a one-shot buffer | `sysmalloc`, `syscalloc`, `sysrealloc`, `sysmemalign`, `sysfree` |
| initialisation | `src/platform/dune/init.c` | whether it ran | enter Dune, prepare the restore buffer, register hooks and the page-fault handler |
| vmcall hooks and fix-up | `src/platform/dune/vmcall_*.c` | the current system call, the restoration records | pre-hook, argument fix-up, post-hook |
| rumprun platform | `src/platform/rumprun/` | the same roles on another platform | |
| formatted output | `src/common/printf_nomalloc.c` | one output buffer, the modifiers of the conversion being read | `fprintf_nomalloc`, `sprintf_nomalloc` |
| listings of page tables | `src/dump.c` | | `dump_mappings`, `dump_pt_summary` |
| statistics, perf events, traces | `src/common/`, `src/syscallmeta.c` | counters, file descriptors | |
| test framework | `tests/framework/` | the list of suites, the test that runs | |

### How they interact

An allocation calls `sysmalloc`, then `do_vremap`, which calls `vremap_map`:
`vp_alloc` (mutex of the list), then `pt_map_region`, which takes the mutex of
the page tables once per page and undoes its pages when one fails. When there
is no virtual memory, `do_vremap` runs `auto_dedicate_vmem` once
(`pthread_once`), which gives the range of every unused PML4 entry to the list,
and tries again; if that fails too the program gets the system allocator's
pointer itself (the *fallback*). `free` and `realloc` use a page walk to tell
an alias from a plain pointer (`vremap_resolve`), and write page-table entries
without any lock. Every system call of the process passes through the
pre-hook and the post-hook.

All names of the allocator are overridden, so whatever the C library or Dune
allocates comes back to Dangless: `dlsym` while the proxy is looking for the
system allocator, `dune_init` while Dangless enters Dune. For the same reason
the code that prints a message must not allocate.

The default build replaces the mutexes and `pthread_once` by stubs
(`include/dangless/pthread_mock.h`) and supports one thread. They are real with
`SUPPORT_MULTITHREADING`, which `CMakeLists.txt` calls experimental. The models
take the set of threads as a parameter; the runs say which build they are about.

### What is hard, and what makes each component correct

* **Lifetime of an alias.** A chunk of memory, its alias, the free list and the
  page tables change at different times, and any step may fail. The memory of
  a chunk may be reachable only through the pointer the program holds
  (`NoDanglingAlias`), through that pointer it must be reachable completely
  (`LivePointersWork`), a page has one use (`PagesHaveOneOwner`), a page that
  was invalidated is never used again (`RetiredForEver`), and no failure loses
  the chunk (`ChunksReachable`, `SysFreeGetsChunk`).
* **`realloc`.** It frees the old chunk *before* the old alias is invalidated,
  and has four different outcomes for the alias.
* **Chunks that straddle pages.** A chunk of one page's size may need two
  pages; mapping, invalidation and shrinking must agree on the number.
* **Dedication.** It runs once, in the middle of an allocation, while other
  threads allocate; it must not hand out pages that have a use.
* **Start-up.** Any of the five functions may be called first, by a constructor,
  and before, while or after `dangless_init` runs (`StartupSurvives`,
  `SpecialStaysInDlsym`, `RemapsAfterHooks`, `HooksBalanced`).
* **The free list.** Freed regions arrive in any order; a missed merge shows
  up only as an allocation that fails much later (`FreelistCoalesced`,
  `ImplementsPagePool`), a wrong back pointer only when its element is removed
  (`FreelistChained`).
* **System calls.** Nested pointers are overwritten in the program's memory and
  must be put back, also when the buffer of records cannot grow.
* **Formats.** Modifiers may stand in any order and any number, and what one
  conversion read must not leak into the next (`PrintsAsC`, `ZerosBehindSign`).

`PROJECT.json` lists these hazards at the lines where they bite.

## The modules

### VpFreelist, PagePool, VirtPageAlloc

`VpFreelist` holds the list operations of `virtmem_alloc.c` as operators on a
sequence of spans: `FirstFit`/`TakeFrom` is `freelist_alloc`, `AddRegion` with
`NextSpan`, `ExtendPrev`, `ExtendNext` and `TryMergeSpans` is `freelist_free`.
Addresses are page numbers: the code asserts that all of them are multiples of
the page size.

`VirtPageAlloc` is the component with its state (`items`, and in `held` the
pages its callers have). A call holds the mutex from its first read to its last
write, so it is one step. `vp_free` may fail, when it needs a new span and the
allocation of the span fails.

`PagePool` says what callers may rely on, without a list: contiguous pages come
out of a set; a request fails only if the set has no run of that length.
`VirtPageAlloc` implements it with `free <- FreePages(items)`.

### DanglessMalloc

The whole path of an allocation: `dangless_malloc.c` over Dune's
`virtual_remap.c` and `virtmem.c`, with the free list of `VpFreelist`.

* An address counts *units*; a page has `PageSize` units and a PML4 entry
  `EntryPages` pages. Entry 0 belongs to the program and contains the heap of
  the system allocator, which is identity-mapped. Offsets inside a page matter
  (chunks that straddle a boundary); the contents of memory do not.
* `pte[p]` is the level 1 entry of page `p`: zero, the marker
  `PTE_INVALIDATED`, or the physical page. `tables[e]` is how many levels of
  tables exist below PML4 entry `e`, which is what `auto_dedicate_vmem` sees and
  what can run out of memory.
* `heap` is the set of chunks the system allocator has handed out. It may use
  any free place and return more than was asked for, because the code uses the
  usable size.
* `live` is the set of pointers the program holds, with the chunk each stands
  for: a ghost that the properties need and the program does not have.
* `op[t]` is the call thread `t` is in: a program counter and the locals of
  the C functions. A step is what the code does under one mutex, or to one
  page-table entry; the steps of `virtual_invalidate` and `pt_unmap_page`, which
  take no lock, interleave with everything.

| action | code |
|---|---|
| `EnterDune` | `dangless_init` |
| `DedicateVmem` | `dangless_dedicate_vmem` |
| `Allocate`, `AllocateFails` | `dangless_malloc`, `_calloc`, `_posix_memalign`, up to `do_vremap` |
| `VpAlloc` | `vremap_map` up to `vp_alloc` |
| `NoVirtualMemory`, `DedicateOnce`, `DedicateEntry`, `DedicateDone` | the retry of `do_vremap`, `auto_dedicate_vmem`, the fallback |
| `MapPage`, `MapPageFails`, `UnmapPage`, `GiveBack` | `pt_map_region`, `pt_map_page` and their error paths |
| `Free`, `Invalidate`, `SysFree` | `dangless_free`, `virtual_invalidate` |
| `Realloc`, `SysReallocFails`, `SysReallocToZero`, `SysRealloc` | `dangless_realloc` |

The program is well behaved: it frees and reallocates each pointer once, and
dedicates disjoint regions before Dangless has dedicated any itself. A dangling
pointer it keeps is what the properties are about; it needs no variable,
because what matters is whether the page behind it is valid.

### VmcallFixup

System calls under Dune: `vmcall_hooks.c`, `vmcall_fixup.c`,
`vmcall_fixup_info.c` and `vmcall_fixup_restore.c`.

* `mem` maps *places* to pointers. `<<o, i>>` is the i-th pointer stored in
  object `o` of the program (a member of a `msghdr`, the base of an iovec, an
  item of an `argv`), `<<HookStack, k>>` the k-th argument. A pointer is null, an
  alias or canonical, and names the object it reaches.
* `written` is the ghost to compare with: what the program stored last.
* `op.work` is the list of `fixup_ptr` calls that are still to come, in the order
  of the C recursion, each with its depth of `FIXUP_SCOPE`. A step fixes up or
  restores one pointer.
* `records` and `capacity` are `g_records`, `g_record_count` and
  `g_records_capacity`; `current` is the call the globals of `vmcall_hooks.c`
  describe, which `brk` is judged by.

All arrays of iovecs of one call have the same number of items in the model
(`op.count`), though the code reads each number from the argument after its array.

There is one thread, as in the default build: the source marks the records as
not thread-safe. A system call made while a hook runs goes straight to the
kernel (`vendor/dune-ix-vmcallhooks.patch`), and so does the growth of the buffer.

| action | code |
|---|---|
| `Assign`, `Free` | the program between its calls |
| `SystemCall` | `dangless_vmcall_prehook` up to `vmcall_fixup_args` |
| `FixPointer` (`SkipInvalid`, `LeaveCanonical`, `ReplaceAlias`) | `fixup_ptr`, and the functions for iovecs, null-terminated arrays and `msghdr` |
| `Record` | `vmcall_fixup_restore_on_return` |
| `PrehookDone`, `VmcallReturns` | the end of the pre-hook, the kernel, the judgement of `brk` |
| `RestorePointer`, `PosthookDone` | `vmcall_fixup_restore_originals` |

### PageTable, AddressSpace

`DanglessMalloc` takes page-table entries as a function from pages to what they
reach. `PageTable` models how that comes about: a four-level tree of frames
with `FanOut` entries each, `pt_walk` down that tree, tables created one level
at a time under the mutex, and entries written without it by `pt_unmap_page` and
`virtual_invalidate`. The latter walks once for a run of neighbouring entries
and advances a pointer inside the table, which the model does too (`slot`,
`end`). A frame has arbitrary contents (`Garbage`) until it is zeroed. The
program's half of the address space is mapped with huge pages, so that walks
end above level 1 there.

Each thread runs on a processor of its own with a TLB (`tlb[t]`) that the
processor fills whenever it likes and `tlb_flush_one` empties. `fresh` and
`mapped` stand for the callers: the runs of pages `vp_alloc` hands out, and the
regions in use.

| action | code |
|---|---|
| `MapRegion`, `RegionMapped`, `RegionFailed` | `vremap_map` around `pt_map_region` |
| `LockAndWalk`, `CreateLevel`, `CreateLevelFails`, `WriteEntry` | `pt_map_page`, `pt_map_page_create_level` |
| `UnmapPage` | `pt_unmap_page` |
| `InvalidateTail`, `WalkToRun`, `InvalidateEntry`, `Invalidated` | `virtual_invalidate`, called by `dangless_free` and `dangless_realloc` |
| `FillTlb` | the processor |

`AddressSpace` is the abstract specification: a flat function, and calls that
change the pages of their own region only, one at a time, and have done all they
promise when they end. `PageTable` implements it with `space <- [p |->
Resolve(p)]`; making a table is a stutter. `DanglessMalloc` implements it as well,
from the other side (`UsesAddressSpace`, with `space <- pte` and the call read off
`op[t]`): a call to the page tables begins only when nobody else is at work on its
pages and they are all in the state the call needs, and the allocator takes its
return for granted only when the pages are as promised. The two refinements
together justify the flat `pte` of `DanglessMalloc`: what `PageTable` assumes of its
callers, the allocator does, and what the allocator takes the tables for, they are.

### ListQueue, LinkedFreelist

`VpFreelist` takes the list for a sequence. `ListQueue` translates the `LIST_`
macros of `queue.h`, each as the writes it makes to `next` (`le_next`) and
`prev` (`le_prev`, the address of the pointer that leads here), in their order.
`LinkedFreelist` repeats `vp_alloc`, `vp_free` and `vp_reset` with the loops
and the insertions of `virtmem_alloc.c` on such a list, beside the same call of
`VirtPageAlloc`: both start from the same state, and `FreelistChained` says that
the chain, followed from its head, is `items` again, that each back pointer is
right and that no `vp_span` has leaked. A `vp_span` that was freed or not
written yet has wild pointers, so that a use of one shows.

### Bootstrap

Start-up of the process: the proxy of the system allocator and
`dangless_init`. `stack` is the C call stack; a frame is a function and the
place it has reached, a step is what it does up to its next call. That is
enough for the order in which the functions call back into each other, which
is the hard part of this code.

| action | code |
|---|---|
| `Proxy`, `CallSystem` | `sysmalloc` ... `sysfree`: populate if the address is not known, then call it |
| `Special` | `syscalloc_special`, with its two assertions |
| `StartPopulating`, `LookUp`, `Bind`, `DonePopulating` | `populate_addrs` |
| `DlsymAllocates`, `DlsymReturns` | the C library: it calls `calloc` in the first `dlsym`, or not |
| `HookEnter`, `Vremap`, `HookExit` | `HOOK_ENTER`, `do_vremap` with the allocation of a `vp_span`, `HOOK_EXIT` |
| `StartInit`, `EnterDune`, `RestoreInit`, `HooksInit` | `dangless_init` |

`DuneInitAllocates` is what `dune_init`, which is not in this repository, does on the host
before it enters Dune (the repository's `notes/dune-notes2.txt` tells of its
set-up code). The run sets it to `TRUE`. With `FALSE`, and nothing
allocated by a constructor, `dangless_init` itself would be the first caller of
the proxy, already in Dune: the `calloc` of `dlsym` would then enter the hook and
hand the static storage to `do_vremap`. `SpecialStaysInDlsym` holds because of
that allocation, not because of anything in `sysmalloc.c`.
`SpecialAssumption` says that the storage is as large as what `dlsym` asks for,
which the source calls an observation about glibc.

### PrintfNomalloc

`do_vsprintf` and `handle_format` as a machine that reads one character per
step. The environment chooses the characters, and the arguments when they are
fetched, so that a run tries *every* format up to a length. Numbers have few
bits; an argument is fetched with the length the code computed, and passed with
the length the C standard gives, so a mistake in the length shows. The
specification in `PrintsAsC` is declarative: it splits the modifiers into flags,
width and length the way the standard does and says which texts are a
conversion of the argument, without a loop over the format.

The code names the C standard as what it follows, and departs from it in one place
that its header does not list: zeros that pad a negative number. `PrintsAsC` says
nothing about those conversions (`PadsNegative`); `ZerosBehindSign` says of them
what the standard does, and is violated (finding 5). Two more choices are those of the
tests in `tests/dune/printf_nomalloc.c`: capital hexadecimal digits, for `%x` too
(line 50; the standard has small ones), and the texts for null pointers (lines 19 and
20; the standard leaves them open).

### Dump

`dump_mappings` and `dump_pt_summary` as functions from a state of `PageTable`
to the lines they print. `ListingsTellAll` compares them with the tables in
every reachable state.

## The runs

| run | question |
|---|---|
| `page_allocator` | Do sequences of `vp_alloc`, `vp_free` and `vp_reset` keep the list merged, lose no page, and look like a pool of pages? Is the chain of `vp_span`s that list? |
| `default` | Is the default build (one thread) consistent through failed mappings, dedication by hand and automatic, fallbacks and every outcome of `realloc`, `realloc(p, 0)` included? |
| `threads` | Does no alias outlive its chunk and no page get two owners when two threads interleave at every mutex and page-table entry? Does the allocator ask no more of the page tables than `AddressSpace` promises? Does every call return, also from `pthread_once` and the retry? |
| `vmcall` | Does the kernel see canonical pointers only, and is the program's memory what it was afterwards, for iovecs, message headers and null-terminated arrays that the program rewrites and frees between calls, when the buffer may refuse to grow? Does every call return? |
| `page_tables` | Do two threads that share tables keep the tree a tree, do the assertions of the code hold, do callers see a flat address space, and do the listings show it? |
| `bootstrap` | Whichever function is called first, and wherever `dlsym` and `dune_init` call back: does the proxy find its functions, and is nothing protected too early? |
| `printf` | Does every format print what the C standard says, negative numbers padded by zeros apart, and is the process stopped only at the limits the source names? |
| `restore_buffer_full` | The restore buffer cannot grow: expected to be violated, see Findings |
| `realloc_to_zero` | `realloc(p, 0)`: expected to be violated |
| `mixed_dedication` | Dedication by hand, then automatic: expected to be violated |
| `fallback_race` | Two threads find no memory at the same time: expected to be violated |
| `zero_padding` | Negative numbers padded by zeros: expected to be violated |

Two pairs of properties differ in what they count as the program's fault.
`NoDanglingAlias` is the promise of Dangless: no valid page without an owner.
`OnlyAbandonedDangle` is the strongest form that holds when the program calls
`realloc(p, 0)`: the pages that dangle are exactly those in `abandoned`, a
history of the aliases such calls left behind, so that all other paths are held
to the promise. `MemoryAlwaysRestored` is the promise of the fix-up;
`MemoryRestored` exempts the pointers in `lost`, the history of those whose
record was dropped because the buffer could not grow.

### Bounds

* `MCVirtPageAlloc`: nine pages, requests of up to four. The list can hold five
  spans, so a freed region can touch the previous span, the next, both or none,
  with further spans on either side; requests fit the first span, a later one or
  none, exactly or with a remainder. Five `vp_span`s are as many as that list needs;
  they are alike, hence the symmetry.
* `DanglessMalloc`: two units to a page and two pages to a PML4 entry. A chunk
  of two units may then straddle a boundary, and an alias of two pages may fill
  an entry or be cut from a larger span. The heap has four units: up to
  four chunks, and `realloc` can grow, shrink or move one. `default` has chunks of
  up to three units, which allows an in-place shrink from two pages to one, and
  three PML4 entries. The program uses the first two, so that the dedication skips
  them, and dedicates one page of the second by hand: a mapping may begin in
  a page whose tables exist and go on in an entry where they are missing.
  `threads` has pages of one unit and chunks of one or two pages, to afford the
  interleavings.
* A run out of virtual memory happens in every run: entries are few and pages
  are never reused. That is the program's nature and not an artefact; at that
  point the fallback is explored.
* `VmcallFixup`: arrays of two items and the three pointer members of a `msghdr`,
  in all lengths up to that; the objects can refer to each other as their types
  allow. The buffer starts with room for two records, so that it grows, or
  refuses to, in the middle of a structure.
* `PageTable`: two entries to a table, hence sixteen pages, of which the lower
  eight are the program's. Dangless may use the last page of one level 2 table
  and the first two of the next: regions of one to three pages begin in either
  table and cross from one into the other, and a table is shared by regions of
  both threads. Five frames are enough for all tables; that there is no frame
  is a free choice, since Dune takes frames from the same pool. A TLB holds at
  most one translation, of the page in `CachedPages`. The run stops when every
  page has been used and freed (`CHECK_DEADLOCK FALSE`): pages are never reused.
* `Bootstrap`: the call stack is bounded by the code (`TypeOK`: five frames); there
  is no other bound. One thread: start-up is over when `main` begins.
* `PrintfNomalloc`: formats of six characters hold two conversions or one with all
  kinds of modifiers; `MaxWidth` allows widths of two digits. Numbers of three and
  five bits have one or two digits in base 10 and 16, and their extremes are
  tried. The alphabet has every specifier and modifier the code knows, three
  digits, and a character that is none of them. `zero_padding` needs formats of
  four characters only.
* `Dump`: every state of `PageTable`; `dump_pt_summary` also on every table of up
  to six entries, since the tables of that instance have two.
* `ReallocToZero` switches an input off that leads to a known violation, and
  `UserRegions` keeps the dedication by hand inside an entry that is in use, so
  that the passing runs are about everything else.
* Symmetry is used only in `page_allocator` and `page_tables`, which check no
  liveness.

### Fairness

`FairSpec` is weak fairness of `Step(t)`: a thread inside a call is scheduled
again and again. Nothing is assumed about whether the program makes calls, or
about which branch a failure takes. The only wait, `pthread_once`, ends because
the thread that dedicates is itself inside a call. The mutexes have no variable in
`DanglessMalloc`: their critical sections are single steps, in which nothing waits for
another thread of Dangless, so `CallsReturn` is about `pthread_once` and the retry, not
about the mutexes. `PageTable` has the mutex of the page tables explicitly
(`MutexReleased`). In `VmcallFixup` it is weak
fairness of the hooks' steps, in `Bootstrap` of the steps of the call in progress:
nothing there waits.

### Each property can fail

For each property of a passing run, a `Mutant` operator beside the definition it
replaces is a plausible bug (a region that is not merged, pages that
are not unmapped when a mapping fails, an off-by-one in a page loop, `realloc`
that forgets to invalidate, `once` dropped). `PROJECT.json` names the pairs; TLC
finds the property violated with each.

## Findings

1. **`realloc(p, 0)`** (`src/dangless_malloc.c:353`). `sysrealloc` frees the chunk
   and returns `NULL`; Dangless returns that at once, so the alias of the freed
   chunk stays valid. The README promises that a dangling pointer "will not
   point to a valid memory region".
2. **Two ways of dedication** (`src/dangless_malloc.c:64`). A region given to
   `dangless_dedicate_vmem` and not mapped yet has no PML4 entry, so
   `auto_dedicate_vmem` gives the whole entry to the list. When pages of the
   region have an owner, they are handed out again and the assertion of
   `pt_map_page` fails.
3. **Fallback although memory is there** (`src/dangless_malloc.c:172`, with
   threads). `g_auto_dedicate_happened` is read after `vp_alloc` failed. If
   another thread dedicates in between, the first one does not try again and
   returns an unprotected pointer.
4. **A pointer that is not restored** (`src/platform/dune/vmcall_fixup_restore.c:59`).
   When the buffer of records cannot grow the record is dropped, but `fixup_ptr`
   has overwritten the pointer already. The structure keeps the canonical
   pointer after the call, and a later `free` of it invalidates no alias. The
   comment at `vmcall_fixup.c:101` says it has to be restored.
5. **Zeros in front of the sign** (`src/common/printf_nomalloc.c:228`).
   `handle_format` moves the text of a conversion behind the padding, minus sign
   included, so `%05d` of -42 prints `00-42`; C has `-0042`. The code calls the
   reference page of `fprintf` "The Bible" (line 17), and its header lists "padding
   by 0" as handled (`printf_nomalloc.h:11`). The tests pad positive numbers only.

One mistake of the code needs no run, since every call shows it.
**`posix_memalign` is bound to `memalign`** (`src/platform/dune/sysmalloc.c:61`):
`populate_addrs` looks up `memalign` and stores it in the pointer that `sysmemalign`
calls with the arguments of `posix_memalign`. The C library takes the address of the
caller's variable for the alignment; a `NULL` it returns looks like success, and a
pointer like an error code (`Given` of `Bootstrap`). The user guide promises "the
exact same signature and behaviour as their standard counterparts". `DanglessMalloc`
models `posix_memalign` as its entry point is written, with a proxy that works.

Remarks that are no findings of a run: `tlb_flush_one` flushes the processor that
executes it. With threads on several processors, the others may keep a
translation of an invalidated page. `PageTable` shows the flush of one's own TLB
(`FlushesWhatItChanges`). `dump_mappings` has no level to advance by until a
page is mapped (`level` is uninitialised at `dump.c:19`), keeps the stride of the
last huge page over unmapped pages, and starts an "unmapped" region at the first
page of the non-identity mappings before it; hence `ListingsTellAll` speaks of
ranges that begin with one of Dangless's mapped pages, and of the lines about
mappings. Nothing checks that output fits into `g_buffer`, nor that the first
allocation of the restore buffer succeeded (`Bootstrap`: `records = "refused"`).

## Proofs

### The page allocator

`VpFreelist_proofs` and `VirtPageAlloc_proofs` prove, for every set of pages and
every bound on requests:

* `TypeCorrect`, `FreelistStaysCoalesced`, `NoPageLostOrShared`: the three
  invariants of `VirtPageAlloc`;
* `AllocatorImplementsPool`: `VirtPageAlloc` implements `PagePool`.

The inductive invariant is `TypeOK /\ FreelistCoalesced /\ PagesConserved`. None
of the parts is inductive alone: that `vp_free` finds the right place in the
list, and that a merge does not lose pages, needs the order of the spans, and
that a freed region overlaps no span needs `PagesConserved`. `PagesAssumption`
(page 0 is not given to the allocator, so that `NULL` means failure) and
`MaxRequestAssumption` (a call is for at least one page) are all that is
assumed.

The lemmas of `VpFreelist_proofs` say what each list operation does to the
set of free pages and to the order: `RemoveSpan`, `ReplaceSpan`, `InsertSpanFacts` and
`MergeNeighbours` for single edits, `TakeFromFacts` and `AddRegionFacts` for
`freelist_alloc` and `freelist_free` as a whole. For the refinement `NoFitNoRun`
is the step that needs the merging: a run of free pages lies inside one span of
a coalesced list, hence if no span is large enough, no run exists.

### The page tables

`PageTable_proofs` proves, for any number of threads, frames and pages and any
`FanOut` of at least two:

* `TypeCorrect`: every slot a call holds lies in a table, so that no entry outside
  a table is ever written, neither by a walk that went stale nor by the pointer
  that `virtual_invalidate` advances;
* `MutexHeldWhileMapping`: `MutexReleased`;
* `WalksFindTables`: `TablesFound`, the part of `AssertionsHold` about tables. A
  mapping never replaces a table, and `virtual_invalidate`, which takes no mutex,
  finds a level 1 table for every page;
* `TablesStayTree`: `TablesFormTree`, a frame is free or has exactly one entry that
  leads to it;
* `AssertionsNeverFail`: all of `AssertionsHold`;
* `AccessesStayRight`: `AccessesJudgedRight`;
* `FlushesOwnTlb`: the action property `FlushesWhatItChanges`;
* `TablesImplementFlatSpace`: `Spec => Flat!Spec`, `PageTable` implements
  `AddressSpace`;
* `ListingsAreExact`: `ListingsTellAll` of `Dump`.

The first invariant, `IInv`, is about levels. Types alone are not inductive:
`virtual_invalidate` trusts that its walk ends at level 1, because it goes on to
the end of that table. Every frame in use has *one* level (`Levelled`), which the
entry that leads to it respects. The steps without the mutex write to level 1
tables only, and a walk reads no entry of level 1 (`WalkUndisturbed`). The steps
with it replace an entry at which a walk ended, so that no walk that reached level
1 changes (`WalkExtended`). Hence pages that were mapped keep an entry of their
own (`Deep`) for good. `pt_walk` is unfolded into its three steps, so no induction
is needed.

The second, `TreeInv`, is about what the entries hold, and has two parts.

* `TreeOK`: the entries of the tables in use lead to each frame once at most
  (`LinkedOnce`), so two walks that end at the same level 1 entry came there by the
  same entries, with the same indices, and indices determine the page
  (`EntryOfOnePage`; `Digits` is the arithmetic). A page that shares its entry with
  others finds zero there (`SharedZero`): this is what makes a new table invisible
  to the pages around (`TableLinked`).
* `OwnerInv`: every page of dangless has one owner (`OwnersApart`): the free pages,
  a region in use, or a call. The owner tells what the entry holds
  (`EntriesTold`), a call by how far it has come (`Progress`); a page without owner
  was freed and holds the marker. `virtual_invalidate` goes from one entry of a
  table to the next without another walk; `RunFound` says that these are the
  entries of the pages that follow (`NeighbourWalk`).

For each action, one lemma says which entry it writes and that the rest of the tree
stays (`WriteEntryWrites`, `CreateLevelWrites`, ...), and one that the owners still
tell the truth. There are two kinds of steps: those in which a call goes on with its
pages (`OwnStep`), and those in which pages change hands (`HandOver`). For the
refinement, each action is then a step of `AddressSpace` or a stutter (`FlatStep`).
`TreeInv` was model-checked on the instance of the run before it was proved.

The third, `MemoryLow`, is what the listings rest on: a page of dangless leads to
memory of the program, never at address 0, which `pt_resolve_page` returns for "not
mapped", and never to itself, which `dump_mappings` would print as identity-mapped.
`ChunksAssumption` says so of the chunks. The loop of `dump_mappings` then advances by
one page from a first page that is mapped (`DumpedTo`, `AfterMapped`,
`AfterUnmapped`), and its lines about pages are those of the pages it has passed
(`ListsMappings`). In the loop of `dump_pt_summary` the lines are the runs that ended
before the run in progress began (`CountedFrom`), and no other run can end at the next
entry (`RunEnds`). Both loops are recursive functions; a least counterexample takes
the place of induction (`CountsExist`, `CountedAlways`, `DumpsExist`, `DumpedAlways`).

`TreeAssumption` says that Dangless uses pages of the upper half and that the
physical pages of a chunk exist; the assumption that `CachedPages` is among them
concerns the TLB only.

### The allocator

`DanglessMalloc_proofs` proves every safety property of `DanglessMalloc`, all but
the last for any number of threads, any size of pages, entries and chunks, and any
set of PML4 entries the program uses:

| theorem | property |
|---|---|
| `DanglessTypeCorrect` | `TypeOK` |
| `OnlyReallocToZeroDangles` | `OnlyAbandonedDangle` |
| `NothingDangles` | `NoDanglingAlias`, for a program that does not call `realloc(p, 0)` |
| `PointersReachTheirMemory` | `LivePointersWork` |
| `PagesOwnedOnce` | `PagesHaveOneOwner` |
| `NoChunkLost`, `ChunksFreedOnce` | `ChunksReachable`, `SysFreeGetsChunk` |
| `AssertionsNeverFail` | `AssertionsHold` |
| `UsesFlatSpace` | `UsesAddressSpace` |
| `PagesRetireForEver` | `RetiredForEver` |
| `FallsBackOnlyExhausted` | `FallbackMeansExhausted`, for a program with one thread |

All follow from one inductive invariant, `IInv` (`OwnershipInvariant`), because
none of them is inductive. That `pt_map_page` replaces no mapping depends on what
the thread has mapped so far and on nobody else having its pages; that depends on
the pages of the free list being unmapped, which depends on `free` invalidating
*all* pages of an alias, hence on how far it has got and on the alias being
backed completely. The parts of `IInv` are:

* `ChunksApart`, `BasesApart`, `ChunksOwned`: a chunk belongs to one pointer or to
  one call;
* `PagesApart`, `MappedOwned`: so does a virtual page, unless it is free or
  abandoned. `Held` and `CallRange` say which pages, as ranges that begin at an
  alias; that they are the pages the properties speak of is `OwnersPages`;
* `CallProgress`: which entries of its range a call has written, and what the
  others still contain; `Backed`: all pages of a live alias lead to its chunk;
* `FreeUnmapped`: the list is coalesced and offers unmapped pages only;
* `UsedWasGiven`, `OneDedicates`: a page that ever had a use comes from a region the
  program gave or from an entry the one automatic dedication has passed. This is why
  that dedication gives away no page that has a use, although it runs in the
  middle of an allocation, among other threads;
* `NothingRemappedYet`: before Dune is entered there are no aliases.

The idea of the proof is that a step *hands over*: one thread changes what it owns
itself and what one pointer owns, takes pages from the free list or gives them
back, and touches nothing else. `HandsOver` states this once. `Handover` and
`Preserved` show that such a step keeps the invariant for all other threads and
pointers, and `QuietStep` and `InsideStep` are their forms for steps that leave
the pages, or the pointers, alone. The lemma of each action then has to show only
what the step does to its own thread. Two threads that write entries without a lock
are thus no special case: their ranges are disjoint.

`FallsBackOnlyExhausted` speaks of two steps of a call: the look at the free list,
and the decision to hand out the chunk itself. That the list has not changed in
between is `NothingFitted`, which a thread on its own keeps
(`NothingFittedStep`); with a second thread it fails, as `fallback_race` shows
(finding 3), so the hypothesis cannot be dropped. That the list then has no run of
pages for the alias (`ExhaustedWhenNothingFits`) needs the list to be coalesced, and
the alias to span as many pages as the request was for.

For `UsesFlatSpace` each step is a step of `AddressSpace` or a stutter (`FlatStep`).
`VpAlloc`, `Free` and `SysRealloc` begin calls (`BeginsFlat`): that the pages named
are nobody else's is `PagesApart` after the step, and what they hold is
`CallProgress`. `MapPage`, `UnmapPage` and `Invalidate` change one page or return
(`ChangesFlat`, `EndsFlat`), where `CallProgress` says that the pages written before
still hold what the call promises. `MapPageFails` turns a mapping into its undoing.
The last `MapPage` writes its entry and returns in one step, which is why `End` of
`AddressSpace` may make the last change itself. That the steps of other threads leave
the chunk behind a call, and so its number of pages, alone is `OtherCalls`.

The first lemmas of `DanglessMalloc_proofs` are the arithmetic: pages, offsets, and
the number of pages a chunk spans (`SpannedFacts`), the same at the alias as in the heap because
the offset in the page is (`SpannedAlike`). `AddRegionFacts` and `TakeFromFacts` are
those of the page allocator.

The theorems assume `RegionsApart`: regions the program dedicates by hand do
not overlap and lie in PML4 entries it uses already. The first half is what the
caller owes. The second is a limit of the code: without it,
`mixed_dedication` (finding 2) is a counterexample. The passing runs satisfy it
too. `SizesAssumption`, `SwitchesAssumption` and `UserRegionsAssumption` say what
the constants are.

### The linked lists

`LinkedFreelist_proofs` proves two things, for any finite set of `vp_span`s.

First, what the macros do to the links: `InsertAfterKeepsLinks`,
`InsertBeforeKeepsLinks`, `InsertHeadKeepsLinks` and `RemoveKeepsLinks`. The
invariant (`Linked`) is that of each element in the list the back pointer leads
to the pointer that leads to it, and the converse. It is what the macros need:
`LIST_REMOVE` writes through the back pointer without looking at the head. The
assumption of `RemoveKeepsLinks` that an element is not its own successor excludes
a ring, in which the macro would keep the element.

Second, that the chain is the free list (`ChainIsTheFreelist`): after any calls, a
walk over the pointers meets exactly the allocated `vp_span`s, in the order of
`items`. `Linked` alone is not enough, since a ring that the head does not reach
satisfies it. The inductive invariant `Chained` names the sequence `s` of the
elements: they are distinct, the head points at the first and each at the next,
the last pointer is `LIST_END`, and `spans[s[i]]` is `items[i]`. It is kept because

* a macro that writes at the p-th element inserts into `s` or removes from it at p
  (`OrderedInsert`, `OrderedRemove`, from the theorems on the macros), so the ring
  stays excluded;
* the loops of `freelist_alloc` and `freelist_free` stop where `FirstFit` and
  `NextSpan` say (`ForEachMeetsAll`, `StopsAtFirst`);
* `freelist_reset` gives back one element a turn and has then read the next
  (`ResetTurnKeeps`).

A loop is a recursive function here, bounded by the number of elements, and no
induction scheme is at hand. The proofs do without: `s` solves the recursion of
`ForEach`, and if another solution differed, it would differ at a least position
(`LeastNumber`), whose predecessor forces it to agree; that the loop of
`freelist_reset` has a result at all (`TurnsExist`) is shown in the same way.

### System calls

`VmcallFixup_proofs` proves every safety property of `VmcallFixup`, for any set of
calls and parameter types, any objects and any size of the buffer of records:

| theorem | property |
|---|---|
| `TypeCorrect` | `TypeOK` |
| `KernelSafe` | `KernelSeesCanonical` |
| `ProgramMemoryRestored` | `MemoryRestored` |
| `RecordsExact` | `RecordsAccurate` |
| `HighBrkRefused` | `RefusesHighBrk` |

The invariant `IInv` has two halves. The first is about memory (`RecordsOK`,
`MemoryOK`): a place that differs from what the program wrote holds the canonical
form of the same pointer, and either has exactly one record or is in `lost`. For
that it must be known that nothing is recorded twice: a place the fix-up meets a
second time holds a canonical pointer already and is left alone. While the
post-hook runs, the records below `op.i` have been put back (`Outstanding`).

The second half, `Coverage`, is what `KernelSeesCanonical` rests on. Each argument is
either still to be looked at or in order, and if it is in order, so is each pointer
in the object it leads to, and so on down to the depth the fix-up reaches.
This is not clear from the code: objects may share parts or refer to themselves, so
that a place is on the list more than once, and a pointer is replaced while
others that lead to the same object have been dealt with before. That replacing
a pointer spoils nothing already covered is `FixKeepsCoverage`: the canonical form
leads to the same object, so the places behind it are the same. `PointersTyped` and
`TaskOK` say at which depth each kind of place can be met, which is what bounds
the descent; the depth is unfolded, so no induction is needed.

### Start-up

`Bootstrap_proofs` proves every safety property of `Bootstrap`:

| theorem | property | assumes |
|---|---|---|
| `DepthBalanced` | `HooksBalanced` | |
| `TypeCorrect` | `TypeOK` | `DuneInitAllocates` |
| `SpecialForDlsym` | `SpecialStaysInDlsym` | `DuneInitAllocates` |
| `Survives` | `StartupSurvives` | `DuneInitAllocates` |
| `HooksBeforeAliases` | `RemapsAfterHooks` | `DuneInitAllocates` |

`DepthBalanced` needs only what each function does on its own (`Balanced`: the
depth is one exactly when one frame of the stack entered a hook). The others are
false without the assumption, as the section on `Bootstrap` explains, since then
`dangless_init` itself may be the first caller of the proxy. Their invariant `IInv`
is about who calls whom:

* `Shape`: the call stacks there are. Above the program's call, or the one
  `dangless_init` makes, there are at most `populate_addrs`, the `dlsym` it calls and
  the `calloc` that one calls, or the `sysmalloc` of `do_vremap`. That this does not
  go on for ever is the point of `populating`, and of the next two parts;
* `Addresses`: all addresses are found at once, before the first is used, so that
  none is looked up from inside a hook;
* `Entered`: Dune is entered with all addresses known, and its hooks are registered
  before any call but those of `dangless_init`;
* `Storage`: where the static storage of `syscalloc_special` can be. `dlsym` asks for
  it once because it keeps what it got, and it is on its way from the `calloc` to
  `dlsym` or in `dlsym`'s own pointer, never in the hands of a caller.

### Formatted output

`PrintfNomalloc_proofs` proves the two properties of the run `printf`, for any
alphabet, formats of any length, any widths, any numbers of bits and any strings:

| theorem | property |
|---|---|
| `AlwaysPrintsAsC` | `PrintsAsC` |
| `AlwaysStopsOnlyAtLimits` | `StopsOnlyAtLimits` |

The property reads the modifiers of a conversion as the standard does, all at once:
flags, then width, then length. The code reads them one character at a time, and what
a `0` means to it depends on what it has met before. `ParserInv` closes the gap: while a
conversion is being read, every way to divide the characters read so far into
flags, width and length says what `mod` says (`Understood`, `Knows`). It stays true
because a division of one character more is a division of the others with the new
character in the last part, or at the beginning of it (`SplitGoesOn`); and there is one
division only (`OneSplit`), so that the standard and the code read the same.

The second half is about the numbers. `PrintUintWrites` says that `print_uint` writes a
text whose value is the number, without a superfluous zero: the digits come out of
the division from the last to the first, and `ValueOf`, which the property uses, adds
them from the first to the last (`ValueOfAppend`). `PadPads` says what is around
the number, `PrintedIsConverted` that both together are what the standard asks of each
specifier, `ConversionAsC` that the length with which the argument is fetched is the
one it was passed with.

`print_uint` and `ValueOf` are recursive functions, of the number and of the digits. As for the
linked lists, a least counterexample takes the place of induction (`SumsExist`,
`SumsAgree`, `WritesExist`, `WritesNumerals`).

The provers know nothing of `^`: `PowersOfTwo` says what is needed of it, which TLC
evaluates for the run's numbers of bits. `ArgumentsAssumption` says that the strings
passed for `%s` are sequences, and widths numbers.

### Only model-checked

Liveness, which is beyond the proof system's reach: every invariant and every action
property of the passing runs is a theorem.

## Not modelled

`PROJECT.json` gives the reason for each component.

* **Fork** (`vmcall_handle_fork.c`): the source says that it is not functional and
  not used.
* **Rumprun** (`src/platform/rumprun/`): this platform is behind. Its `sysmalloc.c`
  has no `sysmalloc_usable_size` and no `sysmalloc_spanned_pages`, which
  `dangless_malloc.c` calls, so there is no program whose steps could be
  modelled.
* **Statistics** (`statistics.c`): static records linked into a list before
  `main`, printed at the end; nothing fails and nothing is concurrent.
* **Performance counters** (`perf_events.c`): a measuring aid that is off by
  default; what it does is decided by the kernel's answers.
* **Diagnostics**: `dump_pt` and `dump_pte` print one entry after the other; the
  traces of `syscallmeta.c` and `dprintf.c` are wording.
* **The test framework** runs the unit tests in a row, and **build scripts** and
  **test programs** only use the allocator. They were read for what they say of it.
* Protection flags of page-table entries: every caller passes the same.
* The contents of memory: an access either reaches the chunk or does not.

## Plan

1. `ProtectedHeap`: the life of an allocation without pages or lists, which
   `DanglessMalloc` implements.
2. `PageTable` over all processors' TLBs, and `VmcallFixup` with threads, when the
   code supports them: at this commit both are known to be incomplete.
