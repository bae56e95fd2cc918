----------------------------- MODULE Bootstrap -----------------------------
(***************************************************************************)
(* Start-up of a process that dangless is linked into: the proxy of the    *)
(* system allocator (platform/dune/sysmalloc.c), which finds malloc and    *)
(* the others with dlsym when it is first called, and dangless_init        *)
(* (platform/dune/init.c).  Every name of the allocator is overridden, so  *)
(* what dlsym and dune_init allocate comes back to dangless while the      *)
(* first call is still in progress.                                        *)
(*                                                                         *)
(* `stack` is the call stack of the only thread there is before main.  A   *)
(* function is a frame with the place it has reached (pc); a step is what  *)
(* it does up to its next call.                                            *)
(***************************************************************************)
EXTENDS Integers, Sequences, FiniteSets, SequencesExt

CONSTANTS
  DuneInitAllocates, \* external: dune_init allocates memory on the host
  DlsymSize,         \* external: the bytes dlsym asks calloc for
  SpecialSize        \* DANGLESS_CONFIG_CALLOC_SPECIAL_BUFSIZE

ASSUME DuneAssumption == DuneInitAllocates \in BOOLEAN

ASSUME SpecialAssumption == DlsymSize \in Nat /\ SpecialSize \in Nat /\ DlsymSize <= SpecialSize

VARIABLES
  stack,        \* the calls in progress, the innermost last
  ret,          \* what the call that returned last gave its caller
  addr,         \* the functions whose addr_sys pointer is set
  populating,   \* g_populating
  storageUsed,  \* s_storage_used
  dlsymBuffer,  \* the memory dlsym got for its error message
  depth,        \* g_hook_depth
  inDune,       \* in_kernel_mode()
  initialized,  \* s_initalized
  records,      \* the restore buffer: not allocated yet, allocated, or refused
  hooks,        \* the vmcall hooks are registered
  remapped,     \* what do_vremap was given
  aborted       \* why the process was stopped

vars == <<stack, ret, addr, populating, storageUsed, dlsymBuffer, depth, inDune,
          initialized, records, hooks, remapped, aborted>>

proxyVars == <<addr, populating, storageUsed, dlsymBuffer>>
initVars == <<inDune, initialized, records, hooks>>

\* Mutant: the line HANDLE_SYM(free) is missing.
SymbolsWithoutFree == <<"malloc", "calloc", "realloc", "memalign">>

\* The order of the HANDLE_SYM lines.
Symbols == <<"malloc", "calloc", "realloc", "memalign", "free">>

Functions == {"malloc", "calloc", "realloc", "memalign", "free"}

\* What a pointer to memory is: NULL, a chunk of the system allocator,
\* s_storage, or whatever the caller's variable held before the call.
Memory == {"none", "chunk", "special", "unset"}

\* api: which of dangless_X and sysX a frame of the allocator is; k: the
\* lookup populate_addrs is at; p: the memory obtained; hooked: HOOK_ENTER
\* succeeded.
Frame == [fn : Functions \cup {"populate_addrs", "dlsym", "dangless_init"},
          api : {"dangless", "sys", ""},
          pc : {"start", "enter", "sys", "call", "vremap", "exit", "lookup", "bind",
                "buffer", "dune_enter", "restore_init", "hooks_init"},
          k : 1 .. 6, p : Memory, hooked : BOOLEAN]

NewFrame(fn, api, pc) ==
  [fn |-> fn, api |-> api, pc |-> pc, k |-> 1, p |-> "none", hooked |-> FALSE]

\* malloc, calloc and posix_memalign allocate first and enter the hook then.
SysFirst(fn) == fn \in {"malloc", "calloc", "memalign"}

Allocator(fn, api) ==
  NewFrame(fn, api, IF api = "sys" \/ SysFirst(fn) THEN "sys" ELSE "enter")

TypeOK ==
  /\ stack \in Seq(Frame) /\ Len(stack) <= 5
  /\ ret \in Memory \cup {"void"}
  /\ addr \subseteq Functions
  /\ populating \in BOOLEAN /\ storageUsed \in BOOLEAN
  /\ dlsymBuffer \in Memory
  /\ depth \in 0 .. 1
  /\ inDune \in BOOLEAN /\ initialized \in BOOLEAN /\ hooks \in BOOLEAN
  /\ records \in {"none", "allocated", "refused"}
  /\ remapped \subseteq Memory
  /\ aborted \in {"", "assertion", "null call", "symbol", "dune"}

Init ==
  /\ stack = <<>> /\ ret = "void"
  /\ addr = {} /\ populating = FALSE
  /\ storageUsed = FALSE /\ dlsymBuffer = "none"
  /\ depth = 0
  /\ inDune = FALSE /\ initialized = FALSE /\ records = "none" /\ hooks = FALSE
  /\ remapped = {}
  /\ aborted = ""

-----------------------------------------------------------------------------
(* The call stack. *)

Top == Last(stack)

At(fn, pc) == aborted = "" /\ stack # <<>> /\ Top.fn = fn /\ Top.pc = pc

InAllocator(pc) == \E fn \in Functions : At(fn, pc)

Goto(frame) == stack' = Append(Front(stack), frame) /\ UNCHANGED ret

CallFrom(frame, callee) ==
  stack' = Append(Append(Front(stack), frame), callee) /\ UNCHANGED ret

Return(val) == stack' = Front(stack) /\ ret' = val

Abort(why) == aborted' = why /\ UNCHANGED <<stack, ret>>

-----------------------------------------------------------------------------
(* populate_addrs and the dlsym it calls. *)

\* ASSERT(!g_populating, "Recursive populate_addrs() call!")
StartPopulating ==
  /\ At("populate_addrs", "start")
  /\ IF populating
     THEN Abort("assertion") /\ UNCHANGED populating
     ELSE /\ populating' = TRUE
          /\ Goto([Top EXCEPT !.pc = "lookup"])
          /\ UNCHANGED aborted
  /\ UNCHANGED <<addr, storageUsed, dlsymBuffer, depth, initVars, remapped>>

LookUp ==
  /\ At("populate_addrs", "lookup") /\ Top.k <= Len(Symbols)
  /\ CallFrom([Top EXCEPT !.pc = "bind"], NewFrame("dlsym", "", "start"))
  /\ UNCHANGED <<proxyVars, depth, initVars, remapped, aborted>>

\* Mutant: every lookup is for the first symbol.
BindForEver ==
  /\ At("populate_addrs", "bind")
  /\ addr' = addr \cup {Symbols[Top.k]}
  /\ Goto([Top EXCEPT !.pc = "lookup"])
  /\ UNCHANGED <<populating, storageUsed, dlsymBuffer, depth, initVars, remapped, aborted>>

\* dlsym and dlerror: the symbol may be missing.
Bind ==
  /\ At("populate_addrs", "bind")
  /\ \/ /\ addr' = addr \cup {Symbols[Top.k]}
        /\ Goto([Top EXCEPT !.pc = "lookup", !.k = @ + 1])
        /\ UNCHANGED aborted
     \/ Abort("symbol") /\ UNCHANGED addr
  /\ UNCHANGED <<populating, storageUsed, dlsymBuffer, depth, initVars, remapped>>

DonePopulating ==
  /\ At("populate_addrs", "lookup") /\ Top.k > Len(Symbols)
  /\ populating' = FALSE
  /\ Return("void")
  /\ UNCHANGED <<addr, storageUsed, dlsymBuffer, depth, initVars, remapped, aborted>>

\* External: the C library allocates the buffer of the error message when it
\* first needs it, with calloc; which lookup that is depends on the library.
DlsymAllocates ==
  /\ At("dlsym", "start") /\ dlsymBuffer = "none"
  /\ CallFrom([Top EXCEPT !.pc = "buffer"], Allocator("calloc", "dangless"))
  /\ UNCHANGED <<proxyVars, depth, initVars, remapped, aborted>>

DlsymReturns ==
  /\ \/ At("dlsym", "start") /\ UNCHANGED dlsymBuffer
     \/ At("dlsym", "buffer") /\ dlsymBuffer' = ret
  /\ Return("void")
  /\ UNCHANGED <<addr, populating, storageUsed, depth, initVars, remapped, aborted>>

-----------------------------------------------------------------------------
(* sysmalloc, syscalloc, sysrealloc, sysmemalign and sysfree. *)

\* Mutant: syscalloc does not ask whether populate_addrs is running.
NeedsSpecialUnlessBound == Top.fn = "calloc" /\ "calloc" \notin addr

\* Mutant: syscalloc has no special case.
NeedsSpecialNever == FALSE

\* syscalloc, called from inside the dlsym that looks for it.
NeedsSpecial == Top.fn = "calloc" /\ "calloc" \notin addr /\ populating

\* posix_memalign returns before it enters the hook when the result is not 0.
ReturnsAtOnce(p) == Top.api = "sys" \/ (Top.fn = "memalign" /\ p = "none")

\* The function has its memory; dangless_X goes on with it, sysX returns it.
HasMemory(p) ==
  \/ ReturnsAtOnce(p) /\ Return(p)
  \/ ~ReturnsAtOnce(p) /\ SysFirst(Top.fn) /\ Goto([Top EXCEPT !.p = p, !.pc = "enter"])
  \/ ~ReturnsAtOnce(p) /\ ~SysFirst(Top.fn) /\ ~Top.hooked /\ Return(p)
  \/ /\ ~ReturnsAtOnce(p) /\ ~SysFirst(Top.fn) /\ Top.hooked
     /\ Goto([Top EXCEPT !.p = p, !.pc = IF Top.fn = "realloc" THEN "vremap" ELSE "exit"])

Proxy ==
  /\ InAllocator("sys") /\ ~NeedsSpecial
  /\ IF Top.fn \in addr
     THEN Goto([Top EXCEPT !.pc = "call"])
     ELSE CallFrom([Top EXCEPT !.pc = "call"], NewFrame("populate_addrs", "", "start"))
  /\ UNCHANGED <<proxyVars, depth, initVars, remapped, aborted>>

\* syscalloc_special: the storage is there once, and must be large enough.
Special ==
  /\ InAllocator("sys") /\ NeedsSpecial
  /\ IF storageUsed \/ SpecialSize < DlsymSize
     THEN Abort("assertion") /\ UNCHANGED storageUsed
     ELSE storageUsed' = TRUE /\ HasMemory("special") /\ UNCHANGED aborted
  /\ UNCHANGED <<addr, populating, dlsymBuffer, depth, initVars, remapped>>

\* What the function found by dlsym gives; the system allocator may refuse.
\* Under the name of memalign, addr_sysmemalign is called as posix_memalign is:
\* pp is taken for the alignment, and align for the size.  A pointer comes back
\* as a result that is not 0; NULL comes back as 0, with *pp as it was.
Given(fn) ==
  IF fn = "free" THEN {"none"}
  ELSE IF fn = "memalign" THEN {"none", "unset"} ELSE {"chunk", "none"}

CallSystem ==
  /\ InAllocator("call")
  /\ IF Top.fn \in addr
     THEN (\E p \in Given(Top.fn) : HasMemory(p)) /\ UNCHANGED aborted
     ELSE Abort("null call")
  /\ UNCHANGED <<proxyVars, depth, initVars, remapped>>

-----------------------------------------------------------------------------
(* The entry points of dangless_malloc.c around the proxy. *)

\* HOOK_ENTER
HookEnter ==
  /\ InAllocator("enter")
  /\ IF depth = 0 /\ inDune
     THEN /\ depth' = 1
          /\ Goto([Top EXCEPT !.hooked = TRUE,
                              !.pc = IF SysFirst(Top.fn) THEN "vremap" ELSE "sys"])
     ELSE /\ IF SysFirst(Top.fn) THEN Return(Top.p) ELSE Goto([Top EXCEPT !.pc = "sys"])
          /\ UNCHANGED depth
  /\ UNCHANGED <<proxyVars, initVars, remapped, aborted>>

\* do_vremap; giving back or dedicating virtual pages takes a vp_span from
\* sysmalloc.
Vremap ==
  /\ InAllocator("vremap")
  /\ remapped' = remapped \cup ({Top.p} \ {"none"})
  /\ \/ Goto([Top EXCEPT !.pc = "exit"])
     \/ /\ Top.p # "none"
        /\ CallFrom([Top EXCEPT !.pc = "exit"], Allocator("malloc", "sys"))
  /\ UNCHANGED <<proxyVars, depth, initVars, aborted>>

\* Mutant: realloc returns without HOOK_EXIT.
HookExitSkipped ==
  /\ InAllocator("exit")
  /\ IF Top.fn = "realloc" THEN UNCHANGED depth ELSE depth' = 0
  /\ Return(Top.p)
  /\ UNCHANGED <<proxyVars, initVars, remapped, aborted>>

\* HOOK_RETURN
HookExit ==
  /\ InAllocator("exit")
  /\ depth' = 0
  /\ Return(Top.p)
  /\ UNCHANGED <<proxyVars, initVars, remapped, aborted>>

-----------------------------------------------------------------------------
(* dangless_init. *)

\* The guard, and dune_init: external, it may allocate before it fails or not.
StartInit ==
  /\ At("dangless_init", "start")
  /\ IF initialized
     THEN Return("void") /\ UNCHANGED initialized
     ELSE /\ initialized' = TRUE
          /\ IF DuneInitAllocates
             THEN CallFrom([Top EXCEPT !.pc = "dune_enter"], Allocator("malloc", "dangless"))
             ELSE Goto([Top EXCEPT !.pc = "dune_enter"])
  /\ UNCHANGED <<proxyVars, depth, inDune, records, hooks, remapped, aborted>>

EnterDune ==
  /\ At("dangless_init", "dune_enter")
  /\ \/ /\ inDune' = TRUE
        /\ Goto([Top EXCEPT !.pc = "restore_init"])
        /\ UNCHANGED aborted
     \/ Abort("dune") /\ UNCHANGED inDune
  /\ UNCHANGED <<proxyVars, depth, initialized, records, hooks, remapped>>

\* Mutant: vmcall_fixup_restore_init calls realloc.
RestoreInitHooked ==
  /\ At("dangless_init", "restore_init")
  /\ CallFrom([Top EXCEPT !.pc = "hooks_init"], Allocator("realloc", "dangless"))
  /\ UNCHANGED <<proxyVars, depth, initVars, remapped, aborted>>

\* vmcall_fixup_restore_init calls sysrealloc, not realloc: no hook is entered.
RestoreInit ==
  /\ At("dangless_init", "restore_init")
  /\ CallFrom([Top EXCEPT !.pc = "hooks_init"], Allocator("realloc", "sys"))
  /\ UNCHANGED <<proxyVars, depth, initVars, remapped, aborted>>

\* The result of sysrealloc is not looked at; then vmcall_hooks_init and the
\* page-fault handler.
HooksInit ==
  /\ At("dangless_init", "hooks_init")
  /\ records' = IF ret = "chunk" THEN "allocated" ELSE "refused"
  /\ hooks' = TRUE
  /\ Return("void")
  /\ UNCHANGED <<proxyVars, depth, inDune, initialized, remapped, aborted>>

-----------------------------------------------------------------------------

\* What runs before main: constructors that allocate, in any order with
\* dangless_init, which the program may also call again.
ProgramCalls ==
  /\ aborted = "" /\ stack = <<>>
  /\ \E frame \in {Allocator(fn, "dangless") : fn \in Functions}
                  \cup {NewFrame("dangless_init", "", "start")} :
       stack' = <<frame>>
  /\ UNCHANGED <<ret, proxyVars, depth, initVars, remapped, aborted>>

Step ==
  \/ StartPopulating \/ LookUp \/ Bind \/ DonePopulating
  \/ DlsymAllocates \/ DlsymReturns
  \/ Proxy \/ Special \/ CallSystem
  \/ HookEnter \/ Vremap \/ HookExit
  \/ StartInit \/ EnterDune \/ RestoreInit \/ HooksInit

Next == ProgramCalls \/ Step

Spec == Init /\ [][Next]_vars

\* Nothing stops the only thread in the middle of a call.
FairSpec == Spec /\ WF_vars(Step)

-----------------------------------------------------------------------------
(***************************************************************************)
(* Properties                                                              *)
(***************************************************************************)

\* The static storage of syscalloc_special goes to dlsym and to nobody else:
\* no other caller of calloc gets it, and do_vremap, which would look for the
\* header of a chunk in front of it, is never given it.
SpecialStaysInDlsym ==
  /\ "special" \notin remapped
  /\ ret = "special" => dlsymBuffer = "special" \/ Top.fn = "dlsym"
  /\ \A i \in DOMAIN stack :
       stack[i].p = "special" => i > 1 /\ stack[i - 1].fn = "dlsym"

\* Whichever function is called first, and wherever dlsym calls back, no
\* assertion of the proxy fails and no function is called before its address
\* is known.
StartupSurvives == aborted \notin {"assertion", "null call"}

\* A call in which HOOK_ENTER succeeded is in progress exactly while the depth
\* says so; a depth left behind would turn the protection off for good.
HooksBalanced == depth = Cardinality({i \in DOMAIN stack : stack[i].hooked})

\* No memory is remapped before system calls are fixed up: the kernel does not
\* know the aliases, and what dangless allocates for itself during its own
\* initialisation has none.
RemapsAfterHooks == remapped # {} => hooks

\* Start-up ends: every call returns, however the functions call each other,
\* unless the process is stopped.
CallsReturn == stack # <<>> ~> (stack = <<>> \/ aborted # "")
=============================================================================
