---------------------------- MODULE VmcallFixup ----------------------------
(***************************************************************************)
(* System calls under Dune: vmcall_hooks.c, vmcall_fixup.c and             *)
(* vmcall_fixup_restore.c.                                                 *)
(*                                                                         *)
(* The host kernel does not know the aliases dangless hands out.  The      *)
(* pre-hook replaces every alias that a system call's arguments reach by   *)
(* the canonical pointer.  Where such a pointer lies in the program's own  *)
(* memory, a record of the original is kept, and the post-hook puts it     *)
(* back, so that the program never gets to see a canonical pointer.        *)
(*                                                                         *)
(* Memory is a set of places that hold pointers: <<o, i>> is the i-th      *)
(* pointer stored in object o, <<HookStack, k>> the k-th argument of the   *)
(* system call, on the stack of the hook.  A step is the fix-up or the     *)
(* restoration of one pointer.                                             *)
(*                                                                         *)
(* There is one thread, as in the default build; the records are global    *)
(* and the source says they are not safe for more.  What system calls the  *)
(* hooks make themselves, to grow the buffer, reach the kernel directly:   *)
(* Dune runs no hook inside a hook.                                        *)
(***************************************************************************)
EXTENDS Integers, Sequences, FiniteSets, SequencesExt

CONSTANTS
  Objects,         \* the program's memory objects
  Kind,            \* per object, the parameter type it is passed as
  Remapped,        \* the objects the program knows by an alias
  MaxItems,        \* length of the arrays of iovecs and of pointers
  Params,          \* per system call, the fix-up types of its parameters
  HighBrk,         \* the call brk(p) with p above 4 GB
  InitialCapacity, \* ...VMCALL_FIXUP_RESTORE_INITIAL_BUFFER_SIZE
  GrowMayFail      \* whether sysrealloc may refuse to grow the buffer

HookStack == "hook stack"

NoObject == "no object"

NoCall == "no call"

PointerTypes == {"FLAT_PTR", "IOVEC", "PTR_PTR", "MSGHDR"}

ParamTypes == PointerTypes \cup {"NONE"}

ASSUME ObjectsAssumption ==
  /\ Kind \in [Objects -> PointerTypes] /\ Remapped \subseteq Objects
  /\ HookStack \notin Objects /\ NoObject \notin Objects /\ MaxItems \in Nat

ASSUME CallsAssumption ==
  /\ Params \in [DOMAIN Params -> Seq(ParamTypes)]
  /\ HighBrk \in DOMAIN Params

\* vmcall_fixup_restore_init does not check that it got the buffer; here it did.
ASSUME BufferAssumption == InitialCapacity \in Nat \ {0} /\ GrowMayFail \in BOOLEAN

VARIABLES
  mem,          \* the pointer in each place
  written,      \* what the program last wrote to each place of its memory
  freed,        \* the aliases that dangless_free has invalidated
  current,      \* g_current_syscallno and g_current_syscall_args
  records,      \* g_records, up to g_record_count
  capacity,     \* g_records_capacity
  lost,         \* history: the places whose record was dropped for want of room
  op            \* where the program is: in itself or in a system call

vars == <<mem, written, freed, current, records, capacity, lost, op>>

programVars == <<written, freed>>
bufferVars == <<records, capacity, lost>>

Null == [form |-> "null", to |-> NoObject]

Alias(o) == [form |-> "alias", to |-> o]

\* What sysmalloc returned, or the address of memory dangless does not manage.
Canonical(o) == [form |-> "canonical", to |-> o]

Pointer == [form : {"null", "alias", "canonical"}, to : Objects \cup {NoObject}]

NumCells(o) ==
  CASE Kind[o] = "MSGHDR" -> 3
    [] Kind[o] \in {"IOVEC", "PTR_PTR"} -> MaxItems
    [] OTHER -> 0

Cells == UNION {{<<o, i>> : i \in 1 .. NumCells(o)} : o \in Objects}

Arguments == {HookStack} \X UNION {DOMAIN Params[c] : c \in DOMAIN Params}

Places == Cells \cup Arguments

\* One pointer still to be looked at, and the depth of FIXUP_SCOPE there.
Task(at, type, depth) == [at |-> at, type |-> type, depth |-> depth]

Frame == [pc : {"idle", "fixup", "kernel", "restore"}, call : DOMAIN Params,
          count : 0 .. MaxItems, i : Nat, refused : BOOLEAN,
          work : Seq([at : Places, type : ParamTypes, depth : 1 .. 3])]

Idle == [pc |-> "idle", call |-> HighBrk, count |-> 0, i |-> 0, refused |-> FALSE,
         work |-> <<>>]

TypeOK ==
  /\ mem \in [Places -> Pointer]
  /\ written \in [Cells -> Pointer]
  /\ freed \subseteq Remapped
  /\ current \in DOMAIN Params \cup {NoCall}
  /\ records \in Seq([at : Places, value : Pointer])
  /\ capacity \in Nat
  /\ lost \subseteq Cells
  /\ op \in Frame

\* dangless_init has run: vmcall_fixup_restore_init got its buffer.
Init ==
  /\ mem = [p \in Places |-> Null]
  /\ written = [c \in Cells |-> Null]
  /\ freed = {}
  /\ current = NoCall
  /\ records = <<>>
  /\ capacity = InitialCapacity
  /\ lost = {}
  /\ op = Idle

-----------------------------------------------------------------------------
(***************************************************************************)
(* The program, between its system calls.                                  *)
(***************************************************************************)

PointerTo(o) == IF o \in Remapped THEN Alias(o) ELSE Canonical(o)

PointersFor(type) == {Null} \cup {PointerTo(o) : o \in {x \in Objects : Kind[x] = type}}

CellType(c) == IF Kind[c[1]] = "MSGHDR" /\ c[2] = 2 THEN "IOVEC" ELSE "FLAT_PTR"

InProgram == op.pc = "idle"

\* The program stores a pointer it has, which may be dangling.
Assign(c, p) ==
  /\ InProgram
  /\ c[1] \notin freed /\ p # written[c]
  /\ mem' = [mem EXCEPT ![c] = p]
  /\ written' = [written EXCEPT ![c] = p]
  /\ lost' = lost \ {c}
  /\ UNCHANGED <<freed, current, records, capacity, op>>

Free(o) ==
  /\ InProgram
  /\ freed' = freed \cup {o}
  /\ UNCHANGED <<mem, written, current, bufferVars, op>>

-----------------------------------------------------------------------------
(***************************************************************************)
(* The pre-hook.                                                           *)
(***************************************************************************)

\* vmcall_fixup_args: the parameters in their order.  The argument for one that
\* needs no fix-up is Null here, and is skipped; the parameter after an IOVEC
\* is its length, of type NONE.
ArgumentTasks(no, args) ==
  [k \in 1 .. Len(args) |-> Task(<<HookStack, k>>, Params[no][k], 1)]

\* Mutant: only a call with arguments to fix up becomes the current one.
CurrentIfKnown(no, args) ==
  current' = IF \A k \in DOMAIN args : args[k] = Null THEN current ELSE no

BecomesCurrent(no, args) == current' = no

\* The program makes a system call: the pre-hook up to vmcall_fixup_args.
SystemCall(no, args, count) ==
  /\ InProgram
  /\ mem' = [p \in Places |->
               IF p[1] = HookStack
               THEN IF p[2] <= Len(args) THEN args[p[2]] ELSE Null
               ELSE mem[p]]
  /\ BecomesCurrent(no, args)
  /\ op' = [Idle EXCEPT !.pc = "fixup", !.call = no, !.count = count,
                        !.work = ArgumentTasks(no, args)]
  /\ UNCHANGED <<programVars, bufferVars>>

\* The items of a null-terminated array: those before the first NULL.
NumPointers(o) ==
  Cardinality({i \in 1 .. MaxItems : \A j \in 1 .. i : mem[<<o, j>>] # Null})

\* Mutant: msg_control is forgotten.
NestedWithoutControl(task, o) ==
  LET d == task.depth + 1
      FlatPtrs(n) == [i \in 1 .. n |-> Task(<<o, i>>, "FLAT_PTR", d)]
  IN  CASE task.type = "IOVEC"   -> FlatPtrs(op.count)
        [] task.type = "PTR_PTR" -> FlatPtrs(NumPointers(o))
        [] task.type = "MSGHDR"  ->
             <<Task(<<o, 1>>, "FLAT_PTR", d), Task(<<o, 2>>, "IOVEC", d)>>
        [] OTHER -> <<>>

\* Mutant: the loop over the iovecs runs while i <= num_iovecs.
NestedOneMore(task, o) ==
  LET d == task.depth + 1
      FlatPtrs(n) == [i \in 1 .. n |-> Task(<<o, i>>, "FLAT_PTR", d)]
  IN  CASE task.type = "IOVEC"   -> FlatPtrs(op.count + 1)
        [] task.type = "PTR_PTR" -> FlatPtrs(NumPointers(o))
        [] task.type = "MSGHDR"  ->
             <<Task(<<o, 1>>, "FLAT_PTR", d), Task(<<o, 2>>, "IOVEC", d),
               Task(<<o, 3>>, "FLAT_PTR", d)>>
        [] OTHER -> <<>>

\* The pointers in an object, in the order in which they are fixed up:
\* fixup_iovec_array, fixup_ptr_ptr_nullterm, and in fixup_msghdr the members
\* msg_name, msg_iov (op.count is msg_iovlen) and msg_control.
Nested(task, o) ==
  LET d == task.depth + 1
      FlatPtrs(n) == [i \in 1 .. n |-> Task(<<o, i>>, "FLAT_PTR", d)]
  IN  CASE task.type = "IOVEC"   -> FlatPtrs(op.count)
        [] task.type = "PTR_PTR" -> FlatPtrs(NumPointers(o))
        [] task.type = "MSGHDR"  ->
             <<Task(<<o, 1>>, "FLAT_PTR", d), Task(<<o, 2>>, "IOVEC", d),
               Task(<<o, 3>>, "FLAT_PTR", d)>>
        [] OTHER -> <<>>

\* vremap_resolve: an invalidated alias has no physical memory behind it.
Dangling(p) == p.form = "alias" /\ p.to \in freed

ResolvesTo(p, o) == p.form = "alias" /\ p.to = o /\ o \notin freed

\* Mutant: the buffer grows one record too late.
RecordLate(at, value) ==
  \/ /\ Len(records) <= capacity
     /\ records' = Append(records, [at |-> at, value |-> value])
     /\ UNCHANGED <<capacity, lost>>
  \/ /\ Len(records) > capacity
     /\ capacity' = 2 * capacity
     /\ records' = Append(records, [at |-> at, value |-> value])
     /\ UNCHANGED lost

\* vmcall_fixup_restore_on_return: without room, the buffer is grown to twice
\* its capacity, and if that fails there will be no restoration.
Record(at, value) ==
  \/ /\ Len(records) # capacity
     /\ records' = Append(records, [at |-> at, value |-> value])
     /\ UNCHANGED <<capacity, lost>>
  \/ /\ Len(records) = capacity
     /\ capacity' = 2 * capacity
     /\ records' = Append(records, [at |-> at, value |-> value])
     /\ UNCHANGED lost
  \/ /\ Len(records) = capacity /\ GrowMayFail
     /\ lost' = lost \cup {at}
     /\ UNCHANGED <<records, capacity>>

\* Mutant: pointers at the first level count as nested.
NestedFromStart(task) == task.depth > 0

RunningNested(task) == task.depth > 1

\* Mutant: the loop does not go on to the next pointer.
SkipForEver ==
  /\ mem[Head(op.work).at] = Null \/ Dangling(mem[Head(op.work).at])
  /\ UNCHANGED <<mem, bufferVars, op>>

\* No pointer, NULL or a dangling pointer: left alone, and not followed.
SkipInvalid ==
  /\ mem[Head(op.work).at] = Null \/ Dangling(mem[Head(op.work).at])
  /\ op' = [op EXCEPT !.work = Tail(@)]
  /\ UNCHANGED <<mem, bufferVars>>

\* VREM_NOT_REMAPPED: left alone, but what it points to is fixed up next.
LeaveCanonical ==
  LET task == Head(op.work)
  IN  /\ mem[task.at].form = "canonical"
      /\ op' = [op EXCEPT !.work = Nested(task, mem[task.at].to) \o Tail(@)]
      /\ UNCHANGED <<mem, bufferVars>>

ReplaceAlias ==
  LET task == Head(op.work)
      p    == mem[task.at]
  IN  \E o \in Objects :
        /\ ResolvesTo(p, o)
        /\ mem' = [mem EXCEPT ![task.at] = Canonical(o)]
        /\ IF RunningNested(task) THEN Record(task.at, p) ELSE UNCHANGED bufferVars
        /\ op' = [op EXCEPT !.work = Nested(task, o) \o Tail(@)]

\* fixup_ptr on the next pointer.
FixPointer ==
  /\ op.pc = "fixup" /\ op.work # <<>>
  /\ SkipInvalid \/ LeaveCanonical \/ ReplaceAlias
  /\ UNCHANGED <<programVars, current>>

PrehookDone ==
  /\ op.pc = "fixup" /\ op.work = <<>>
  /\ op' = [op EXCEPT !.pc = "kernel"]
  /\ UNCHANGED <<mem, programVars, current, bufferVars>>

-----------------------------------------------------------------------------
(***************************************************************************)
(* The call itself, and the post-hook.                                     *)
(***************************************************************************)

\* The post-hook begins by judging brk(): above 4 GB it pretends failure.
VmcallReturns ==
  /\ op.pc = "kernel"
  /\ op' = [op EXCEPT !.pc = "restore", !.i = 1, !.refused = (current = HighBrk)]
  /\ UNCHANGED <<mem, programVars, current, bufferVars>>

RestorePointer ==
  /\ op.pc = "restore" /\ op.i <= Len(records)
  /\ mem' = [mem EXCEPT ![records[op.i].at] = records[op.i].value]
  /\ op' = [op EXCEPT !.i = @ + 1]
  /\ UNCHANGED <<programVars, current, bufferVars>>

\* Mutant: g_record_count is not reset.
PosthookKeepsRecords ==
  /\ op.pc = "restore" /\ op.i > Len(records)
  /\ op' = Idle
  /\ UNCHANGED <<mem, programVars, current, bufferVars>>

PosthookDone ==
  /\ op.pc = "restore" /\ op.i > Len(records)
  /\ records' = <<>>
  /\ op' = Idle
  /\ UNCHANGED <<mem, programVars, current, capacity, lost>>

-----------------------------------------------------------------------------

Program ==
  \/ \E c \in Cells : \E p \in PointersFor(CellType(c)) : Assign(c, p)
  \/ \E o \in Remapped \ freed : Free(o)

ArgumentsOf(no) ==
  {args \in [1 .. Len(Params[no]) -> UNION {PointersFor(type) : type \in ParamTypes}] :
     \A k \in 1 .. Len(Params[no]) : args[k] \in PointersFor(Params[no][k])}

\* The length given with a vector of iovecs; other calls have none.
CountsFor(no) ==
  IF \E k \in DOMAIN Params[no] : Params[no][k] \in {"IOVEC", "MSGHDR"}
  THEN 0 .. MaxItems ELSE {0}

Call ==
  \E no \in DOMAIN Params : \E args \in ArgumentsOf(no), count \in CountsFor(no) :
    SystemCall(no, args, count)

Step ==
  FixPointer \/ PrehookDone \/ VmcallReturns \/ RestorePointer \/ PosthookDone

Next == Program \/ Call \/ Step

Spec == Init /\ [][Next]_vars

\* A thread in a system call runs on: no hook waits for anything.
FairSpec == Spec /\ WF_vars(Step)

-----------------------------------------------------------------------------
(***************************************************************************)
(* Properties                                                              *)
(***************************************************************************)

\* The places the kernel follows from a set of places: it reads the iovecs it
\* was given, the pointers before the first NULL, and all members of a msghdr.
PlacesIn(o) ==
  {c \in Cells : c[1] = o /\
     CASE Kind[o] = "IOVEC"   -> c[2] <= op.count
       [] Kind[o] = "PTR_PTR" -> \A j \in 1 .. c[2] : mem[<<o, j>>] # Null
       [] OTHER -> TRUE}

Follow(places) ==
  places \cup UNION {PlacesIn(mem[p].to) :
                       p \in {q \in places : mem[q] # Null /\ ~Dangling(mem[q])}}

KernelReads ==
  LET args == {<<HookStack, k>> : k \in {j \in DOMAIN Params[op.call] :
                                   Params[op.call][j] # "NONE"}}
  IN  Follow(Follow(args))

\* The kernel meets no alias of valid memory, directly or through structures,
\* two levels down: it would choke on it (comment of dangless_vmcall_prehook).
KernelSeesCanonical ==
  op.pc = "kernel" =>
    \A p \in KernelReads : mem[p].form = "alias" => Dangling(mem[p])

\* When no call is in progress, the program's memory is what the program made
\* it: no canonical pointer is left behind, and no record of an earlier call
\* overwrites what the program has written since.  Where the buffer could not
\* grow, the pointer is the canonical form of the program's, and only there.
MemoryRestored ==
  InProgram =>
    \A c \in Cells :
      mem[c] = IF c \in lost THEN Canonical(written[c].to) ELSE written[c]

\* The comment at fixup_ptr without the exception: every nested pointer is put
\* back before the call returns to the program.
MemoryAlwaysRestored == InProgram => \A c \in Cells : mem[c] = written[c]

\* While a call is in progress, the records are exactly what has to be put
\* back: every changed place of the program's memory for which there was room
\* has one record, with its original pointer, and none is about the stack of
\* the hook, which is gone when the post-hook runs.  None is written past the
\* end of the buffer.
RecordsAccurate ==
  op.pc \in {"fixup", "kernel"} =>
    /\ Len(records) <= capacity
    /\ \A i, j \in DOMAIN records : records[i].at = records[j].at => i = j
    /\ \A i \in DOMAIN records :
         /\ records[i].at \in Cells
         /\ records[i].value = written[records[i].at]
    /\ \A c \in Cells : mem[c] # written[c] =>
         c \in lost \/ \E i \in DOMAIN records : records[i].at = c

\* The post-hook judges the call it belongs to: brk() above 4 GB is refused,
\* and no other call is.
RefusesHighBrk ==
  op.pc = "restore" => (op.refused <=> op.call = HighBrk)

\* Every system call returns to the program: fix-up ends, whatever structure
\* the pointers form, and so does restoring.
CallsReturn == op.pc # "idle" ~> op.pc = "idle"
=============================================================================
