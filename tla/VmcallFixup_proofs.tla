------------------------ MODULE VmcallFixup_proofs ------------------------
(***************************************************************************)
(* Proofs about the system-call hooks, for every set of system calls, of   *)
(* objects and for every size of the buffer.                               *)
(*                                                                         *)
(* The argument has two halves.  Memory: whatever differs from what the    *)
(* program wrote differs by the canonical form of the same pointer, and    *)
(* either has one record from now until the post-hook gets to it, or is    *)
(* one of the places for which there was no room.  Coverage: of the places *)
(* the kernel will follow from the arguments, each is either still to be   *)
(* looked at or in order, and then so is, in the same sense, what it       *)
(* points to.  When nothing is left to be looked at, all are in order.     *)
(***************************************************************************)
EXTENDS VmcallFixup, FiniteSetTheorems, SequenceTheorems, WellFoundedInduction, TLAPS

InCall == op.pc # "idle"

Calling == op.pc \in {"fixup", "kernel"}

\* A pointer that may be passed as a parameter of a type.
Fits(p, type) ==
  p = Null \/ (/\ p.form \in {"alias", "canonical"} /\ p.to \in Objects
               /\ Kind[p.to] = type)

\* What the program wrote, and what the hooks made of it, is of the kind that
\* belongs in the place; and so are the arguments.
PointersTyped ==
  /\ \A c \in Cells : Fits(written[c], CellType(c)) /\ Fits(mem[c], CellType(c))
  /\ InCall => \A k \in DOMAIN Params[op.call] :
                 Fits(mem[<<HookStack, k>>], Params[op.call][k])

\* A pointer still to be looked at lies at the depth its type allows: the
\* arguments on the stack of the hook, everything else in the program's memory.
TaskOK(task) ==
  \/ /\ task.depth = 1
     /\ \E k \in DOMAIN Params[op.call] :
          task.at = <<HookStack, k>> /\ task.type = Params[op.call][k]
  \/ /\ task.depth \in {2, 3} /\ task.at \in Cells
     /\ task.type = CellType(task.at)
     /\ task.depth = 3 => task.type = "FLAT_PTR"

WorkOK ==
  /\ \A i \in DOMAIN op.work : TaskOK(op.work[i])
  /\ op.pc # "fixup" => op.work = <<>>

\* The records, and what they are of.  The post-hook has put back those before
\* op.i.
Outstanding(c) ==
  \E i \in DOMAIN records : records[i].at = c /\ (op.pc = "restore" => i >= op.i)

RecordsOK ==
  /\ op.pc = "idle" => records = <<>>
  /\ Len(records) <= capacity /\ capacity > 0
  /\ \A i, j \in DOMAIN records : records[i].at = records[j].at => i = j
  /\ \A i \in DOMAIN records :
       /\ records[i].at \in Cells \ lost
       /\ records[i].value = written[records[i].at]
       /\ Calling => mem[records[i].at].form = "canonical"

\* What differs from what the program wrote is lost or recorded.
MemoryOK ==
  /\ \A c \in lost : mem[c] = Canonical(written[c].to)
  /\ \A c \in Cells \ lost : mem[c] = written[c] \/ Outstanding(c)

CallOK ==
  /\ InCall => current = op.call
  /\ op.pc = "restore" => op.i > 0 /\ (op.refused <=> op.call = HighBrk)

-----------------------------------------------------------------------------
(* Coverage. *)

Pending(p) == \E i \in DOMAIN op.work : op.work[i].at = p

InOrder(p) == mem[p].form = "alias" => Dangling(mem[p])

Followed(p) == mem[p] # Null /\ ~Dangling(mem[p])

\* In order or to be looked at; with what it points to; and two levels down.
Covered(p) == Pending(p) \/ InOrder(p)

CoveredOnce(p) ==
  \/ Pending(p)
  \/ InOrder(p) /\ (Followed(p) => \A c \in PlacesIn(mem[p].to) : Covered(c))

CoveredTwice(p) ==
  \/ Pending(p)
  \/ InOrder(p) /\ (Followed(p) => \A c \in PlacesIn(mem[p].to) : CoveredOnce(c))

ArgumentPlaces ==
  {<<HookStack, k>> : k \in {j \in DOMAIN Params[op.call] : Params[op.call][j] # "NONE"}}

Coverage == Calling => \A p \in ArgumentPlaces : CoveredTwice(p)

IInv == TypeOK /\ PointersTyped /\ WorkOK /\ RecordsOK /\ MemoryOK /\ CallOK /\ Coverage

-----------------------------------------------------------------------------
(* The places and the pointers in an object. *)

\* The program's memory and the stack of the hook have no place in common.
LEMMA PlaceFacts ==
  /\ \A c \in Cells : /\ c \in Places /\ c[1] \in Objects /\ c[1] # HookStack
                      /\ c = <<c[1], c[2]>> /\ c[2] \in 1 .. NumCells(c[1])
  /\ \A a \in Arguments : a \in Places /\ a \notin Cells /\ a[1] = HookStack
  /\ \A no \in DOMAIN Params : \A k \in DOMAIN Params[no] : <<HookStack, k>> \in Arguments
BY ObjectsAssumption DEF Cells, Places, Arguments

LEMMA CellsOf ==
  \A o \in Objects :
    /\ NumCells(o) \in Nat
    /\ Kind[o] = "MSGHDR" => NumCells(o) = 3
    /\ Kind[o] \in {"IOVEC", "PTR_PTR"} => NumCells(o) = MaxItems
    /\ Kind[o] = "FLAT_PTR" => NumCells(o) = 0
    /\ \A i \in 1 .. NumCells(o) : <<o, i>> \in Cells
<1>1. ASSUME NEW o \in Objects
      PROVE /\ Kind[o] = "MSGHDR" => NumCells(o) = 3
            /\ Kind[o] \in {"IOVEC", "PTR_PTR"} => NumCells(o) = MaxItems
            /\ Kind[o] = "FLAT_PTR" => NumCells(o) = 0
            /\ Kind[o] \in PointerTypes
  BY ObjectsAssumption DEF NumCells, PointerTypes
<1>2. ASSUME NEW o \in Objects PROVE NumCells(o) \in Nat
  BY <1>1, ObjectsAssumption DEF PointerTypes
<1>3. \A o \in Objects : \A i \in 1 .. NumCells(o) : <<o, i>> \in Cells
  BY DEF Cells
<1> QED BY <1>1, <1>2, <1>3

LEMMA ParamFacts ==
  \A no \in DOMAIN Params :
    /\ Params[no] \in Seq(ParamTypes)
    /\ \A k \in DOMAIN Params[no] : Params[no][k] \in ParamTypes /\ k \in Nat
BY CallsAssumption

\* The places the kernel finds in an object.
LEMMA InPlaces ==
  ASSUME NEW o \in Objects, NEW c
  PROVE  c \in PlacesIn(o) <=>
           /\ c \in Cells /\ c[1] = o
           /\ Kind[o] = "IOVEC" => c[2] <= op.count
           /\ Kind[o] = "PTR_PTR" => \A j \in 1 .. c[2] : mem[<<o, j>>] # Null
<1>1. CASE Kind[o] = "IOVEC"
  BY <1>1 DEF PlacesIn
<1>2. CASE Kind[o] = "PTR_PTR"
  BY <1>2 DEF PlacesIn
<1>3. CASE Kind[o] # "IOVEC" /\ Kind[o] # "PTR_PTR"
  BY <1>3 DEF PlacesIn
<1> QED BY <1>1, <1>2, <1>3

\* A set of numbers that has, with each of them, all the smaller ones is the
\* set of the first numbers, as many as it has elements.
LEMMA InitialSegment ==
  ASSUME NEW M \in Nat, NEW S \in SUBSET (1 .. M),
         \A i \in S : \A j \in 1 .. i : j \in S
  PROVE  Cardinality(S) \in 0 .. M /\ S = 1 .. Cardinality(S)
<1> DEFINE Out == {i \in Nat \ {0} : i \notin S}
<1>1. Out \subseteq Nat /\ M + 1 \in Out
  OBVIOUS
<1>2. PICK n \in Out : \A m \in Out : ~(<<m, n>> \in OpToRel(<, Nat))
  <2> HIDE DEF Out
  <2> QED BY <1>1, NatLessThanWellFounded, WFMin
<1>3. \A m \in Out : ~(m < n)
  BY <1>1, <1>2 DEF OpToRel
<1>4. n \in Nat \ {0} /\ n \notin S /\ n <= M + 1
  <2>1. n \in Nat \ {0} /\ n \notin S
    BY <1>2
  <2>2. ~(M + 1 < n)
    <3> HIDE DEF Out
    <3> QED BY <1>1, <1>3
  <2> QED BY <2>1, <2>2
<1>5. ASSUME NEW i \in 1 .. (n - 1) PROVE i \in S
  BY <1>3, <1>4
<1>6. ASSUME NEW i \in S PROVE i \in 1 .. (n - 1)
  <2>1. i \in 1 .. M
    BY <1>6
  <2>2. n \in 1 .. i => n \in S
    BY <1>6
  <2> QED BY <2>1, <2>2, <1>4
<1>7. S = 1 .. (n - 1) /\ n - 1 \in 0 .. M
  <2>1. S = 1 .. (n - 1)
    BY ONLY <1>5, <1>6, Zenon
  <2>2. n - 1 \in 0 .. M
    BY ONLY <1>4, M \in Nat
  <2> QED BY ONLY <2>1, <2>2
<1>8. Cardinality(S) = n - 1
  <2>1. Cardinality(1 .. (n - 1)) = IF 1 > n - 1 THEN 0 ELSE (n - 1) - 1 + 1
    BY <1>4, FS_Interval
  <2> QED BY <2>1, <1>4, <1>7
<1> QED BY <1>7, <1>8


\* fixup_ptr_ptr_nullterm looks at the pointers before the first NULL.
LEMMA PointersCounted ==
  ASSUME NEW o
  PROVE  /\ NumPointers(o) \in 0 .. MaxItems
         /\ \A i \in 1 .. MaxItems :
              i <= NumPointers(o) <=> \A j \in 1 .. i : mem[<<o, j>>] # Null
<1> DEFINE S == {i \in 1 .. MaxItems : \A j \in 1 .. i : mem[<<o, j>>] # Null}
<1>1. S \in SUBSET (1 .. MaxItems)
  OBVIOUS
<1>2. ASSUME NEW i \in S, NEW j \in 1 .. i PROVE j \in S
  <2>1. i \in 1 .. MaxItems /\ j \in 1 .. MaxItems /\ j <= i
    BY ObjectsAssumption
  <2>2. \A k \in 1 .. i : mem[<<o, k>>] # Null
    OBVIOUS
  <2>3. \A k \in 1 .. j : k \in 1 .. i
    BY <2>1
  <2> QED BY <2>1, <2>2, <2>3
<1>3. MaxItems \in Nat
  BY ObjectsAssumption
<1>4. \A i \in 1 .. MaxItems : i \in S <=> \A j \in 1 .. i : mem[<<o, j>>] # Null
  OBVIOUS
<1>5. Cardinality(S) \in 0 .. MaxItems /\ S = 1 .. Cardinality(S)
  <2> HIDE DEF S
  <2> QED BY <1>1, <1>2, <1>3, InitialSegment
<1>6. NumPointers(o) = Cardinality(S)
  BY DEF NumPointers
<1>7. \A i \in 1 .. MaxItems : i <= NumPointers(o) <=> i \in S
  <2> HIDE DEF S
  <2> QED BY <1>3, <1>5, <1>6
<1> QED BY <1>4, <1>5, <1>6, <1>7

Tasks == [at : Places, type : ParamTypes, depth : 1 .. 3]

LEMMA TaskFields ==
  ASSUME NEW at \in Places, NEW type \in ParamTypes, NEW depth \in 1 .. 3
  PROVE  /\ Task(at, type, depth) \in Tasks
         /\ Task(at, type, depth).at = at
         /\ Task(at, type, depth).type = type
         /\ Task(at, type, depth).depth = depth
BY DEF Task, Tasks

\* The pointers in an array of n.
LEMMA ArrayTasks ==
  ASSUME NEW o \in Objects, Kind[o] \in {"IOVEC", "PTR_PTR"},
         NEW n \in 0 .. MaxItems, NEW d \in {2, 3},
         NEW w, w = [i \in 1 .. n |-> Task(<<o, i>>, "FLAT_PTR", d)]
  PROVE  /\ w \in Seq(Tasks)
         /\ \A i \in DOMAIN w : TaskOK(w[i])
         /\ \A i \in 1 .. n : i \in DOMAIN w /\ w[i].at = <<o, i>>
<1>1. ASSUME NEW i \in 1 .. n
      PROVE /\ <<o, i>> \in Cells /\ <<o, i>> \in Places
            /\ CellType(<<o, i>>) = "FLAT_PTR"
  BY CellsOf, ObjectsAssumption DEF CellType, Places
<1>2. ASSUME NEW i \in 1 .. n
      PROVE w[i] \in Tasks /\ w[i].at = <<o, i>> /\ w[i].type = "FLAT_PTR" /\ w[i].depth = d
  BY <1>1, TaskFields DEF ParamTypes, PointerTypes
<1>3. DOMAIN w = 1 .. n /\ w \in [1 .. n -> Tasks] /\ n \in Nat
  BY <1>2, ObjectsAssumption
<1>4. w \in Seq(Tasks)
  BY <1>3
<1>5. \A i \in 1 .. n : TaskOK(w[i])
  BY <1>1, <1>2 DEF TaskOK
<1> QED BY <1>2, <1>3, <1>4, <1>5

\* What is to be looked at after a pointer: everything that the kernel finds in
\* the object, and nothing that is not there.
LEMMA NestedTasks ==
  ASSUME TypeOK, NEW task \in Tasks, TaskOK(task), NEW o \in Objects, Kind[o] = task.type
  PROVE  /\ Nested(task, o) \in Seq(Tasks)
         /\ \A i \in DOMAIN Nested(task, o) : TaskOK(Nested(task, o)[i])
         /\ \A c \in PlacesIn(o) :
              \E i \in DOMAIN Nested(task, o) : Nested(task, o)[i].at = c
<1> DEFINE w == Nested(task, o)
<1>0. task.depth \in 1 .. 3 /\ op.count \in 0 .. MaxItems
  BY DEF Tasks, TypeOK, Frame
<1>1. CASE task.type = "IOVEC"
  <2>1. task.depth + 1 \in {2, 3}
    BY <1>0, <1>1 DEF TaskOK
  <2>2. w = [i \in 1 .. op.count |-> Task(<<o, i>>, "FLAT_PTR", task.depth + 1)]
    BY <1>1 DEF Nested
  <2>3. w \in Seq(Tasks) /\ (\A i \in DOMAIN w : TaskOK(w[i]))
          /\ \A i \in 1 .. op.count : i \in DOMAIN w /\ w[i].at = <<o, i>>
    BY ONLY <2>1, <2>2, <1>0, <1>1, Kind[o] = task.type, o \in Objects, ArrayTasks
  <2>4. ASSUME NEW c \in PlacesIn(o) PROVE c = <<o, c[2]>> /\ c[2] \in 1 .. op.count
    BY <1>1, <1>0, InPlaces, PlaceFacts, CellsOf, ObjectsAssumption
  <2> HIDE DEF w
  <2>5. \A c \in PlacesIn(o) : \E i \in DOMAIN w : w[i].at = c
    BY <2>3, <2>4
  <2> QED BY <2>3, <2>5 DEF w
<1>2. CASE task.type = "PTR_PTR"
  <2>1. task.depth + 1 \in {2, 3}
    BY <1>0, <1>2 DEF TaskOK
  <2>2. w = [i \in 1 .. NumPointers(o) |-> Task(<<o, i>>, "FLAT_PTR", task.depth + 1)]
    BY <1>2 DEF Nested
  <2>3. w \in Seq(Tasks) /\ (\A i \in DOMAIN w : TaskOK(w[i]))
          /\ \A i \in 1 .. NumPointers(o) : i \in DOMAIN w /\ w[i].at = <<o, i>>
    BY ONLY <2>1, <2>2, <1>0, <1>2, Kind[o] = task.type, o \in Objects, ArrayTasks,
            PointersCounted
  <2>4. ASSUME NEW c \in PlacesIn(o) PROVE c = <<o, c[2]>> /\ c[2] \in 1 .. NumPointers(o)
    <3>1. c = <<o, c[2]>> /\ c[2] \in 1 .. MaxItems
             /\ \A j \in 1 .. c[2] : mem[<<o, j>>] # Null
      BY <1>2, InPlaces, PlaceFacts, CellsOf
    <3>2. c[2] <= NumPointers(o) /\ NumPointers(o) \in Nat
      BY <3>1, PointersCounted, ObjectsAssumption
    <3> QED BY <3>1, <3>2, ObjectsAssumption
  <2> HIDE DEF w
  <2>5. \A c \in PlacesIn(o) : \E i \in DOMAIN w : w[i].at = c
    BY <2>3, <2>4
  <2> QED BY <2>3, <2>5 DEF w
<1>3. CASE task.type = "MSGHDR"
  <2>1. task.depth = 1
    BY <1>0, <1>3 DEF TaskOK, CellType
  <2>2. w = <<Task(<<o, 1>>, "FLAT_PTR", 2), Task(<<o, 2>>, "IOVEC", 2),
              Task(<<o, 3>>, "FLAT_PTR", 2)>>
    BY <1>3, <2>1 DEF Nested
  <2>3. \A i \in 1 .. 3 : /\ <<o, i>> \in Cells /\ <<o, i>> \in Places
                          /\ CellType(<<o, i>>) = IF i = 2 THEN "IOVEC" ELSE "FLAT_PTR"
    BY <1>3, CellsOf DEF CellType, Places
  <2>4. \A i \in 1 .. 3 : /\ w[i] \in Tasks /\ w[i].at = <<o, i>>
                          /\ w[i].type = IF i = 2 THEN "IOVEC" ELSE "FLAT_PTR"
                          /\ w[i].depth = 2
    BY <2>2, <2>3, TaskFields DEF ParamTypes, PointerTypes
  <2>5. DOMAIN w = 1 .. 3 /\ w \in Seq(Tasks)
    BY <2>2, <2>4
  <2> HIDE DEF w
  <2>6. \A i \in 1 .. 3 : TaskOK(w[i])
    BY <2>3, <2>4 DEF TaskOK
  <2>7. ASSUME NEW c \in PlacesIn(o) PROVE c = <<o, c[2]>> /\ c[2] \in 1 .. 3
    BY <1>3, InPlaces, PlaceFacts, CellsOf
  <2>8. \A c \in PlacesIn(o) : \E i \in DOMAIN w : w[i].at = c
    BY <2>4, <2>5, <2>7
  <2> QED BY <2>5, <2>6, <2>8 DEF w
<1>4. CASE task.type = "FLAT_PTR"
  <2>1. w = <<>>
    BY <1>4 DEF Nested
  <2>2. ASSUME NEW c \in PlacesIn(o) PROVE FALSE
    BY <1>4, InPlaces, PlaceFacts, CellsOf
  <2> QED BY <2>1, <2>2
<1> QED BY <1>1, <1>2, <1>3, <1>4, ObjectsAssumption DEF PointerTypes

\* Taking the first off a list and putting others in front of the rest.
Replacing(s, w, n) ==
  /\ \A i \in DOMAIN n : \/ \E j \in DOMAIN w : n[i] = w[j]
                         \/ \E j \in DOMAIN s : n[i] = s[j]
  /\ \A j \in DOMAIN w : \E i \in DOMAIN n : n[i] = w[j]
  /\ \A j \in DOMAIN s : s[j] = Head(s) \/ \E i \in DOMAIN n : n[i] = s[j]

LEMMA Replaced ==
  ASSUME NEW S, NEW s \in Seq(S), s # <<>>, NEW w \in Seq(S), NEW n, n = w \o Tail(s)
  PROVE  /\ n \in Seq(S)
         /\ Head(s) = s[1] /\ 1 \in DOMAIN s /\ Head(s) \in S
         /\ Replacing(s, w, n)
<1>1. /\ Tail(s) \in Seq(S) /\ Len(Tail(s)) = Len(s) - 1
      /\ \A i \in 1 .. Len(Tail(s)) : Tail(s)[i] = s[i + 1]
      /\ Head(s) \in S
  BY HeadTailProperties
<1>2. /\ n \in Seq(S) /\ Len(n) = Len(w) + Len(Tail(s))
      /\ \A i \in 1 .. Len(w) + Len(Tail(s)) :
           n[i] = IF i <= Len(w) THEN w[i] ELSE Tail(s)[i - Len(w)]
  BY <1>1, ConcatProperties
<1>3. /\ DOMAIN n = 1 .. Len(n) /\ DOMAIN w = 1 .. Len(w) /\ DOMAIN s = 1 .. Len(s)
      /\ Len(w) \in Nat /\ Len(s) \in Nat /\ Len(s) > 0 /\ Head(s) = s[1]
  BY <1>2, LenProperties, EmptySeq
<1>4. ASSUME NEW i \in DOMAIN n
      PROVE \/ \E j \in DOMAIN w : n[i] = w[j]
            \/ \E j \in DOMAIN s : n[i] = s[j]
  <2>1. CASE i <= Len(w)
    BY <2>1, <1>2, <1>3
  <2>2. CASE ~(i <= Len(w))
    <3>1. i - Len(w) \in 1 .. Len(Tail(s)) /\ i - Len(w) + 1 \in DOMAIN s
      BY <2>2, <1>1, <1>2, <1>3
    <3>2. n[i] = s[i - Len(w) + 1]
      BY <3>1, <2>2, <1>1, <1>2, <1>3
    <3> QED BY <3>1, <3>2
  <2> QED BY <2>1, <2>2
<1>5. ASSUME NEW j \in DOMAIN w PROVE \E i \in DOMAIN n : n[i] = w[j]
  <2>1. j \in DOMAIN n /\ n[j] = w[j]
    BY <1>1, <1>2, <1>3
  <2> QED BY <2>1
<1>6. ASSUME NEW j \in DOMAIN s PROVE s[j] = Head(s) \/ \E i \in DOMAIN n : n[i] = s[j]
  <2>1. CASE j = 1
    BY <2>1, <1>3
  <2>2. CASE j # 1
    <3>1. Len(w) + j - 1 \in DOMAIN n /\ j - 1 \in 1 .. Len(Tail(s))
      BY <2>2, <1>1, <1>2, <1>3
    <3>2. n[Len(w) + j - 1] = Tail(s)[j - 1] /\ Tail(s)[j - 1] = s[j]
      <4>1. PICK k : k = Len(w) + j - 1
        OBVIOUS
      <4>2. k \in DOMAIN n /\ ~(k <= Len(w)) /\ k - Len(w) = j - 1
        BY <4>1, <3>1, <2>2, <1>3
      <4>3. n[k] = Tail(s)[k - Len(w)]
        BY ONLY <4>2, <1>2, <1>3
      <4>4. Tail(s)[j - 1] = s[j - 1 + 1] /\ j - 1 + 1 = j
        BY <3>1, <1>1, <1>3
      <4> QED BY ONLY <4>1, <4>2, <4>3, <4>4, Zenon
    <3> QED BY <3>1, <3>2
  <2> QED BY <2>1, <2>2
<1>7. 1 \in DOMAIN s
  BY <1>3
<1> QED BY <1>1, <1>2, <1>3, <1>4, <1>5, <1>6, <1>7 DEF Replacing

-----------------------------------------------------------------------------
(* One step of the pre-hook. *)

\* What the fix-up of one pointer does, whatever the pointer is: nothing but the
\* place changes, and what it points to is next.
Effect(task, w) ==
  /\ task = Head(op.work) /\ op.work # <<>> /\ op.pc = "fixup"
  /\ TaskOK(task)
  /\ \A i \in DOMAIN w : TaskOK(w[i])
  /\ op'.pc = op.pc /\ op'.call = op.call /\ op'.count = op.count
  /\ op'.work = w \o Tail(op.work) /\ op' \in Frame
  /\ mem' \in [Places -> Pointer]
  /\ \A q \in Places : /\ q # task.at => mem'[q] = mem[q]
                       /\ mem'[q] = Null <=> mem[q] = Null
                       /\ \A type \in ParamTypes : Fits(mem[q], type) => Fits(mem'[q], type)
  /\ mem'[task.at].form = "alias" => mem'[task.at].to \in freed
  /\ mem'[task.at].form = "canonical" =>
       /\ mem'[task.at].to \in Objects
       /\ \A c \in PlacesIn(mem'[task.at].to) : \E i \in DOMAIN w : w[i].at = c

LEMMA FrameAfter ==
  ASSUME op \in Frame, NEW s \in Seq(Tasks), op' = [op EXCEPT !.work = s]
  PROVE  /\ op' \in Frame /\ op'.pc = op.pc /\ op'.call = op.call /\ op'.count = op.count
         /\ op'.i = op.i /\ op'.refused = op.refused /\ op'.work = s
BY DEF Frame, Tasks

LEMMA HeadTask ==
  ASSUME IInv, op.pc = "fixup", op.work # <<>>, NEW task, task = Head(op.work)
  PROVE  /\ task \in Tasks /\ TaskOK(task) /\ task.at \in Places
         /\ Fits(mem[task.at], task.type) /\ task.type \in ParamTypes
         /\ op.work \in Seq(Tasks)
<1>1. op.work \in Seq(Tasks) /\ op \in Frame /\ op.call \in DOMAIN Params
  BY DEF IInv, TypeOK, Frame, Tasks
<1>2. Head(op.work) = op.work[1] /\ 1 \in DOMAIN op.work /\ Head(op.work) \in Tasks
  <2>1. <<>> \in Seq(Tasks)
    OBVIOUS
  <2> QED BY <1>1, <2>1, Replaced
<1>3. task \in Tasks /\ TaskOK(task)
  BY <1>1, <1>2 DEF IInv, WorkOK
<1>4. task.at \in Places /\ task.type \in ParamTypes
  BY <1>3 DEF Tasks
<1>5. Fits(mem[task.at], task.type)
  <2>1. CASE task.at \in Cells /\ task.type = CellType(task.at)
    BY <2>1 DEF IInv, PointersTyped
  <2>2. CASE \E k \in DOMAIN Params[op.call] :
               task.at = <<HookStack, k>> /\ task.type = Params[op.call][k]
    BY <2>2 DEF IInv, PointersTyped, InCall
  <2> QED BY <1>3, <2>1, <2>2 DEF TaskOK
<1> QED BY <1>1, <1>3, <1>4, <1>5

LEMMA SkipEffect ==
  ASSUME IInv, op.pc = "fixup", op.work # <<>>, SkipInvalid,
         NEW task, task = Head(op.work)
  PROVE  Effect(task, <<>>)
<1>1. /\ task \in Tasks /\ TaskOK(task) /\ task.at \in Places
      /\ op.work \in Seq(Tasks) /\ op \in Frame /\ mem \in [Places -> Pointer]
  BY HeadTask DEF IInv, TypeOK
<1>2. Tail(op.work) \in Seq(Tasks) /\ <<>> \o Tail(op.work) = Tail(op.work)
  BY <1>1, HeadTailProperties, ConcatEmptySeq
<1>3. op' = [op EXCEPT !.work = Tail(op.work)] /\ mem' = mem
  BY <1>1 DEF SkipInvalid
<1>4. /\ op' \in Frame /\ op'.pc = op.pc /\ op'.call = op.call /\ op'.count = op.count
      /\ op'.work = Tail(op.work)
  BY <1>1, <1>2, <1>3, FrameAfter
<1>5. mem[task.at] = Null \/ Dangling(mem[task.at])
  BY DEF SkipInvalid
<1>6. /\ mem'[task.at].form = "alias" => mem'[task.at].to \in freed
      /\ mem'[task.at].form # "canonical"
  BY <1>3, <1>5 DEF Dangling, Null
<1> QED BY <1>1, <1>2, <1>3, <1>4, <1>6 DEF Effect

\* The pointer is canonical, or becomes so.
LEMMA FollowEffect ==
  ASSUME IInv, op.pc = "fixup", op.work # <<>>, NEW task, task = Head(op.work), NEW o \in Objects,
         mem[task.at] # Null, mem[task.at].to = o,
         mem' = [mem EXCEPT ![task.at] = Canonical(o)],
         op' = [op EXCEPT !.work = Nested(task, o) \o Tail(op.work)]
  PROVE  Effect(task, Nested(task, o)) /\ Nested(task, o) \in Seq(Tasks)
<1>1. /\ task \in Tasks /\ TaskOK(task) /\ task.at \in Places /\ Fits(mem[task.at], task.type)
      /\ op.work \in Seq(Tasks) /\ op \in Frame /\ mem \in [Places -> Pointer] /\ TypeOK
  BY HeadTask DEF IInv, TypeOK
<1>2. Kind[o] = task.type
  BY <1>1 DEF Fits
<1>3. /\ Nested(task, o) \in Seq(Tasks)
      /\ \A i \in DOMAIN Nested(task, o) : TaskOK(Nested(task, o)[i])
      /\ \A c \in PlacesIn(o) : \E i \in DOMAIN Nested(task, o) : Nested(task, o)[i].at = c
  BY <1>1, <1>2, NestedTasks
<1>4. Tail(op.work) \in Seq(Tasks) /\ Nested(task, o) \o Tail(op.work) \in Seq(Tasks)
  BY <1>1, <1>3, HeadTailProperties, ConcatProperties
<1>5. /\ op' \in Frame /\ op'.pc = op.pc /\ op'.call = op.call /\ op'.count = op.count
      /\ op'.work = Nested(task, o) \o Tail(op.work)
  BY <1>1, <1>4, FrameAfter
<1>6. /\ Canonical(o) \in Pointer /\ Canonical(o).to = o /\ Canonical(o) # Null
      /\ Canonical(o).form = "canonical"
  BY DEF Canonical, Pointer, Null
<1>7. mem' \in [Places -> Pointer] /\ mem'[task.at] = Canonical(o)
        /\ \A q \in Places : q # task.at => mem'[q] = mem[q]
  BY <1>1, <1>6
<1>8. \A q \in Places : /\ mem'[q] = Null <=> mem[q] = Null
                        /\ \A type \in ParamTypes : Fits(mem[q], type) => Fits(mem'[q], type)
  BY <1>1, <1>6, <1>7 DEF Fits
<1>9. mem'[task.at].form = "canonical" /\ mem'[task.at].to = o
  BY <1>6, <1>7
<1> QED BY <1>1, <1>3, <1>5, <1>7, <1>8, <1>9 DEF Effect

LEMMA FixEffect ==
  ASSUME IInv, FixPointer
  PROVE  \E task \in Tasks, w \in Seq(Tasks) : Effect(task, w)
<1>0. op.pc = "fixup" /\ op.work # <<>>
  BY DEF FixPointer
<1>1. PICK task : task = Head(op.work)
  OBVIOUS
<1>2. /\ task \in Tasks /\ task.at \in Places /\ Fits(mem[task.at], task.type)
      /\ mem \in [Places -> Pointer] /\ op \in Frame
  BY <1>0, <1>1, HeadTask DEF IInv, TypeOK
<1>3. CASE SkipInvalid
  <2>1. Effect(task, <<>>)
    BY <1>0, <1>1, <1>3, SkipEffect
  <2> QED BY <1>2, <2>1, <<>> \in Seq(Tasks)
<1>4. CASE LeaveCanonical
  <2>1. mem[task.at].form = "canonical" /\ mem' = mem
          /\ op' = [op EXCEPT !.work = Nested(task, mem[task.at].to) \o Tail(@)]
    BY <1>4, <1>1 DEF LeaveCanonical
  <2>2. mem[task.at] # Null
    BY <2>1 DEF Null
  <2>3. PICK o \in Objects : o = mem[task.at].to
    BY <1>2, <2>2 DEF Fits
  <2>4. mem[task.at] = Canonical(o)
    BY <1>2, <2>1, <2>3 DEF Canonical, Pointer
  <2>5. mem' = [mem EXCEPT ![task.at] = Canonical(o)]
    BY <1>2, <2>1, <2>4
  <2>6. op' = [op EXCEPT !.work = Nested(task, o) \o Tail(op.work)]
    BY <1>2, <2>1, <2>3 DEF Frame
  <2>7. Effect(task, Nested(task, o)) /\ Nested(task, o) \in Seq(Tasks)
    BY <1>0, <1>1, <2>2, <2>3, <2>5, <2>6, FollowEffect
  <2> QED BY <1>2, <2>7
<1>5. CASE ReplaceAlias
  <2>1. PICK o \in Objects :
          /\ ResolvesTo(mem[task.at], o)
          /\ mem' = [mem EXCEPT ![task.at] = Canonical(o)]
          /\ op' = [op EXCEPT !.work = Nested(task, o) \o Tail(@)]
    BY <1>1, <1>5 DEF ReplaceAlias
  <2>2. mem[task.at] # Null /\ mem[task.at].to = o
    BY <2>1 DEF ResolvesTo, Null
  <2>3. op' = [op EXCEPT !.work = Nested(task, o) \o Tail(op.work)]
    BY <1>2, <2>1 DEF Frame
  <2>4. Effect(task, Nested(task, o)) /\ Nested(task, o) \in Seq(Tasks)
    BY <1>0, <1>1, <2>1, <2>2, <2>3, FollowEffect
  <2> QED BY <1>2, <2>4
<1> QED BY <1>3, <1>4, <1>5 DEF FixPointer


LEMMA PlacesKept ==
  ASSUME op'.count = op.count, \A q \in Places : mem'[q] = Null <=> mem[q] = Null,
         NEW o \in Objects
  PROVE  PlacesIn(o)' = PlacesIn(o)
<1>1. ASSUME NEW c \in Cells, c[1] = o
      PROVE \A j \in 1 .. c[2] : <<o, j>> \in Places
  BY <1>1, CellsOf, PlaceFacts
<1>2. CASE Kind[o] = "IOVEC"
  BY <1>2 DEF PlacesIn
<1>3. CASE Kind[o] = "PTR_PTR"
  BY <1>1, <1>3 DEF PlacesIn
<1>4. CASE Kind[o] # "IOVEC" /\ Kind[o] # "PTR_PTR"
  BY <1>4 DEF PlacesIn
<1> QED BY <1>2, <1>3, <1>4

\* What is pending after a step, and that it loses nothing the kernel will see.
LEMMA FixKeepsCoverage ==
  ASSUME IInv, FixPointer
  PROVE  WorkOK' /\ Coverage'
<1>1. PICK task \in Tasks, w \in Seq(Tasks) : Effect(task, w)
  BY FixEffect
<1>2. /\ task = Head(op.work) /\ op.work # <<>> /\ op.pc = "fixup" /\ TaskOK(task)
      /\ op'.pc = "fixup" /\ op'.call = op.call /\ op'.count = op.count
      /\ op'.work = w \o Tail(op.work) /\ freed' = freed
      /\ op.work \in Seq(Tasks) /\ task.at \in Places /\ Fits(mem[task.at], task.type)
      /\ task.type \in ParamTypes
  BY <1>1, HeadTask DEF Effect, FixPointer, programVars
<1>3. /\ \A i \in DOMAIN op'.work : \/ \E j \in DOMAIN w : op'.work[i] = w[j]
                                    \/ \E j \in DOMAIN op.work : op'.work[i] = op.work[j]
      /\ \A j \in DOMAIN w : \E i \in DOMAIN op'.work : op'.work[i] = w[j]
      /\ \A j \in DOMAIN op.work :
           op.work[j] = task \/ \E i \in DOMAIN op'.work : op'.work[i] = op.work[j]
  <2>0. PICK s \in Seq(Tasks) : s = op.work
    BY <1>2
  <2>1. PICK n : n = op'.work
    OBVIOUS
  <2>2. s # <<>> /\ n = w \o Tail(s) /\ Head(s) = task
    BY <1>2, <2>0, <2>1
  <2>3. /\ \A i \in DOMAIN n : \/ \E j \in DOMAIN w : n[i] = w[j]
                               \/ \E j \in DOMAIN s : n[i] = s[j]
        /\ \A j \in DOMAIN w : \E i \in DOMAIN n : n[i] = w[j]
        /\ \A j \in DOMAIN s : s[j] = task \/ \E i \in DOMAIN n : n[i] = s[j]
    <3>1. Replacing(s, w, n)
      BY ONLY <2>2, s \in Seq(Tasks), w \in Seq(Tasks), Replaced
    <3> QED BY ONLY <2>2, <3>1 DEF Replacing
  <2> QED BY <2>0, <2>1, <2>3
<1>4. WorkOK'
  <2>1. \A i \in DOMAIN w : TaskOK(w[i])
    BY <1>1 DEF Effect
  <2>2. \A i \in DOMAIN op.work : TaskOK(op.work[i])
    BY DEF IInv, WorkOK
  <2>3. ASSUME NEW i \in DOMAIN op'.work PROVE TaskOK(op'.work[i])
    BY <1>3, <2>1, <2>2
  <2>4. ASSUME NEW i \in DOMAIN op'.work PROVE TaskOK(op.work[i])'
    <3>1. TaskOK(op'.work[i])
      BY <2>3
    <3> QED BY <1>2, <3>1 DEF TaskOK
  <2> QED BY <1>2, <2>4 DEF WorkOK
<1> DEFINE Seen == Cells \cup ArgumentPlaces
<1>5. /\ \A q \in Places : /\ q # task.at => mem'[q] = mem[q]
                           /\ mem'[q] = Null <=> mem[q] = Null
                           /\ \A type \in ParamTypes : Fits(mem[q], type) => Fits(mem'[q], type)
      /\ mem'[task.at].form = "alias" => mem'[task.at].to \in freed
      /\ mem'[task.at].form = "canonical" =>
           /\ mem'[task.at].to \in Objects
           /\ \A c \in PlacesIn(mem'[task.at].to) : \E i \in DOMAIN w : w[i].at = c
  BY <1>1 DEF Effect
<1>6. /\ Seen \subseteq Places /\ ArgumentPlaces' = ArgumentPlaces
      /\ \A q \in Seen : mem[q] = Null \/ mem[q].to \in Objects
  <2>1. op.call \in DOMAIN Params
    BY DEF IInv, TypeOK, Frame
  <2>2. \A q \in Cells : q \in Places /\ (mem[q] = Null \/ mem[q].to \in Objects)
    BY PlaceFacts DEF IInv, PointersTyped, Fits
  <2>3. \A q \in ArgumentPlaces : q \in Places /\ (mem[q] = Null \/ mem[q].to \in Objects)
    BY <1>2, <2>1, PlaceFacts DEF IInv, PointersTyped, Fits, ArgumentPlaces, InCall
  <2>4. ArgumentPlaces' = ArgumentPlaces
    BY <1>2 DEF ArgumentPlaces
  <2> QED BY <2>2, <2>3, <2>4
<1>7. ASSUME NEW p, Pending(p) PROVE p = task.at \/ Pending(p)'
  BY <1>3, <1>7 DEF Pending
<1>8. InOrder(task.at)' /\ (Followed(task.at)' =>
         mem'[task.at].to \in Objects /\ \A c \in PlacesIn(mem'[task.at].to) : Pending(c)')
  <2>1. Fits(mem'[task.at], task.type)
    BY <1>2, <1>5
  <2>2. InOrder(task.at)'
    BY <1>2, <1>5 DEF InOrder, Dangling
  <2>3. ASSUME Followed(task.at)' PROVE mem'[task.at].form = "canonical"
    BY <1>2, <1>5, <2>1, <2>3 DEF Followed, Dangling, Fits
  <2>4. ASSUME NEW i \in DOMAIN w PROVE Pending(w[i].at)'
    BY <1>3 DEF Pending
  <2> QED BY <2>2, <2>3, <2>4, <1>5
<1>9. ASSUME NEW q \in Places, q # task.at
      PROVE /\ mem'[q] = mem[q] /\ (InOrder(q) => InOrder(q)') /\ (Followed(q)' => Followed(q))
  BY <1>2, <1>5, <1>9 DEF InOrder, Followed, Dangling
<1>10. \A o \in Objects : PlacesIn(o)' = PlacesIn(o) /\ PlacesIn(o) \subseteq Cells
  BY <1>2, <1>5, PlacesKept, InPlaces
<1> HIDE DEF Seen
<1>11. ASSUME NEW q \in Places, mem'[q].to \in Objects
       PROVE PlacesIn(mem[q].to)' = PlacesIn(mem'[q].to)
  <2>1. PICK o \in Objects : o = mem'[q].to
    BY <1>11
  <2>2. PlacesIn(mem[q].to)' = PlacesIn(o)'
    BY <2>1 DEF PlacesIn
  <2> QED BY <2>1, <2>2, <1>10
<1>12. ASSUME NEW q \in Seen, Covered(q) PROVE Covered(q)'
  BY <1>6, <1>7, <1>8, <1>9, <1>12 DEF Covered
<1>13. Cells \subseteq Seen /\ ArgumentPlaces \subseteq Seen
  BY DEF Seen
<1>14. Followed(task.at)' => \A c \in PlacesIn(mem[task.at].to)' :
                               Covered(c)' /\ CoveredOnce(c)'
  <2>1. Followed(task.at)' => \A c \in PlacesIn(mem[task.at].to)' : Pending(c)'
    BY <1>2, <1>8, <1>11
  <2>2. ASSUME NEW c, Pending(c)' PROVE Covered(c)' /\ CoveredOnce(c)'
    BY <2>2 DEF Covered, CoveredOnce
  <2> QED BY <2>1, <2>2
<1>15. ASSUME NEW q \in Seen, CoveredOnce(q) PROVE CoveredOnce(q)'
  <2>1. CASE q = task.at
    BY <2>1, <1>8, <1>14 DEF CoveredOnce
  <2>2. CASE q # task.at /\ ~Pending(q)'
    <3>1. ~Pending(q) /\ InOrder(q) /\ (Followed(q) => \A c \in PlacesIn(mem[q].to) : Covered(c))
      BY <2>2, <1>7, <1>15 DEF CoveredOnce
    <3>2. mem'[q] = mem[q] /\ InOrder(q)' /\ (Followed(q)' => Followed(q)) /\ q \in Places
      BY <2>2, <3>1, <1>6, <1>9
    <3>3. Followed(q) => mem[q].to \in Objects
      BY <1>6 DEF Followed
    <3>4. ASSUME Followed(q)' PROVE \A c \in PlacesIn(mem[q].to)' : Covered(c)'
      <4>1. PlacesIn(mem[q].to)' = PlacesIn(mem[q].to) /\ PlacesIn(mem[q].to) \subseteq Cells
        BY <3>2, <3>3, <3>4, <1>10, <1>11
      <4> QED BY <4>1, <3>1, <3>2, <3>4, <1>12, <1>13
    <3> QED BY <3>2, <3>4 DEF CoveredOnce
  <2> QED BY <2>1, <2>2 DEF CoveredOnce
<1>16. ASSUME NEW q \in Seen, CoveredTwice(q) PROVE CoveredTwice(q)'
  <2>1. CASE q = task.at
    BY <2>1, <1>8, <1>14 DEF CoveredTwice
  <2>2. CASE q # task.at /\ ~Pending(q)'
    <3>1. ~Pending(q) /\ InOrder(q)
            /\ (Followed(q) => \A c \in PlacesIn(mem[q].to) : CoveredOnce(c))
      BY <2>2, <1>7, <1>16 DEF CoveredTwice
    <3>2. mem'[q] = mem[q] /\ InOrder(q)' /\ (Followed(q)' => Followed(q)) /\ q \in Places
      BY <2>2, <3>1, <1>6, <1>9
    <3>3. Followed(q) => mem[q].to \in Objects
      BY <1>6 DEF Followed
    <3>4. ASSUME Followed(q)' PROVE \A c \in PlacesIn(mem[q].to)' : CoveredOnce(c)'
      <4>1. PlacesIn(mem[q].to)' = PlacesIn(mem[q].to) /\ PlacesIn(mem[q].to) \subseteq Cells
        BY <3>2, <3>3, <3>4, <1>10, <1>11
      <4> QED BY <4>1, <3>1, <3>2, <3>4, <1>15, <1>13
    <3> QED BY <3>2, <3>4 DEF CoveredTwice
  <2> QED BY <2>1, <2>2 DEF CoveredTwice
<1>17. Coverage'
  <2>1. \A p \in ArgumentPlaces : CoveredTwice(p)
    BY <1>2 DEF IInv, Coverage, Calling
  <2> QED BY <2>1, <1>6, <1>13, <1>16 DEF Coverage
<1> QED BY <1>4, <1>17

-----------------------------------------------------------------------------
(* Records and memory. *)

Entries == [at : Places, value : Pointer]

BufferParts == capacity \in Nat /\ records \in Seq(Entries) /\ lost \subseteq Cells

\* A step that changes nothing of the program's memory or of the records.
LEMMA RecordsKept ==
  ASSUME IInv, UNCHANGED <<programVars, bufferVars>>, op'.pc = op.pc, op'.i = op.i,
         \A c \in Cells : mem'[c] = mem[c]
  PROVE  RecordsOK' /\ MemoryOK' /\ BufferParts'
<1>1. /\ written' = written /\ records' = records /\ capacity' = capacity /\ lost' = lost
      /\ lost \subseteq Cells
  BY DEF programVars, bufferVars, IInv, TypeOK
<1>2. \A c : Outstanding(c) => Outstanding(c)'
  BY <1>1 DEF Outstanding
<1>3. MemoryOK'
  BY <1>1, <1>2 DEF IInv, MemoryOK
<1>4. RecordsOK'
  BY <1>1 DEF IInv, RecordsOK, Calling
<1> QED BY <1>1, <1>3, <1>4 DEF IInv, TypeOK, BufferParts, Entries

\* A place whose pointer is recorded before it is replaced, or is lost.
LEMMA RecordKeeps ==
  ASSUME IInv, op.pc = "fixup", op'.pc = "fixup", UNCHANGED programVars,
         NEW at \in Cells, mem[at].form = "alias", Record(at, mem[at]),
         mem' = [mem EXCEPT ![at] = Canonical(mem[at].to)]
  PROVE  RecordsOK' /\ MemoryOK' /\ BufferParts'
<1>1. /\ mem \in [Places -> Pointer] /\ records \in Seq(Entries) /\ capacity \in Nat
      /\ lost \subseteq Cells /\ at \in Places /\ Cells \subseteq Places /\ written' = written
  BY PlaceFacts DEF IInv, TypeOK, Entries, programVars
<1>2. /\ capacity > 0 /\ Len(records) <= capacity
      /\ \A i, j \in DOMAIN records : records[i].at = records[j].at => i = j
      /\ \A i \in DOMAIN records :
           /\ records[i].at \in Cells \ lost
           /\ records[i].value = written[records[i].at]
           /\ mem[records[i].at].form = "canonical"
  BY DEF IInv, RecordsOK, Calling
<1>3. at \notin lost /\ \A i \in DOMAIN records : records[i].at # at
  <2>1. \A c \in lost : mem[c].form = "canonical"
    <3>1. \A c \in lost : mem[c] = Canonical(written[c].to)
      BY DEF IInv, MemoryOK
    <3>2. \A x : Canonical(x).form = "canonical"
      BY DEF Canonical
    <3> QED BY <3>1, <3>2
  <2> QED BY <1>2, <2>1
<1>4. mem[at] = written[at]
  BY <1>3 DEF IInv, MemoryOK, Outstanding
<1>5. /\ mem'[at] = Canonical(written[at].to) /\ mem'[at].form = "canonical"
      /\ \A c \in Cells : c # at => mem'[c] = mem[c]
  BY <1>1, <1>4 DEF Canonical
<1>6. /\ \A c \in lost : mem[c] = Canonical(written[c].to)
      /\ \A c \in Cells \ lost : mem[c] = written[c] \/ \E i \in DOMAIN records : records[i].at = c
  BY DEF IInv, MemoryOK, Outstanding
<1>7. CASE records' = Append(records, [at |-> at, value |-> mem[at]]) /\ lost' = lost
             /\ capacity' \in Nat /\ capacity' > 0 /\ Len(records) < capacity'
  <2>1. PICK r \in Entries : r = [at |-> at, value |-> mem[at]]
    BY <1>1 DEF Entries
  <2>2. r.at = at /\ r.value = written[at] /\ records' = Append(records, r)
    BY <2>1, <1>4, <1>7
  <2>3. /\ records' \in Seq(Entries) /\ Len(records') = Len(records) + 1
        /\ \A i \in 1 .. Len(records) : records'[i] = records[i]
        /\ records'[Len(records) + 1] = r /\ Len(records) \in Nat
        /\ DOMAIN records = 1 .. Len(records)
    BY <2>2, <1>1, AppendProperties, LenProperties
  <2>4. DOMAIN records' = 1 .. Len(records) + 1
    BY <2>3, LenProperties
  <2>5. \A i \in DOMAIN records' : \/ i \in DOMAIN records /\ records'[i] = records[i]
                                   \/ i = Len(records) + 1 /\ records'[i] = r
    BY <2>3, <2>4
  <2>6. \A i, j \in DOMAIN records' : records'[i].at = records'[j].at => i = j
    BY <2>2, <2>5, <1>2, <1>3
  <2>7. \A i \in DOMAIN records' : /\ records'[i].at \in Cells \ lost
                                   /\ records'[i].value = written[records'[i].at]
                                   /\ mem'[records'[i].at].form = "canonical"
    BY <2>2, <2>5, <1>2, <1>3, <1>5
  <2>8. RecordsOK'
    BY <2>3, <2>6, <2>7, <1>1, <1>7 DEF RecordsOK
  <2>9. \A c \in Cells \ lost : mem'[c] = written[c] \/ \E i \in DOMAIN records' : records'[i].at = c
    <3>1. \E i \in DOMAIN records' : records'[i].at = at
      BY <2>2, <2>3, <2>4
    <3>2. \A i \in DOMAIN records : i \in DOMAIN records' /\ records'[i] = records[i]
      BY <2>3, <2>4
    <3> QED BY <3>1, <3>2, <1>5, <1>6
  <2>10. MemoryOK'
    BY <2>9, <1>1, <1>3, <1>5, <1>6, <1>7 DEF MemoryOK, Outstanding
  <2> QED BY <2>3, <2>8, <2>10, <1>1, <1>7 DEF BufferParts
<1>8. CASE records' = records /\ capacity' = capacity /\ lost' = lost \cup {at}
  <2>1. RecordsOK'
    BY <1>1, <1>2, <1>3, <1>5, <1>8 DEF RecordsOK, Calling
  <2>2. MemoryOK'
    BY <1>1, <1>3, <1>5, <1>6, <1>8 DEF MemoryOK, Outstanding
  <2> QED BY <2>1, <2>2, <1>1, <1>8 DEF BufferParts
<1>9. \/ Len(records) # capacity /\ capacity' = capacity
      \/ Len(records) = capacity /\ capacity' = 2 * capacity
      => capacity' \in Nat /\ capacity' > 0 /\ Len(records) < capacity'
  BY <1>1, <1>2, LenProperties
<1> QED BY <1>7, <1>8, <1>9 DEF Record

LEMMA FixKeepsMemory ==
  ASSUME IInv, FixPointer
  PROVE  RecordsOK' /\ MemoryOK' /\ BufferParts'
<1>1. op.pc = "fixup" /\ op.work # <<>> /\ UNCHANGED programVars
  BY DEF FixPointer
<1>2. PICK task : task = Head(op.work)
  OBVIOUS
<1>3. /\ task \in Tasks /\ TaskOK(task) /\ task.at \in Places
      /\ mem \in [Places -> Pointer] /\ op \in Frame
  BY <1>1, <1>2, HeadTask DEF IInv, TypeOK
<1>4. op'.pc = op.pc /\ op'.i = op.i
  <2>1. PICK s : op' = [op EXCEPT !.work = s]
    BY DEF FixPointer, SkipInvalid, LeaveCanonical, ReplaceAlias
  <2> QED BY <2>1, <1>3 DEF Frame
<1>5. CASE SkipInvalid \/ LeaveCanonical
  BY <1>1, <1>4, <1>5, RecordsKept DEF SkipInvalid, LeaveCanonical
<1>6. CASE ReplaceAlias
  <2>1. PICK o \in Objects :
          /\ ResolvesTo(mem[task.at], o)
          /\ mem' = [mem EXCEPT ![task.at] = Canonical(o)]
          /\ IF RunningNested(task) THEN Record(task.at, mem[task.at]) ELSE UNCHANGED bufferVars
    BY <1>2, <1>6 DEF ReplaceAlias
  <2>2. CASE task.depth = 1
    <3>1. task.at \notin Cells
      <4>1. PICK k \in DOMAIN Params[op.call] : task.at = <<HookStack, k>>
        BY <2>2, <1>3 DEF TaskOK
      <4>2. op.call \in DOMAIN Params
        BY <1>3 DEF Frame
      <4> QED BY <4>1, <4>2, PlaceFacts
    <3>2. UNCHANGED bufferVars /\ \A c \in Cells : mem'[c] = mem[c]
      BY <3>1, <2>1, <2>2, <1>3, PlaceFacts DEF RunningNested
    <3> QED BY <3>2, <1>1, <1>4, RecordsKept
  <2>3. CASE task.depth # 1
    <3>1. task.at \in Cells /\ task.depth > 1
      BY <2>3, <1>3 DEF TaskOK
    <3>2. /\ Record(task.at, mem[task.at]) /\ mem[task.at].form = "alias"
          /\ mem' = [mem EXCEPT ![task.at] = Canonical(mem[task.at].to)]
      BY <3>1, <2>1 DEF RunningNested, ResolvesTo
    <3> QED BY <3>1, <3>2, <1>1, <1>4, RecordKeeps
  <2> QED BY <2>2, <2>3
<1> QED BY <1>5, <1>6 DEF FixPointer

LEMMA FixInv ==
  ASSUME IInv, FixPointer
  PROVE  IInv'
<1>1. PICK task \in Tasks, w \in Seq(Tasks) : Effect(task, w)
  BY FixEffect
<1>2. /\ op'.pc = op.pc /\ op'.call = op.call /\ op' \in Frame /\ mem' \in [Places -> Pointer]
      /\ \A q \in Places : \A type \in ParamTypes : Fits(mem[q], type) => Fits(mem'[q], type)
      /\ op.pc = "fixup" /\ op.call \in DOMAIN Params
  BY <1>1 DEF Effect, IInv, TypeOK, Frame
<1>3. written' = written /\ freed' = freed /\ current' = current
  BY DEF FixPointer, programVars
<1>4. PointersTyped'
  <2>1. ASSUME NEW c \in Cells
        PROVE Fits(written'[c], CellType(c)) /\ Fits(mem'[c], CellType(c))
    <3>1. CellType(c) \in ParamTypes /\ c \in Places
      BY PlaceFacts DEF CellType, ParamTypes, PointerTypes
    <3> QED BY <3>1, <1>2, <1>3 DEF IInv, PointersTyped
  <2>2. ASSUME NEW k \in DOMAIN Params[op.call]
        PROVE Fits(mem'[<<HookStack, k>>], Params[op.call][k])
    <3>1. Params[op.call][k] \in ParamTypes /\ <<HookStack, k>> \in Places
      BY <1>2, PlaceFacts, ParamFacts
    <3> QED BY <3>1, <1>2 DEF IInv, PointersTyped, InCall
  <2> QED BY <2>1, <2>2, <1>2 DEF PointersTyped
<1>5. CallOK'
  BY <1>2, <1>3 DEF IInv, CallOK, InCall
<1>6. TypeOK'
  BY <1>2, <1>3, FixKeepsMemory DEF BufferParts, Entries, IInv, TypeOK
<1> QED BY <1>4, <1>5, <1>6, FixKeepsMemory, FixKeepsCoverage DEF IInv

-----------------------------------------------------------------------------
(* The other steps. *)

LEMMA InitInv ==
  Init => IInv
<1> SUFFICES ASSUME Init PROVE IInv
  OBVIOUS
<1>1. /\ mem = [p \in Places |-> Null] /\ written = [c \in Cells |-> Null] /\ freed = {}
      /\ current = NoCall /\ records = <<>> /\ capacity = InitialCapacity /\ lost = {}
      /\ op.pc = "idle" /\ op.work = <<>> /\ op \in Frame
  BY CallsAssumption, ObjectsAssumption DEF Init, Idle, Frame
<1>2. TypeOK
  BY <1>1, BufferAssumption DEF TypeOK, Pointer, Null
<1>3. PointersTyped
  BY <1>1, PlaceFacts DEF PointersTyped, Fits, InCall
<1>4. WorkOK /\ CallOK /\ Coverage
  BY <1>1 DEF WorkOK, CallOK, Coverage, InCall, Calling
<1>5. RecordsOK
  BY <1>1, BufferAssumption DEF RecordsOK
<1>6. MemoryOK
  BY <1>1, PlaceFacts DEF MemoryOK
<1> QED BY <1>2, <1>3, <1>4, <1>5, <1>6 DEF IInv

\* A pointer of the program's is of the kind that belongs in the place.
LEMMA PointersFit ==
  ASSUME NEW type \in ParamTypes, NEW p \in PointersFor(type)
  PROVE  Fits(p, type) /\ p \in Pointer
BY DEF PointersFor, PointerTo, Fits, Alias, Canonical, Null, Pointer

LEMMA ProgramInv ==
  ASSUME IInv, Program
  PROVE  IInv'
<1>1. /\ op' = op /\ op.pc = "idle" /\ records' = records /\ capacity' = capacity
      /\ current' = current
  BY DEF Program, Assign, Free, InProgram, bufferVars
<1>2. records = <<>>
  BY <1>1 DEF IInv, RecordsOK
<1>3. WorkOK' /\ CallOK' /\ Coverage'
  BY <1>1 DEF IInv, WorkOK, CallOK, Coverage, InCall, Calling
<1>4. CASE \E c \in Cells : \E p \in PointersFor(CellType(c)) : Assign(c, p)
  <2>1. PICK c \in Cells, p \in Pointer :
          /\ Fits(p, CellType(c)) /\ freed' = freed
          /\ mem' = [mem EXCEPT ![c] = p]
          /\ written' = [written EXCEPT ![c] = p]
          /\ lost' = lost \ {c}
    <3>1. \A x \in Cells : CellType(x) \in ParamTypes
      BY DEF CellType, ParamTypes, PointerTypes
    <3> QED BY <1>4, <3>1, PointersFit DEF Assign
  <2>2. /\ mem \in [Places -> Pointer] /\ written \in [Cells -> Pointer] /\ lost \subseteq Cells
        /\ c \in Places
    BY PlaceFacts DEF IInv, TypeOK
  <2>3. /\ mem'[c] = p /\ written'[c] = p /\ mem' \in [Places -> Pointer]
        /\ written' \in [Cells -> Pointer]
        /\ \A x \in Cells : x # c => mem'[x] = mem[x] /\ written'[x] = written[x]
    BY <2>1, <2>2, PlaceFacts
  <2>4. TypeOK'
    BY <1>1, <2>1, <2>2, <2>3 DEF IInv, TypeOK
  <2>5. PointersTyped'
    BY <1>1, <2>1, <2>3 DEF IInv, PointersTyped, InCall
  <2>6. RecordsOK'
    BY <1>1, <1>2, BufferAssumption DEF IInv, RecordsOK
  <2>7. MemoryOK'
    BY <1>1, <1>2, <2>1, <2>2, <2>3 DEF IInv, MemoryOK, Outstanding
  <2> QED BY <1>3, <2>4, <2>5, <2>6, <2>7 DEF IInv
<1>5. CASE \E o \in Remapped \ freed : Free(o)
  <2>1. mem' = mem /\ written' = written /\ lost' = lost
          /\ \E o \in Remapped : freed' = freed \cup {o}
    BY <1>5 DEF Free, bufferVars
  <2>2. TypeOK'
    BY <1>1, <2>1 DEF IInv, TypeOK
  <2>3. PointersTyped' /\ RecordsOK' /\ MemoryOK'
    BY <1>1, <2>1 DEF IInv, PointersTyped, RecordsOK, MemoryOK, InCall, Calling, Outstanding
  <2> QED BY <1>3, <2>2, <2>3 DEF IInv
<1> QED BY <1>4, <1>5 DEF Program

\* Making a system call: everything the kernel starts from is to be looked at.
LEMMA CallInv ==
  ASSUME IInv, Call
  PROVE  IInv'
<1>0. PICK no \in DOMAIN Params :
        \E args \in ArgumentsOf(no), count \in CountsFor(no) : SystemCall(no, args, count)
  BY DEF Call
<1>1. PICK args \in ArgumentsOf(no), count \in CountsFor(no) : SystemCall(no, args, count)
  BY <1>0
<1>2. /\ DOMAIN args = 1 .. Len(Params[no])
      /\ \A k \in 1 .. Len(Params[no]) : args[k] \in PointersFor(Params[no][k])
      /\ Params[no] \in Seq(ParamTypes) /\ DOMAIN Params[no] = 1 .. Len(Params[no])
      /\ \A k \in DOMAIN Params[no] : Params[no][k] \in ParamTypes /\ k \in Nat
      /\ Len(Params[no]) \in Nat
  BY ParamFacts, LenProperties DEF ArgumentsOf
<1>3. \A k \in DOMAIN Params[no] : Fits(args[k], Params[no][k]) /\ args[k] \in Pointer
  BY <1>2, PointersFit
<1>4. args \in Seq(Pointer) /\ Len(args) = Len(Params[no])
  BY <1>2, <1>3 DEF ArgumentsOf
<1>5. count \in 0 .. MaxItems
  BY ObjectsAssumption DEF CountsFor
<1>6. PICK w : w = ArgumentTasks(no, args)
  OBVIOUS
<1>7. /\ DOMAIN w = DOMAIN Params[no] /\ w \in Seq(Tasks)
      /\ \A k \in DOMAIN w : w[k].at = <<HookStack, k>> /\ w[k].type = Params[no][k] /\ w[k].depth = 1
  <2>1. \A k \in DOMAIN Params[no] : w[k] = Task(<<HookStack, k>>, Params[no][k], 1)
    BY <1>2, <1>4, <1>6 DEF ArgumentTasks
  <2>2. \A k \in DOMAIN Params[no] : <<HookStack, k>> \in Places
    BY PlaceFacts
  <2>3. \A k \in DOMAIN Params[no] : /\ w[k] \in Tasks /\ w[k].at = <<HookStack, k>>
                                     /\ w[k].type = Params[no][k] /\ w[k].depth = 1
    <3>1. ASSUME NEW k \in DOMAIN Params[no], NEW at \in Places, at = <<HookStack, k>>
          PROVE /\ w[k] \in Tasks /\ w[k].at = at /\ w[k].type = Params[no][k] /\ w[k].depth = 1
      <4>1. w[k] = Task(at, Params[no][k], 1) /\ Params[no][k] \in ParamTypes
        BY <2>1, <1>2, <3>1
      <4> QED BY <4>1, TaskFields
    <3> QED BY <2>2, <3>1
  <2>4. w \in [1 .. Len(Params[no]) -> Tasks]
    BY <2>3, <1>2, <1>4, <1>6 DEF ArgumentTasks
  <2> QED BY <2>3, <2>4, <1>2
<1>8. /\ op.pc = "idle" /\ current' = no /\ written' = written /\ freed' = freed
      /\ records' = records /\ capacity' = capacity /\ lost' = lost
      /\ op' = [Idle EXCEPT !.pc = "fixup", !.call = no, !.count = count, !.work = w]
  BY <1>1, <1>6 DEF SystemCall, InProgram, BecomesCurrent, programVars, bufferVars
<1>9. /\ op' \in Frame /\ op'.pc = "fixup" /\ op'.call = no /\ op'.count = count /\ op'.work = w
  BY <1>5, <1>7, <1>8 DEF Idle, Frame, Tasks
<1>10. /\ mem' \in [Places -> Pointer]
       /\ \A c \in Cells : mem'[c] = mem[c]
       /\ \A k \in DOMAIN Params[no] : mem'[<<HookStack, k>>] = args[k]
  <2>1. mem' = [p \in Places |-> IF p[1] = HookStack
                                 THEN IF p[2] <= Len(args) THEN args[p[2]] ELSE Null
                                 ELSE mem[p]]
    BY <1>1 DEF SystemCall
  <2>2. \A c \in Cells : mem'[c] = mem[c]
    BY <2>1, PlaceFacts
  <2>3. \A k \in DOMAIN Params[no] : mem'[<<HookStack, k>>] = args[k]
    BY <2>1, <1>2, <1>4, PlaceFacts
  <2>4. ASSUME NEW p \in Places PROVE mem'[p] \in Pointer
    <3>1. CASE p \in Cells
      BY <3>1, <2>2 DEF IInv, TypeOK
    <3>2. CASE p \in Arguments
      <4>1. p[1] = HookStack /\ p[2] \in Nat \ {0}
        BY <3>2, CallsAssumption, LenProperties DEF Arguments
      <4>2. Null \in Pointer
        BY DEF Null, Pointer
      <4> QED BY <4>1, <4>2, <2>1, <1>2, <1>3, <1>4
    <3> QED BY <3>1, <3>2 DEF Places
  <2> QED BY <2>1, <2>2, <2>3, <2>4
<1>11. TypeOK'
  BY <1>8, <1>9, <1>10 DEF IInv, TypeOK
<1>12. PointersTyped'
  BY <1>3, <1>8, <1>9, <1>10 DEF IInv, PointersTyped
<1>13. WorkOK'
  <2>1. \A i \in DOMAIN op'.work : TaskOK(op.work[i])'
    BY <1>7, <1>9 DEF TaskOK
  <2> QED BY <2>1, <1>9 DEF WorkOK
<1>14. RecordsOK' /\ MemoryOK'
  <2>1. records = <<>> /\ DOMAIN records = {}
    BY <1>8 DEF IInv, RecordsOK
  <2> QED BY <2>1, <1>8, <1>9, <1>10, PlaceFacts
          DEF IInv, TypeOK, RecordsOK, MemoryOK, Outstanding
<1>15. CallOK'
  BY <1>8, <1>9 DEF CallOK
<1>16. Coverage'
  <2>1. ASSUME NEW k \in DOMAIN Params[no] PROVE Pending(<<HookStack, k>>)'
    BY <1>7, <1>9 DEF Pending
  <2> QED BY <2>1, <1>9 DEF Coverage, CoveredTwice, ArgumentPlaces
<1> QED BY <1>11, <1>12, <1>13, <1>14, <1>15, <1>16 DEF IInv

LEMMA PrehookDoneInv ==
  ASSUME IInv, PrehookDone
  PROVE  IInv'
<1>1. /\ mem' = mem /\ written' = written /\ freed' = freed /\ current' = current
      /\ records' = records /\ capacity' = capacity /\ lost' = lost
      /\ op.pc = "fixup" /\ op \in Frame /\ op' = [op EXCEPT !.pc = "kernel"]
      /\ op.work = <<>>
  BY DEF PrehookDone, programVars, bufferVars, IInv, TypeOK
<1>2. /\ op'.pc = "kernel" /\ op'.call = op.call /\ op'.count = op.count /\ op'.work = op.work
      /\ op' \in Frame
  BY <1>1 DEF Frame
<1>3. TypeOK' /\ PointersTyped' /\ WorkOK' /\ CallOK'
  BY <1>1, <1>2 DEF IInv, TypeOK, PointersTyped, WorkOK, CallOK, InCall
<1>4. RecordsOK' /\ MemoryOK'
  BY <1>1, <1>2 DEF IInv, RecordsOK, MemoryOK, Outstanding, Calling
<1>5. Coverage'
  <2>1. ArgumentPlaces' = ArgumentPlaces
    BY <1>2 DEF ArgumentPlaces
  <2>2. ASSUME NEW p PROVE /\ Pending(p) => Pending(p)'
                           /\ InOrder(p) => InOrder(p)'
                           /\ Followed(p)' => Followed(p)
    BY <1>1, <1>2 DEF Pending, InOrder, Followed, Dangling
  <2>3. ASSUME NEW o PROVE PlacesIn(o)' = PlacesIn(o)
    BY <1>1, <1>2 DEF PlacesIn
  <2>4. ASSUME NEW p PROVE PlacesIn(mem[p].to)' = PlacesIn(mem[p].to)
    BY <1>1, <1>2 DEF PlacesIn
  <2>5. ASSUME NEW p PROVE Covered(p) => Covered(p)'
    BY <2>2 DEF Covered
  <2>6. ASSUME NEW p PROVE CoveredOnce(p) => CoveredOnce(p)'
    BY <2>2, <2>4, <2>5 DEF CoveredOnce
  <2>7. ASSUME NEW p PROVE CoveredTwice(p) => CoveredTwice(p)'
    BY <2>2, <2>4, <2>6 DEF CoveredTwice
  <2> QED BY <1>1, <1>2, <2>1, <2>7 DEF IInv, Coverage, Calling
<1> QED BY <1>3, <1>4, <1>5 DEF IInv

LEMMA VmcallReturnsInv ==
  ASSUME IInv, VmcallReturns
  PROVE  IInv'
<1>1. /\ mem' = mem /\ written' = written /\ freed' = freed /\ current' = current
      /\ records' = records /\ capacity' = capacity /\ lost' = lost
      /\ op.pc = "kernel" /\ op \in Frame
      /\ op' = [op EXCEPT !.pc = "restore", !.i = 1, !.refused = (current = HighBrk)]
      /\ current = op.call
  BY DEF VmcallReturns, programVars, bufferVars, IInv, TypeOK, CallOK, InCall
<1>2. /\ op'.pc = "restore" /\ op'.call = op.call /\ op'.count = op.count /\ op'.work = op.work
      /\ op'.i = 1 /\ (op'.refused <=> current = HighBrk) /\ op' \in Frame
  BY <1>1 DEF Frame
<1>3. TypeOK' /\ PointersTyped' /\ WorkOK'
  BY <1>1, <1>2 DEF IInv, TypeOK, PointersTyped, WorkOK, InCall
<1>4. CallOK'
  BY <1>1, <1>2 DEF CallOK
<1>5. RecordsOK'
  BY <1>1, <1>2 DEF IInv, RecordsOK, Calling
<1>6. MemoryOK'
  <2>1. \A i \in DOMAIN records : i >= 1
    BY LenProperties DEF IInv, TypeOK
  <2>2. \A c : Outstanding(c) => Outstanding(c)'
    BY <1>1, <1>2, <2>1 DEF Outstanding
  <2> QED BY <1>1, <2>2 DEF IInv, MemoryOK
<1>7. Coverage'
  BY <1>2 DEF Coverage, Calling
<1> QED BY <1>3, <1>4, <1>5, <1>6, <1>7 DEF IInv

\* A record restores what the program wrote, and is done with.
LEMMA RestorePointerInv ==
  ASSUME IInv, RestorePointer
  PROVE  IInv'
<1>1. /\ written' = written /\ freed' = freed /\ current' = current
      /\ records' = records /\ capacity' = capacity /\ lost' = lost
      /\ op.pc = "restore" /\ op \in Frame /\ op' = [op EXCEPT !.i = @ + 1]
      /\ op.i <= Len(records) /\ mem \in [Places -> Pointer] /\ written \in [Cells -> Pointer]
      /\ mem' = [mem EXCEPT ![records[op.i].at] = records[op.i].value]
      /\ op.i \in Nat /\ op.i > 0 /\ lost \subseteq Cells
  BY DEF RestorePointer, programVars, bufferVars, IInv, TypeOK, CallOK, Frame
<1>2. /\ op'.pc = "restore" /\ op'.call = op.call /\ op'.work = op.work
      /\ op'.i = op.i + 1 /\ op'.refused = op.refused /\ op' \in Frame
  BY <1>1 DEF Frame
<1>3. op.i \in DOMAIN records /\ DOMAIN records \subseteq Nat
  BY <1>1, LenProperties DEF IInv, TypeOK
<1>4. PICK c \in Cells : c = records[op.i].at /\ c \notin lost /\ records[op.i].value = written[c]
  BY <1>3 DEF IInv, RecordsOK
<1>5. /\ mem' = [mem EXCEPT ![c] = written[c]] /\ mem'[c] = written[c]
      /\ mem' \in [Places -> Pointer] /\ \A x \in Cells : x # c => mem'[x] = mem[x]
      /\ \A k \in Arguments : mem'[k] = mem[k]
  BY <1>1, <1>4, PlaceFacts
<1>6. TypeOK'
  BY <1>1, <1>2, <1>5 DEF IInv, TypeOK
<1>7. PointersTyped'
  <2>1. op.call \in DOMAIN Params
    BY <1>1 DEF Frame
  <2>2. \A k \in DOMAIN Params[op.call] : mem'[<<HookStack, k>>] = mem[<<HookStack, k>>]
    BY <2>1, <1>5, PlaceFacts
  <2> QED BY <2>2, <1>1, <1>2, <1>5 DEF IInv, PointersTyped, InCall
<1>8. WorkOK' /\ CallOK' /\ Coverage'
  BY <1>1, <1>2 DEF IInv, WorkOK, CallOK, Coverage, InCall, Calling
<1>9. RecordsOK'
  BY <1>1, <1>2 DEF IInv, RecordsOK, Calling
<1>10. MemoryOK'
  <2>1. ASSUME NEW x \in Cells \ lost PROVE mem'[x] = written[x] \/ Outstanding(x)'
    <3>1. CASE x = c
      BY <3>1, <1>5
    <3>2. CASE x # c /\ mem[x] = written[x]
      BY <3>2, <1>5
    <3>3. CASE x # c /\ mem[x] # written[x]
      <4>1. PICK i \in DOMAIN records : records[i].at = x /\ i >= op.i
        BY <3>3, <1>1 DEF IInv, MemoryOK, Outstanding
      <4>2. i >= op.i + 1
        BY <4>1, <3>3, <1>1, <1>3, <1>4
      <4> QED BY <4>1, <4>2, <1>1, <1>2 DEF Outstanding
    <3> QED BY <3>1, <3>2, <3>3
  <2>2. \A x \in lost : mem'[x] = Canonical(written[x].to)
    BY <1>1, <1>4, <1>5 DEF IInv, MemoryOK
  <2> QED BY <2>1, <2>2, <1>1 DEF MemoryOK
<1> QED BY <1>6, <1>7, <1>8, <1>9, <1>10 DEF IInv

LEMMA PosthookDoneInv ==
  ASSUME IInv, PosthookDone
  PROVE  IInv'
<1>1. /\ mem' = mem /\ written' = written /\ freed' = freed /\ current' = current
      /\ records' = <<>> /\ capacity' = capacity /\ lost' = lost
      /\ op.pc = "restore" /\ op.i > Len(records) /\ op.i \in Nat
      /\ op'.pc = "idle" /\ op'.work = <<>> /\ op' \in Frame
  BY CallsAssumption, ObjectsAssumption
     DEF PosthookDone, programVars, IInv, TypeOK, Idle, Frame
<1>2. TypeOK'
  BY <1>1 DEF IInv, TypeOK
<1>3. PointersTyped' /\ WorkOK' /\ CallOK' /\ Coverage'
  BY <1>1 DEF IInv, PointersTyped, WorkOK, CallOK, Coverage, InCall, Calling
<1>4. RecordsOK'
  BY <1>1 DEF IInv, TypeOK, RecordsOK, Calling
<1>5. MemoryOK'
  <2>1. Len(records) \in Nat /\ DOMAIN records = 1 .. Len(records)
    BY LenProperties DEF IInv, TypeOK
  <2>2. \A c : ~Outstanding(c)
    BY <2>1, <1>1 DEF Outstanding
  <2> QED BY <2>2, <1>1 DEF IInv, MemoryOK
<1> QED BY <1>2, <1>3, <1>4, <1>5 DEF IInv

LEMMA NextInv ==
  IInv /\ [Next]_vars => IInv'
<1> SUFFICES ASSUME IInv, [Next]_vars PROVE IInv'
  OBVIOUS
<1>1. CASE UNCHANGED vars
  BY <1>1 DEF vars, IInv, TypeOK, PointersTyped, WorkOK, RecordsOK, MemoryOK, CallOK, Coverage,
     InCall, Calling, TaskOK, Outstanding, CoveredTwice, CoveredOnce, Covered, Pending, InOrder,
     Followed, Dangling, ArgumentPlaces, PlacesIn, Fits
<1>2. CASE Program \/ Call
  BY <1>2, ProgramInv, CallInv
<1>3. CASE Step
  BY <1>3, FixInv, PrehookDoneInv, VmcallReturnsInv, RestorePointerInv, PosthookDoneInv DEF Step
<1> QED BY <1>1, <1>2, <1>3 DEF Next

LEMMA InvariantHolds ==
  Spec => []IInv
BY InitInv, NextInv, PTL DEF Spec

-----------------------------------------------------------------------------
(* The theorems. *)

\* Records, memory and the pointers still to be looked at keep their types: the
\* records are of places that exist, and fix-up never leaves an object's bounds.
THEOREM TypeCorrect ==
  Spec => []TypeOK
<1>1. IInv => TypeOK
  BY DEF IInv
<1> QED BY <1>1, InvariantHolds, PTL

\* The kernel meets no alias of valid memory, however the structures it is given
\* refer to each other.
THEOREM KernelSafe ==
  Spec => []KernelSeesCanonical
<1>1. ASSUME IInv, op.pc = "kernel"
      PROVE \A p \in KernelReads : mem[p].form = "alias" => Dangling(mem[p])
  <2>1. op.work = <<>> /\ \A p : ~Pending(p)
    BY <1>1 DEF IInv, WorkOK, Pending
  <2>2. \A p \in ArgumentPlaces : /\ InOrder(p)
                                  /\ Followed(p) => \A c \in PlacesIn(mem[p].to) : CoveredOnce(c)
    BY <1>1, <2>1 DEF IInv, Coverage, Calling, CoveredTwice
  <2>3. \A p : CoveredOnce(p) => /\ InOrder(p)
                                 /\ Followed(p) => \A c \in PlacesIn(mem[p].to) : InOrder(c)
    BY <2>1 DEF CoveredOnce, Covered
  <2>4. \A p \in Follow(ArgumentPlaces) :
          /\ InOrder(p)
          /\ Followed(p) => \A c \in PlacesIn(mem[p].to) : InOrder(c)
    BY <2>2, <2>3 DEF Follow, Followed
  <2>5. \A p \in Follow(Follow(ArgumentPlaces)) : InOrder(p)
    <3> DEFINE S == Follow(ArgumentPlaces)
    <3> HIDE DEF S
    <3>1. \A p \in Follow(S) : p \in S \/ \E q \in S : Followed(q) /\ p \in PlacesIn(mem[q].to)
      BY DEF Follow, Followed
    <3>2. \A p \in S : InOrder(p) /\ (Followed(p) => \A c \in PlacesIn(mem[p].to) : InOrder(c))
      BY <2>4 DEF S
    <3>3. \A p \in Follow(S) : InOrder(p)
      BY <3>1, <3>2
    <3> QED BY <3>3 DEF S
  <2>6. KernelReads = Follow(Follow(ArgumentPlaces))
    BY DEF KernelReads, ArgumentPlaces
  <2> QED BY <2>5, <2>6 DEF InOrder
<1>2. IInv => KernelSeesCanonical
  BY <1>1 DEF KernelSeesCanonical
<1> QED BY <1>2, InvariantHolds, PTL

\* Between system calls, the program's memory is what the program made it.
THEOREM ProgramMemoryRestored ==
  Spec => []MemoryRestored
<1>1. IInv => MemoryRestored
  BY DEF IInv, RecordsOK, MemoryOK, MemoryRestored, InProgram, Outstanding
<1> QED BY <1>1, InvariantHolds, PTL

\* The records of a call are exactly what has to be put back, and fit into the
\* buffer.
THEOREM RecordsExact ==
  Spec => []RecordsAccurate
<1>1. IInv => RecordsAccurate
  BY DEF IInv, RecordsOK, MemoryOK, RecordsAccurate, Calling, Outstanding
<1> QED BY <1>1, InvariantHolds, PTL

\* The post-hook refuses brk() above 4 GB and no other call.
THEOREM HighBrkRefused ==
  Spec => []RefusesHighBrk
<1>1. IInv => RefusesHighBrk
  BY DEF IInv, CallOK, RefusesHighBrk
<1> QED BY <1>1, InvariantHolds, PTL
=============================================================================
