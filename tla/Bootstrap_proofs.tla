------------------------- MODULE Bootstrap_proofs -------------------------
(***************************************************************************)
(* Proofs about start-up.  That the depth of the hooks is right needs only *)
(* what each function does on its own (`Balanced`).  The rest depends on   *)
(* who calls whom, and on that dune_init allocates: `Shape` says which     *)
(* call stacks there are.  Above the program's call, or the one that       *)
(* dangless_init makes, there are at most populate_addrs, the dlsym it     *)
(* calls and the calloc that calls, or the sysmalloc of do_vremap.  Once   *)
(* in Dune, all addresses are known, so that nothing is looked up by a     *)
(* call that enters a hook.                                                *)
(***************************************************************************)
EXTENDS Bootstrap, FiniteSetTheorems, SequenceTheorems, TLAPS

\* What a frame can be: which places each function has, and when it is hooked.
FrameOK(f) ==
  /\ f \in Frame
  /\ f.fn = "dangless_init" => f.pc \in {"start", "dune_enter", "restore_init", "hooks_init"}
  /\ f.fn = "populate_addrs" => /\ f.pc \in {"start", "lookup", "bind"}
                                /\ f.pc = "bind" => f.k <= 5
  /\ f.fn = "dlsym" => f.pc \in {"start", "buffer"}
  /\ f.fn \notin Functions => ~f.hooked /\ f.p = "none"
  /\ f.fn \in Functions => /\ f.pc \in {"enter", "sys", "call", "vremap", "exit"}
                           /\ f.api \in {"dangless", "sys"}
                           /\ f.pc \in {"sys", "call"} => f.p = "none"
                           /\ f.pc = "enter" /\ ~SysFirst(f.fn) => f.p = "none"
                           /\ f.pc = "enter" => ~f.hooked
                           /\ f.pc \in {"vremap", "exit"} => f.hooked
                           /\ f.api = "sys" => f.pc \in {"sys", "call"} /\ ~f.hooked
                           /\ f.hooked /\ SysFirst(f.fn) => f.pc \in {"vremap", "exit"}

Frames == stack \in Seq(Frame) /\ \A i \in DOMAIN stack : FrameOK(stack[i])

Balanced ==
  /\ depth \in 0 .. 1
  /\ depth = 0 => \A i \in DOMAIN stack : ~stack[i].hooked
  /\ depth = 1 => \E i \in DOMAIN stack : stack[i].hooked
  /\ \A i, j \in DOMAIN stack : stack[i].hooked /\ stack[j].hooked => i = j

BaseInv == Frames /\ Balanced

-----------------------------------------------------------------------------
(* Who calls whom. *)

\* The call of the program's, or of dangless_init's, is at the bottom or next.
Client == IF stack # <<>> /\ stack[1].fn = "dangless_init" THEN 2 ELSE 1

Populates(i) == i \in DOMAIN stack /\ stack[i].fn = "populate_addrs"

Shape ==
  LET b == Client
      n == Len(stack)
  IN  /\ n <= b + 3
      /\ b = 1 /\ n >= 1 => stack[1].fn \in Functions /\ stack[1].api = "dangless"
      /\ b = 2 /\ n >= 2 =>
           \/ /\ stack[1].pc = "dune_enter"
              /\ stack[2].fn = "malloc" /\ stack[2].api = "dangless"
           \/ /\ stack[1].pc = "hooks_init"
              /\ stack[2].fn = "realloc" /\ stack[2].api = "sys"
      /\ n >= b + 1 =>
           \/ stack[b].pc = "call" /\ Populates(b + 1)
           \/ /\ stack[b].pc = "exit" /\ n = b + 1
              /\ stack[n].fn = "malloc" /\ stack[n].api = "sys"
      /\ n >= b + 2 => /\ Populates(b + 1) /\ stack[b + 1].pc = "bind"
                       /\ stack[b + 2].fn = "dlsym"
      /\ n >= b + 3 => /\ stack[b + 2].pc = "buffer"
                       /\ stack[n].fn = "calloc" /\ stack[n].api = "dangless"
                       /\ ~stack[n].hooked

\* The addresses are found all at once, the first time one is needed.
Addresses ==
  LET b == Client
  IN  /\ addr \subseteq Functions
      /\ populating <=> Populates(b + 1) /\ stack[b + 1].pc # "start"
      /\ ~populating => addr \in {{}, Functions}
      /\ Populates(b + 1) =>
           /\ ~inDune /\ \A j \in 1 .. stack[b + 1].k - 1 : Symbols[j] \in addr
           /\ stack[b + 1].pc = "start" => addr = {}
      /\ stack # <<>> /\ Top.fn \in Functions /\ Top.pc = "call" => Top.fn \in addr
      /\ \A i \in DOMAIN stack :
           stack[i].fn = "malloc" /\ stack[i].pc \in {"enter", "vremap", "exit"} => "malloc" \in addr

\* Dune is entered with all addresses known, and the hooks are there before
\* any other call.
Entered ==
  /\ inDune => addr = Functions
  /\ Client = 2 =>
       /\ stack[1].pc = "dune_enter" /\ Len(stack) = 1 => addr = Functions
       /\ stack[1].pc \in {"restore_init", "hooks_init"} => addr = Functions
  /\ inDune /\ ~hooks => Client = 2 /\ stack[1].pc \in {"restore_init", "hooks_init"}
  /\ (\E i \in DOMAIN stack : stack[i].hooked) => inDune /\ hooks
  /\ remapped # {} => hooks

\* Where the static storage can be.
Storage ==
  LET b == Client
      n == Len(stack)
  IN  /\ dlsymBuffer \in Memory /\ ret \in Memory \cup {"void"}
      /\ \A i \in DOMAIN stack : stack[i].p = "special" => i = b + 3
      /\ "special" \notin remapped
      /\ n = b + 2 /\ Top.pc = "buffer" => ret \in Memory
      /\ ret = "special" => n = b + 2 /\ Top.pc = "buffer"
      /\ n >= b + 2 /\ stack[b + 2].pc = "buffer" => dlsymBuffer = "none"
      /\ storageUsed => \/ dlsymBuffer = "special"
                        \/ n = b + 3 /\ Top.p = "special"
                        \/ ret = "special"

Others ==
  /\ populating \in BOOLEAN /\ storageUsed \in BOOLEAN
  /\ inDune \in BOOLEAN /\ initialized \in BOOLEAN /\ hooks \in BOOLEAN
  /\ records \in {"none", "allocated", "refused"}
  /\ remapped \subseteq Memory
  /\ aborted \in {"", "symbol", "dune"}

IInv == BaseInv /\ Shape /\ Addresses /\ Entered /\ Storage /\ Others

-----------------------------------------------------------------------------
(* The call stack. *)

LEMMA FrontFacts ==
  ASSUME stack \in Seq(Frame), stack # <<>>, NEW n, n = Len(stack), NEW u, u = Front(stack)
  PROVE  /\ n \in Nat /\ n >= 1 /\ DOMAIN stack = 1 .. n /\ Top = stack[n] /\ stack[n] \in Frame
         /\ u \in Seq(Frame) /\ Len(u) = n - 1 /\ DOMAIN u = 1 .. n - 1
         /\ \A i \in 1 .. n - 1 : u[i] = stack[i]
<1>1. n \in Nat /\ n >= 1 /\ DOMAIN stack = 1 .. n
  BY LenProperties, EmptySeq
<1>2. Top = stack[n] /\ stack[n] \in Frame
  BY <1>1 DEF Top, Last
<1>3. PICK m \in Nat : m = n - 1
  BY <1>1
<1>4. u = SubSeq(stack, 1, m) /\ \A i \in 1 .. m : stack[i] \in Frame
  BY <1>1, <1>3 DEF Front
<1>5. /\ u \in Seq(Frame) /\ Len(u) = (IF 1 <= m THEN m - 1 + 1 ELSE 0)
      /\ \A i \in 1 .. m - 1 + 1 : u[i] = stack[1 + i - 1]
  BY <1>4, SubSeqProperties
<1>6. Len(u) = m /\ \A i \in 1 .. m : u[i] = stack[i]
  <2>1. Len(u) = m
    BY <1>5
  <2>2. ASSUME NEW i \in 1 .. m PROVE u[i] = stack[i]
    <3>1. i \in 1 .. m - 1 + 1 /\ 1 + i - 1 = i
      OBVIOUS
    <3> QED BY <3>1, <1>5
  <2> QED BY <2>1, <2>2
<1>7. DOMAIN u = 1 .. m
  BY <1>5, <1>6, LenProperties
<1> QED BY <1>1, <1>2, <1>3, <1>5, <1>6, <1>7

LEMMA TopFacts ==
  ASSUME stack \in Seq(Frame), stack # <<>>
  PROVE  /\ Len(stack) \in Nat /\ Len(stack) >= 1 /\ DOMAIN stack = 1 .. Len(stack)
         /\ Top = stack[Len(stack)] /\ Top \in Frame
<1>1. Len(stack) \in Nat /\ Len(stack) >= 1 /\ DOMAIN stack = 1 .. Len(stack)
  BY LenProperties, EmptySeq
<1> QED BY <1>1 DEF Top, Last

\* The frames after the three kinds of step.
LEMMA AfterGoto ==
  ASSUME stack \in Seq(Frame), stack # <<>>, NEW f \in Frame, stack' = Append(Front(stack), f),
         NEW n, n = Len(stack)
  PROVE  /\ stack' \in Seq(Frame) /\ stack' # <<>> /\ Len(stack') = n
         /\ DOMAIN stack' = 1 .. n
         /\ stack'[n] = f /\ Top' = f
         /\ \A i \in 1 .. n - 1 : stack'[i] = stack[i]
<1>1. PICK u : u = Front(stack)
  OBVIOUS
<1>2. /\ n \in Nat /\ n >= 1 /\ u \in Seq(Frame) /\ Len(u) = n - 1
      /\ \A i \in 1 .. n - 1 : u[i] = stack[i]
  BY <1>1, FrontFacts
<1>3. PICK t : t = stack' /\ t = Append(u, f)
  BY <1>1
<1>4. /\ t \in Seq(Frame) /\ t # <<>> /\ Len(t) = Len(u) + 1
      /\ \A i \in 1 .. Len(u) : t[i] = u[i]
      /\ t[Len(u) + 1] = f
  BY <1>2, <1>3, AppendProperties
<1>5. Len(t) = n /\ t[n] = f /\ \A i \in 1 .. n - 1 : t[i] = stack[i]
  BY <1>2, <1>4
<1>6. DOMAIN t = 1 .. n /\ Last(t) = t[n]
  BY <1>4, <1>5, LenProperties DEF Last
<1> QED BY <1>3, <1>4, <1>5, <1>6 DEF Top

LEMMA AfterCall ==
  ASSUME stack \in Seq(Frame), stack # <<>>, NEW f \in Frame, NEW g \in Frame,
         stack' = Append(Append(Front(stack), f), g), NEW n, n = Len(stack)
  PROVE  /\ stack' \in Seq(Frame) /\ stack' # <<>> /\ Len(stack') = n + 1
         /\ DOMAIN stack' = 1 .. n + 1
         /\ stack'[n + 1] = g /\ Top' = g /\ stack'[n] = f
         /\ \A i \in 1 .. n - 1 : stack'[i] = stack[i]
<1>1. PICK u : u = Front(stack)
  OBVIOUS
<1>2. /\ n \in Nat /\ n >= 1 /\ u \in Seq(Frame) /\ Len(u) = n - 1
      /\ \A i \in 1 .. n - 1 : u[i] = stack[i]
  BY <1>1, FrontFacts
<1>3. PICK s : s = Append(u, f)
  OBVIOUS
<1>4. /\ s \in Seq(Frame) /\ Len(s) = Len(u) + 1
      /\ \A i \in 1 .. Len(u) : s[i] = u[i]
      /\ s[Len(u) + 1] = f
  BY <1>2, <1>3, AppendProperties
<1>5. PICK t : t = stack' /\ t = Append(s, g)
  BY <1>1, <1>3
<1>6. /\ t \in Seq(Frame) /\ t # <<>> /\ Len(t) = Len(s) + 1
      /\ \A i \in 1 .. Len(s) : t[i] = s[i]
      /\ t[Len(s) + 1] = g
  BY <1>4, <1>5, AppendProperties
<1>7. Len(s) = n /\ s[n] = f /\ \A i \in 1 .. n - 1 : s[i] = stack[i]
  BY <1>2, <1>4
<1>8. Len(t) = n + 1 /\ t[n + 1] = g /\ t[n] = f /\ \A i \in 1 .. n - 1 : t[i] = stack[i]
  BY <1>2, <1>6, <1>7
<1>9. DOMAIN t = 1 .. n + 1 /\ Last(t) = t[n + 1]
  BY <1>6, <1>8, LenProperties DEF Last
<1> QED BY <1>5, <1>6, <1>8, <1>9 DEF Top

LEMMA AfterReturn ==
  ASSUME stack \in Seq(Frame), stack # <<>>, stack' = Front(stack), NEW n, n = Len(stack)
  PROVE  /\ stack' \in Seq(Frame) /\ Len(stack') = n - 1
         /\ DOMAIN stack' = 1 .. n - 1
         /\ \A i \in 1 .. n - 1 : stack'[i] = stack[i]
         /\ (n > 1 => stack' # <<>> /\ Top' = stack[n - 1]) /\ (n = 1 => stack' = <<>>)
<1>1. PICK t : t = stack' /\ t = Front(stack)
  OBVIOUS
<1>2. /\ n \in Nat /\ n >= 1 /\ t \in Seq(Frame) /\ Len(t) = n - 1 /\ DOMAIN t = 1 .. n - 1
      /\ \A i \in 1 .. n - 1 : t[i] = stack[i]
  BY <1>1, FrontFacts
<1>3. n > 1 => t # <<>> /\ Last(t) = t[n - 1]
  BY <1>2, EmptySeq DEF Last
<1>4. n = 1 => t = <<>>
  BY <1>2, EmptySeq
<1> QED BY <1>1, <1>2, <1>3, <1>4 DEF Top

-----------------------------------------------------------------------------
(* The depth of the hooks. *)

LEMMA GotoKeepsBase ==
  ASSUME BaseInv, stack # <<>>, NEW f, FrameOK(f), f.hooked = Top.hooked,
         stack' = Append(Front(stack), f), depth' = depth
  PROVE  BaseInv'
<1>1. f \in Frame /\ stack \in Seq(Frame)
  BY DEF FrameOK, BaseInv, Frames
<1>2. PICK n : n = Len(stack)
  OBVIOUS
<1>3. n \in Nat /\ n >= 1 /\ DOMAIN stack = 1 .. n /\ Top = stack[n]
  BY <1>1, <1>2, TopFacts
<1>4. /\ stack' \in Seq(Frame) /\ DOMAIN stack' = 1 .. n
      /\ stack'[n] = f /\ \A i \in 1 .. n - 1 : stack'[i] = stack[i]
  BY <1>1, <1>2, AfterGoto
<1>5. \A i \in 1 .. n : FrameOK(stack'[i]) /\ (stack'[i].hooked = stack[i].hooked)
  <2>1. \A i \in 1 .. n : i = n \/ i \in 1 .. n - 1
    BY <1>3
  <2> QED BY <2>1, <1>3, <1>4 DEF BaseInv, Frames
<1>6. Frames'
  BY <1>4, <1>5 DEF Frames, FrameOK
<1>7. Balanced'
  BY <1>3, <1>4, <1>5 DEF BaseInv, Balanced
<1> QED BY <1>6, <1>7 DEF BaseInv

LEMMA CallKeepsBase ==
  ASSUME BaseInv, stack # <<>>, NEW f, FrameOK(f), f.hooked = Top.hooked,
         NEW g, FrameOK(g), ~g.hooked,
         stack' = Append(Append(Front(stack), f), g), depth' = depth
  PROVE  BaseInv'
<1>1. f \in Frame /\ g \in Frame /\ stack \in Seq(Frame)
  BY DEF FrameOK, BaseInv, Frames
<1>2. PICK n : n = Len(stack)
  OBVIOUS
<1>3. n \in Nat /\ n >= 1 /\ DOMAIN stack = 1 .. n /\ Top = stack[n]
  BY <1>1, <1>2, TopFacts
<1>4. /\ stack' \in Seq(Frame) /\ DOMAIN stack' = 1 .. n + 1
      /\ stack'[n + 1] = g /\ stack'[n] = f /\ \A i \in 1 .. n - 1 : stack'[i] = stack[i]
  BY <1>1, <1>2, AfterCall
<1>5. \A i \in 1 .. n : FrameOK(stack'[i]) /\ (stack'[i].hooked = stack[i].hooked)
  <2>1. \A i \in 1 .. n : i = n \/ i \in 1 .. n - 1
    BY <1>3
  <2> QED BY <2>1, <1>3, <1>4 DEF BaseInv, Frames
<1>6. \A i \in 1 .. n + 1 : i = n + 1 \/ i \in 1 .. n
  BY <1>3
<1>7. Frames'
  BY <1>4, <1>5, <1>6 DEF Frames, FrameOK
<1>8. \A i \in DOMAIN stack' : stack'[i].hooked => i \in 1 .. n
  BY <1>4, <1>6
<1>9. 1 .. n \subseteq DOMAIN stack'
  BY <1>3, <1>4
<1>10. Balanced'
  BY <1>3, <1>5, <1>8, <1>9 DEF BaseInv, Balanced
<1> QED BY <1>7, <1>10 DEF BaseInv

LEMMA ReturnKeepsBase ==
  ASSUME BaseInv, stack # <<>>, ~Top.hooked, stack' = Front(stack), depth' = depth
  PROVE  BaseInv'
<1>1. stack \in Seq(Frame)
  BY DEF BaseInv, Frames
<1>2. PICK n : n = Len(stack)
  OBVIOUS
<1>3. n \in Nat /\ n >= 1 /\ DOMAIN stack = 1 .. n /\ Top = stack[n]
  BY <1>1, <1>2, TopFacts
<1>4. /\ stack' \in Seq(Frame) /\ DOMAIN stack' = 1 .. n - 1
      /\ \A i \in 1 .. n - 1 : stack'[i] = stack[i]
  BY <1>1, <1>2, AfterReturn
<1>5. \A i \in 1 .. n : i = n \/ i \in 1 .. n - 1
  BY <1>3
<1>6. Frames'
  BY <1>3, <1>4 DEF BaseInv, Frames, FrameOK
<1>7. Balanced'
  BY <1>3, <1>4, <1>5 DEF BaseInv, Balanced
<1> QED BY <1>6, <1>7 DEF BaseInv

\* The frame of populate_addrs at its next symbol.
LEMMA NextLookup ==
  ASSUME Top \in Frame, Top.k <= 5, NEW g, g = [Top EXCEPT !.pc = "lookup", !.k = @ + 1]
  PROVE  /\ g \in Frame /\ g.pc = "lookup" /\ g.fn = Top.fn /\ g.api = Top.api /\ g.k = Top.k + 1
         /\ g.p = Top.p /\ g.hooked = Top.hooked
<1>1. Top.k \in 1 .. 6
  BY DEF Frame
<1>2. Top.k + 1 \in 1 .. 6
  <2>1. PICK k \in 1 .. 6 : k = Top.k /\ k <= 5
    BY <1>1
  <2>2. k + 1 \in 1 .. 6
    BY <2>1
  <2> QED BY <2>1, <2>2
<1>3. g = [Top EXCEPT !.pc = "lookup", !.k = Top.k + 1]
  BY DEF Frame
<1> QED BY <1>2, <1>3 DEF Frame

LEMMA NewFrames ==
  /\ \A fn \in Functions, api \in {"dangless", "sys"} :
       LET f == Allocator(fn, api)
       IN  /\ FrameOK(f) /\ f.fn = fn /\ f.api = api /\ ~f.hooked /\ f.p = "none"
           /\ f.pc = IF api = "sys" \/ SysFirst(fn) THEN "sys" ELSE "enter"
  /\ \A fn \in {"populate_addrs", "dlsym", "dangless_init"} :
       LET f == NewFrame(fn, "", "start")
       IN  /\ FrameOK(f) /\ f.fn = fn /\ ~f.hooked /\ f.p = "none" /\ f.pc = "start" /\ f.k = 1
BY DEF Allocator, NewFrame, FrameOK, Frame, Functions, Memory, SysFirst

\* The innermost call, when it has reached a place.
LEMMA TopAt ==
  ASSUME BaseInv, NEW fn, NEW pc, At(fn, pc)
  PROVE  /\ aborted = "" /\ stack # <<>> /\ stack \in Seq(Frame)
         /\ Top.fn = fn /\ Top.pc = pc /\ Top \in Frame /\ FrameOK(Top)
<1>1. aborted = "" /\ stack # <<>> /\ stack \in Seq(Frame) /\ Top.fn = fn /\ Top.pc = pc
  BY DEF At, BaseInv, Frames
<1>2. Top = stack[Len(stack)] /\ Len(stack) \in DOMAIN stack /\ Top \in Frame
  <2>1. /\ Len(stack) \in Nat /\ Len(stack) >= 1 /\ DOMAIN stack = 1 .. Len(stack)
        /\ Top = stack[Len(stack)] /\ Top \in Frame
    BY ONLY <1>1, TopFacts
  <2> QED BY <2>1
<1>3. FrameOK(Top)
  BY <1>2 DEF BaseInv, Frames
<1> QED BY <1>1, <1>2, <1>3

LEMMA TopInAllocator ==
  ASSUME BaseInv, NEW pc, InAllocator(pc)
  PROVE  /\ aborted = "" /\ stack # <<>> /\ stack \in Seq(Frame)
         /\ Top.fn \in Functions /\ Top.pc = pc /\ Top \in Frame /\ FrameOK(Top)
BY TopAt DEF InAllocator

LEMMA HasMemoryBase ==
  ASSUME BaseInv, NEW pc \in {"sys", "call"}, InAllocator(pc), NEW p \in Memory, HasMemory(p),
         depth' = depth
  PROVE  BaseInv'
<1>1. /\ stack # <<>> /\ Top \in Frame /\ FrameOK(Top) /\ Top.fn \in Functions /\ Top.pc = pc
  BY TopInAllocator
<1>2. CASE ReturnsAtOnce(p) /\ Return(p)
  <2>1. ~Top.hooked
    BY <1>1, <1>2 DEF ReturnsAtOnce, FrameOK, SysFirst
  <2> QED BY <2>1, <1>1, <1>2, ReturnKeepsBase DEF Return
<1>3. CASE ~ReturnsAtOnce(p) /\ SysFirst(Top.fn) /\ Goto([Top EXCEPT !.p = p, !.pc = "enter"])
  <2>1. PICK f : f = [Top EXCEPT !.p = p, !.pc = "enter"]
    OBVIOUS
  <2>2. /\ f \in Frame /\ f.pc = "enter" /\ f.fn = Top.fn /\ f.api = Top.api
        /\ f.hooked = Top.hooked
    BY <2>1, <1>1 DEF Frame
  <2>3. FrameOK(f)
    BY <2>2, <1>1, <1>3 DEF FrameOK, ReturnsAtOnce, Functions
  <2> QED BY <2>1, <2>2, <2>3, <1>1, <1>3, GotoKeepsBase DEF Goto
<1>4. CASE ~ReturnsAtOnce(p) /\ ~SysFirst(Top.fn) /\ ~Top.hooked /\ Return(p)
  BY <1>1, <1>4, ReturnKeepsBase DEF Return
<1>5. CASE /\ ~ReturnsAtOnce(p) /\ ~SysFirst(Top.fn) /\ Top.hooked
           /\ Goto([Top EXCEPT !.p = p, !.pc = IF Top.fn = "realloc" THEN "vremap" ELSE "exit"])
  <2>1. PICK to \in {"vremap", "exit"} : to = IF Top.fn = "realloc" THEN "vremap" ELSE "exit"
    OBVIOUS
  <2>2. PICK f : f = [Top EXCEPT !.p = p, !.pc = to]
    OBVIOUS
  <2>3. /\ f \in Frame /\ f.pc = to /\ f.fn = Top.fn /\ f.api = Top.api
        /\ f.hooked = Top.hooked
    BY <2>2, <1>1 DEF Frame
  <2>4. FrameOK(f)
    BY <2>3, <1>1, <1>5 DEF FrameOK, ReturnsAtOnce, Functions
  <2>5. Goto(f)
    BY <2>1, <2>2, <1>5
  <2> QED BY <2>3, <2>4, <2>5, <1>1, GotoKeepsBase DEF Goto
<1> QED BY <1>2, <1>3, <1>4, <1>5 DEF HasMemory

LEMMA StackKept ==
  ASSUME BaseInv, UNCHANGED <<stack, depth>>
  PROVE  BaseInv'
BY DEF BaseInv, Frames, FrameOK, Balanced

LEMMA StartPopulatingBase ==
  ASSUME BaseInv, StartPopulating
  PROVE  BaseInv'
<1>1. /\ stack # <<>> /\ Top \in Frame /\ FrameOK(Top)
      /\ Top.fn = "populate_addrs" /\ Top.pc = "start"
  BY TopAt DEF StartPopulating
<1>2. CASE populating
  BY <1>2, StackKept DEF StartPopulating, Abort
<1>3. CASE ~populating
  <2>1. PICK f : f = [Top EXCEPT !.pc = "lookup"]
    OBVIOUS
  <2>2. /\ f \in Frame /\ f.pc = "lookup" /\ f.fn = Top.fn /\ f.p = Top.p
        /\ f.hooked = Top.hooked
    BY <2>1, <1>1 DEF Frame
  <2>3. FrameOK(f)
    BY <2>2, <1>1 DEF FrameOK, Functions
  <2> QED BY <2>1, <2>2, <2>3, <1>1, <1>3, GotoKeepsBase DEF StartPopulating, Goto
<1> QED BY <1>2, <1>3

LEMMA LookUpBase ==
  ASSUME BaseInv, LookUp
  PROVE  BaseInv'
<1>1. /\ stack # <<>> /\ Top \in Frame /\ FrameOK(Top)
      /\ Top.fn = "populate_addrs" /\ Top.pc = "lookup" /\ Top.k <= 5
  BY TopAt DEF LookUp, Symbols
<1>2. PICK f : f = [Top EXCEPT !.pc = "bind"]
  OBVIOUS
<1>3. /\ f \in Frame /\ f.pc = "bind" /\ f.fn = Top.fn /\ f.p = Top.p /\ f.k = Top.k
      /\ f.hooked = Top.hooked
  BY <1>2, <1>1 DEF Frame
<1>4. FrameOK(f)
  BY <1>3, <1>1 DEF FrameOK, Functions
<1>5. PICK g : g = NewFrame("dlsym", "", "start") /\ FrameOK(g) /\ ~g.hooked
  BY NewFrames
<1>6. stack' = Append(Append(Front(stack), f), g) /\ depth' = depth
  BY <1>2, <1>5 DEF LookUp, CallFrom
<1> QED BY <1>1, <1>3, <1>4, <1>5, <1>6, CallKeepsBase

LEMMA BindBase ==
  ASSUME BaseInv, Bind
  PROVE  BaseInv'
<1>1. /\ stack # <<>> /\ Top \in Frame /\ FrameOK(Top)
      /\ Top.fn = "populate_addrs" /\ Top.pc = "bind" /\ Top.k <= 5
  BY TopAt DEF Bind, FrameOK
<1>2. CASE Abort("symbol")
  BY <1>2, StackKept DEF Bind, Abort
<1>3. CASE Goto([Top EXCEPT !.pc = "lookup", !.k = @ + 1])
  <2>1. PICK f : f = [Top EXCEPT !.pc = "lookup", !.k = @ + 1]
    OBVIOUS
  <2>2. /\ f \in Frame /\ f.pc = "lookup" /\ f.fn = Top.fn /\ f.p = Top.p
        /\ f.hooked = Top.hooked
    BY <2>1, <1>1, NextLookup
  <2>3. FrameOK(f)
    BY <2>2, <1>1 DEF FrameOK, Functions
  <2> QED BY <2>1, <2>2, <2>3, <1>1, <1>3, GotoKeepsBase DEF Bind, Goto
<1> QED BY <1>2, <1>3 DEF Bind

LEMMA ReturnsBase ==
  ASSUME BaseInv, DonePopulating \/ DlsymReturns \/ HooksInit
  PROVE  BaseInv'
<1>1. /\ stack # <<>> /\ FrameOK(Top) /\ Top.fn \notin Functions
      /\ stack' = Front(stack) /\ depth' = depth
  <2>1. CASE DonePopulating
    <3>1. /\ At("populate_addrs", "lookup") /\ stack' = Front(stack) /\ depth' = depth
      BY <2>1 DEF DonePopulating, Return
    <3>2. stack # <<>> /\ FrameOK(Top) /\ Top.fn = "populate_addrs"
      BY <3>1, TopAt
    <3> QED BY <3>1, <3>2 DEF Functions
  <2>2. CASE DlsymReturns
    <3>1. /\ At("dlsym", "start") \/ At("dlsym", "buffer")
          /\ stack' = Front(stack) /\ depth' = depth
      BY <2>2 DEF DlsymReturns, Return
    <3>2. stack # <<>> /\ FrameOK(Top) /\ Top.fn = "dlsym"
      BY <3>1, TopAt
    <3> QED BY <3>1, <3>2 DEF Functions
  <2>3. CASE HooksInit
    <3>1. /\ At("dangless_init", "hooks_init") /\ stack' = Front(stack) /\ depth' = depth
      BY <2>3 DEF HooksInit, Return
    <3>2. stack # <<>> /\ FrameOK(Top) /\ Top.fn = "dangless_init"
      BY <3>1, TopAt
    <3> QED BY <3>1, <3>2 DEF Functions
  <2> QED BY <2>1, <2>2, <2>3
<1>2. ~Top.hooked
  BY <1>1 DEF FrameOK
<1> QED BY <1>1, <1>2, ReturnKeepsBase

LEMMA DlsymAllocatesBase ==
  ASSUME BaseInv, DlsymAllocates
  PROVE  BaseInv'
<1>1. /\ stack # <<>> /\ Top \in Frame /\ FrameOK(Top) /\ Top.fn = "dlsym" /\ Top.pc = "start"
  BY TopAt DEF DlsymAllocates
<1>2. PICK f : f = [Top EXCEPT !.pc = "buffer"]
  OBVIOUS
<1>3. f \in Frame /\ f.pc = "buffer" /\ f.fn = Top.fn /\ f.p = Top.p /\ f.hooked = Top.hooked
  BY <1>2, <1>1 DEF Frame
<1>4. FrameOK(f)
  BY <1>3, <1>1 DEF FrameOK, Functions
<1>5. PICK g : g = Allocator("calloc", "dangless") /\ FrameOK(g) /\ ~g.hooked
  BY NewFrames DEF Functions
<1>6. stack' = Append(Append(Front(stack), f), g) /\ depth' = depth
  BY <1>2, <1>5 DEF DlsymAllocates, CallFrom
<1> QED BY <1>1, <1>3, <1>4, <1>5, <1>6, CallKeepsBase

LEMMA ProxyBase ==
  ASSUME BaseInv, Proxy
  PROVE  BaseInv'
<1>1. /\ stack # <<>> /\ Top \in Frame /\ FrameOK(Top) /\ Top.fn \in Functions /\ Top.pc = "sys"
  BY TopInAllocator DEF Proxy
<1>2. PICK f : f = [Top EXCEPT !.pc = "call"]
  OBVIOUS
<1>3. /\ f \in Frame /\ f.pc = "call" /\ f.fn = Top.fn /\ f.p = Top.p /\ f.api = Top.api
      /\ f.hooked = Top.hooked
  BY <1>2, <1>1 DEF Frame
<1>4. FrameOK(f)
  BY <1>3, <1>1 DEF FrameOK, Functions
<1>5. PICK g : g = NewFrame("populate_addrs", "", "start") /\ FrameOK(g) /\ ~g.hooked
  BY NewFrames
<1>6. /\ depth' = depth
      /\ \/ stack' = Append(Front(stack), f)
         \/ stack' = Append(Append(Front(stack), f), g)
  BY <1>2, <1>5 DEF Proxy, CallFrom, Goto
<1>7. CASE stack' = Append(Front(stack), f)
  BY <1>1, <1>3, <1>4, <1>6, <1>7, GotoKeepsBase
<1>8. CASE stack' = Append(Append(Front(stack), f), g)
  BY <1>1, <1>3, <1>4, <1>5, <1>6, <1>8, CallKeepsBase
<1> QED BY <1>6, <1>7, <1>8

LEMMA MemoryBase ==
  ASSUME BaseInv, Special \/ CallSystem
  PROVE  BaseInv'
<1>1. CASE Special
  <2>1. CASE Abort("assertion")
    BY <1>1, <2>1, StackKept DEF Special, Abort
  <2>2. CASE HasMemory("special")
    <3>1. InAllocator("sys") /\ depth' = depth /\ "special" \in Memory
      BY <1>1 DEF Special, Memory
    <3> QED BY <2>2, <3>1, HasMemoryBase
  <2> QED BY <1>1, <2>1, <2>2 DEF Special
<1>2. CASE CallSystem
  <2>1. CASE Abort("null call")
    BY <1>2, <2>1, StackKept DEF CallSystem, Abort
  <2>2. CASE \E p \in Given(Top.fn) : HasMemory(p)
    <3>1. PICK p \in Given(Top.fn) : HasMemory(p)
      BY <2>2
    <3>2. InAllocator("call") /\ depth' = depth /\ p \in Memory
      BY <1>2 DEF CallSystem, Memory, Given
    <3> QED BY <3>1, <3>2, HasMemoryBase
  <2> QED BY <1>2, <2>1, <2>2 DEF CallSystem
<1> QED BY <1>1, <1>2

\* HOOK_ENTER: the depth was 0, so that no other call is hooked.
LEMMA HookEnterBase ==
  ASSUME BaseInv, HookEnter
  PROVE  BaseInv'
<1>1. /\ stack # <<>> /\ stack \in Seq(Frame) /\ Top \in Frame /\ FrameOK(Top)
      /\ Top.fn \in Functions /\ Top.pc = "enter" /\ ~Top.hooked /\ Top.api = "dangless"
      /\ ~SysFirst(Top.fn) => Top.p = "none"
  <2>1. /\ stack # <<>> /\ stack \in Seq(Frame) /\ Top \in Frame /\ FrameOK(Top)
        /\ Top.fn \in Functions /\ Top.pc = "enter"
    BY TopInAllocator DEF HookEnter
  <2> QED BY <2>1 DEF FrameOK
<1>2. CASE depth = 0 /\ inDune
  <2>1. PICK to \in {"vremap", "sys"} : to = IF SysFirst(Top.fn) THEN "vremap" ELSE "sys"
    OBVIOUS
  <2>2. PICK f : f = [Top EXCEPT !.hooked = TRUE, !.pc = to]
    OBVIOUS
  <2>3. /\ f \in Frame /\ f.pc = to /\ f.fn = Top.fn /\ f.p = Top.p /\ f.api = Top.api
        /\ f.hooked
    BY <2>2, <1>1 DEF Frame
  <2>4. FrameOK(f)
    BY <2>3, <2>1, <1>1 DEF FrameOK, Functions
  <2>5. stack' = Append(Front(stack), f) /\ depth' = 1
    BY <1>2, <2>1, <2>2 DEF HookEnter, Goto
  <2>6. PICK n : n = Len(stack)
    OBVIOUS
  <2>7. n \in Nat /\ n >= 1 /\ DOMAIN stack = 1 .. n
    BY <1>1, <2>6, TopFacts
  <2>8. /\ stack' \in Seq(Frame) /\ DOMAIN stack' = 1 .. n
        /\ stack'[n] = f /\ \A i \in 1 .. n - 1 : stack'[i] = stack[i]
    BY <1>1, <2>3, <2>5, <2>6, AfterGoto
  <2>9. \A i \in 1 .. n : FrameOK(stack'[i]) /\ (stack'[i].hooked => i = n)
    <3>1. \A i \in 1 .. n : i = n \/ i \in 1 .. n - 1
      BY <2>7
    <3>2. \A i \in 1 .. n - 1 : FrameOK(stack'[i]) /\ ~stack'[i].hooked
      BY <1>2, <2>7, <2>8 DEF BaseInv, Frames, Balanced
    <3> QED BY <3>1, <3>2, <2>4, <2>8
  <2>10. Frames'
    BY <2>8, <2>9 DEF Frames, FrameOK
  <2>11. Balanced'
    BY <2>3, <2>5, <2>7, <2>8, <2>9 DEF Balanced
  <2> QED BY <2>10, <2>11 DEF BaseInv
<1>3. CASE ~(depth = 0 /\ inDune) /\ SysFirst(Top.fn)
  <2>1. stack' = Front(stack) /\ depth' = depth
    BY <1>3 DEF HookEnter, Return
  <2> QED BY <2>1, <1>1, ReturnKeepsBase
<1>4. CASE ~(depth = 0 /\ inDune) /\ ~SysFirst(Top.fn)
  <2>1. PICK f : f = [Top EXCEPT !.pc = "sys"]
    OBVIOUS
  <2>2. /\ f \in Frame /\ f.pc = "sys" /\ f.fn = Top.fn /\ f.p = Top.p /\ f.api = Top.api
        /\ f.hooked = Top.hooked
    BY <2>1, <1>1 DEF Frame
  <2>3. FrameOK(f)
    BY <2>2, <1>1, <1>4 DEF FrameOK, Functions
  <2>4. stack' = Append(Front(stack), f) /\ depth' = depth
    BY <1>4, <2>1 DEF HookEnter, Goto
  <2> QED BY <2>2, <2>3, <2>4, <1>1, GotoKeepsBase
<1> QED BY <1>2, <1>3, <1>4

LEMMA VremapBase ==
  ASSUME BaseInv, Vremap
  PROVE  BaseInv'
<1>1. /\ stack # <<>> /\ Top \in Frame /\ FrameOK(Top) /\ Top.fn \in Functions /\ Top.pc = "vremap"
  BY TopInAllocator DEF Vremap
<1>2. PICK f : f = [Top EXCEPT !.pc = "exit"]
  OBVIOUS
<1>3. /\ f \in Frame /\ f.pc = "exit" /\ f.fn = Top.fn /\ f.p = Top.p /\ f.api = Top.api
      /\ f.hooked = Top.hooked
  BY <1>2, <1>1 DEF Frame
<1>4. FrameOK(f)
  BY <1>3, <1>1 DEF FrameOK, Functions
<1>5. PICK g : g = Allocator("malloc", "sys") /\ FrameOK(g) /\ ~g.hooked
  BY NewFrames DEF Functions
<1>6. /\ depth' = depth
      /\ \/ stack' = Append(Front(stack), f)
         \/ stack' = Append(Append(Front(stack), f), g)
  BY <1>2, <1>5 DEF Vremap, CallFrom, Goto
<1>7. CASE stack' = Append(Front(stack), f)
  BY <1>1, <1>3, <1>4, <1>6, <1>7, GotoKeepsBase
<1>8. CASE stack' = Append(Append(Front(stack), f), g)
  BY <1>1, <1>3, <1>4, <1>5, <1>6, <1>8, CallKeepsBase
<1> QED BY <1>6, <1>7, <1>8

\* HOOK_RETURN: the call that returns is the one that is hooked.
LEMMA HookExitBase ==
  ASSUME BaseInv, HookExit
  PROVE  BaseInv'
<1>1. /\ stack # <<>> /\ stack \in Seq(Frame) /\ Top.hooked
      /\ stack' = Front(stack) /\ depth' = 0
  BY TopInAllocator DEF HookExit, Return, FrameOK
<1>2. PICK n : n = Len(stack)
  OBVIOUS
<1>3. n \in Nat /\ n >= 1 /\ DOMAIN stack = 1 .. n /\ Top = stack[n]
  BY <1>1, <1>2, TopFacts
<1>4. /\ stack' \in Seq(Frame) /\ DOMAIN stack' = 1 .. n - 1
      /\ \A i \in 1 .. n - 1 : stack'[i] = stack[i]
  BY <1>1, <1>2, AfterReturn
<1>5. \A i \in 1 .. n - 1 : i \in 1 .. n /\ i # n
  BY <1>3
<1>6. \A i \in 1 .. n - 1 : FrameOK(stack'[i]) /\ ~stack'[i].hooked
  BY <1>1, <1>3, <1>4, <1>5 DEF BaseInv, Frames, Balanced
<1>7. Frames'
  BY <1>4, <1>6 DEF Frames, FrameOK
<1>8. Balanced'
  BY <1>1, <1>4, <1>6 DEF Balanced
<1> QED BY <1>7, <1>8 DEF BaseInv

LEMMA InitialisationBase ==
  ASSUME BaseInv, StartInit \/ EnterDune \/ RestoreInit
  PROVE  BaseInv'
<1>1. CASE StartInit
  <2>1. /\ stack # <<>> /\ Top \in Frame /\ FrameOK(Top) /\ Top.fn = "dangless_init"
    BY <1>1, TopAt DEF StartInit
  <2>2. PICK f : f = [Top EXCEPT !.pc = "dune_enter"]
    OBVIOUS
  <2>3. f \in Frame /\ f.pc = "dune_enter" /\ f.fn = Top.fn /\ f.p = Top.p /\ f.hooked = Top.hooked
    BY <2>1, <2>2 DEF Frame
  <2>4. FrameOK(f) /\ ~Top.hooked
    BY <2>1, <2>3 DEF FrameOK, Functions
  <2>5. PICK g : g = Allocator("malloc", "dangless") /\ FrameOK(g) /\ ~g.hooked
    BY NewFrames DEF Functions
  <2>6. /\ depth' = depth
        /\ \/ stack' = Front(stack)
           \/ stack' = Append(Front(stack), f)
           \/ stack' = Append(Append(Front(stack), f), g)
    BY <1>1, <2>2, <2>5 DEF StartInit, CallFrom, Goto, Return
  <2>7. CASE stack' = Append(Front(stack), f)
    BY <2>1, <2>3, <2>4, <2>6, <2>7, GotoKeepsBase
  <2>8. CASE stack' = Append(Append(Front(stack), f), g)
    BY <2>1, <2>3, <2>4, <2>5, <2>6, <2>8, CallKeepsBase
  <2>9. CASE stack' = Front(stack)
    BY <2>1, <2>4, <2>6, <2>9, ReturnKeepsBase
  <2> QED BY <2>6, <2>7, <2>8, <2>9
<1>2. CASE EnterDune
  <2>1. /\ stack # <<>> /\ Top \in Frame /\ FrameOK(Top) /\ Top.fn = "dangless_init"
    BY <1>2, TopAt DEF EnterDune
  <2>2. CASE Abort("dune")
    BY <1>2, <2>2, StackKept DEF EnterDune, Abort
  <2>3. CASE Goto([Top EXCEPT !.pc = "restore_init"])
    <3>1. PICK f : f = [Top EXCEPT !.pc = "restore_init"]
      OBVIOUS
    <3>2. /\ f \in Frame /\ f.pc = "restore_init" /\ f.fn = Top.fn /\ f.p = Top.p
          /\ f.hooked = Top.hooked
      BY <2>1, <3>1 DEF Frame
    <3>3. FrameOK(f)
      BY <2>1, <3>2 DEF FrameOK, Functions
    <3> QED BY <1>2, <2>1, <2>3, <3>1, <3>2, <3>3, GotoKeepsBase DEF EnterDune, Goto
  <2> QED BY <1>2, <2>2, <2>3 DEF EnterDune
<1>3. CASE RestoreInit
  <2>1. /\ stack # <<>> /\ Top \in Frame /\ FrameOK(Top) /\ Top.fn = "dangless_init"
    BY <1>3, TopAt DEF RestoreInit
  <2>2. PICK f : f = [Top EXCEPT !.pc = "hooks_init"]
    OBVIOUS
  <2>3. f \in Frame /\ f.pc = "hooks_init" /\ f.fn = Top.fn /\ f.p = Top.p /\ f.hooked = Top.hooked
    BY <2>1, <2>2 DEF Frame
  <2>4. FrameOK(f)
    BY <2>1, <2>3 DEF FrameOK, Functions
  <2>5. PICK g : g = Allocator("realloc", "sys") /\ FrameOK(g) /\ ~g.hooked
    BY NewFrames DEF Functions
  <2>6. stack' = Append(Append(Front(stack), f), g) /\ depth' = depth
    BY <1>3, <2>2, <2>5 DEF RestoreInit, CallFrom
  <2> QED BY <2>1, <2>3, <2>4, <2>5, <2>6, CallKeepsBase
<1> QED BY <1>1, <1>2, <1>3

LEMMA ProgramCallsBase ==
  ASSUME BaseInv, ProgramCalls
  PROVE  BaseInv'
<1>1. PICK f : stack' = <<f>> /\ FrameOK(f) /\ ~f.hooked
  <2>1. PICK f \in {Allocator(fn, "dangless") : fn \in Functions}
                   \cup {NewFrame("dangless_init", "", "start")} : stack' = <<f>>
    BY DEF ProgramCalls
  <2>2. FrameOK(f) /\ ~f.hooked
    BY NewFrames
  <2> QED BY <2>1, <2>2
<1>2. stack = <<>> /\ depth' = depth
  BY DEF ProgramCalls
<1>3. depth = 0
  BY <1>2 DEF BaseInv, Balanced
<1>4. stack' \in Seq(Frame) /\ DOMAIN stack' = 1 .. 1 /\ stack'[1] = f
  BY <1>1 DEF FrameOK
<1>5. \A i \in DOMAIN stack' : stack'[i] = f
  BY <1>4
<1> QED BY <1>1, <1>2, <1>3, <1>4, <1>5 DEF BaseInv, Frames, FrameOK, Balanced

LEMMA StepBase ==
  ASSUME BaseInv, [Next]_vars
  PROVE  BaseInv'
<1>1. CASE ProgramCalls
  BY <1>1, ProgramCallsBase
<1>2. CASE Step
  BY <1>2, StartPopulatingBase, LookUpBase, BindBase, ReturnsBase, DlsymAllocatesBase, ProxyBase,
     MemoryBase, HookEnterBase, VremapBase, HookExitBase, InitialisationBase DEF Step
<1>3. CASE UNCHANGED vars
  BY <1>3, StackKept DEF vars
<1> QED BY <1>1, <1>2, <1>3 DEF Next

LEMMA InitBase == Init => BaseInv
<1> SUFFICES ASSUME Init PROVE BaseInv
  OBVIOUS
<1>1. stack = <<>> /\ stack \in Seq(Frame) /\ DOMAIN stack = {} /\ depth = 0
  <2>1. stack = <<>> /\ depth = 0
    BY DEF Init
  <2>2. DOMAIN <<>> = {} /\ <<>> \in Seq(Frame)
    OBVIOUS
  <2> QED BY <2>1, <2>2
<1> QED BY <1>1 DEF BaseInv, Frames, Balanced

\* In every run the depth of the hooks is the number of calls in progress that entered one,
\* whatever dune_init does and however dlsym allocates.
THEOREM DepthBalanced == Spec => []HooksBalanced
<1>1. BaseInv => HooksBalanced
  <2> SUFFICES ASSUME BaseInv PROVE HooksBalanced
    OBVIOUS
  <2> DEFINE H == {i \in DOMAIN stack : stack[i].hooked}
  <2>1. CASE depth = 0
    <3>1. H = {}
      BY <2>1 DEF BaseInv, Balanced
    <3> QED BY <2>1, <3>1, FS_EmptySet DEF HooksBalanced
  <2>2. CASE depth = 1
    <3>1. PICK i \in DOMAIN stack : stack[i].hooked
      BY <2>2 DEF BaseInv, Balanced
    <3>2. H = {i}
      BY <3>1 DEF BaseInv, Balanced
    <3>3. Cardinality({i}) = 1
      BY FS_Singleton
    <3> QED BY <2>2, <3>2, <3>3 DEF HooksBalanced
  <2> QED BY <2>1, <2>2 DEF BaseInv, Balanced
<1> QED BY <1>1, InitBase, StepBase, PTL DEF Spec

-----------------------------------------------------------------------------
(* The call stack, function by function. *)

\* Where on the stack a function of the allocator can be running.
Placed(n, b) ==
  \/ n = b
  \/ n = b + 1 /\ Top.fn = "malloc" /\ Top.api = "sys" /\ stack[b].pc = "exit"
  \/ /\ n = b + 3 /\ Top.fn = "calloc" /\ Top.api = "dangless" /\ ~Top.hooked
     /\ Populates(b + 1) /\ stack[b + 1].pc = "bind"
     /\ stack[b + 2].fn = "dlsym" /\ stack[b + 2].pc = "buffer"

LEMMA Positions ==
  ASSUME IInv, stack # <<>>, NEW n, n = Len(stack), NEW b, b = Client
  PROVE  /\ n \in Nat /\ n >= 1 /\ b \in {1, 2} /\ n <= b + 3
         /\ stack \in Seq(Frame) /\ DOMAIN stack = 1 .. n /\ Top = stack[n]
         /\ Top.fn = "populate_addrs" => n = b + 1
         /\ Top.fn = "dlsym" => n = b + 2
         /\ Top.fn = "dangless_init" => n = 1 /\ b = 2
         /\ Top.fn \in Functions => Placed(n, b)
<1>1. stack \in Seq(Frame)
  BY DEF IInv, BaseInv, Frames
<1>2. n \in Nat /\ n >= 1 /\ DOMAIN stack = 1 .. n /\ Top = stack[n]
  BY <1>1, TopFacts
<1>3. b \in {1, 2} /\ (b = 2 <=> stack[1].fn = "dangless_init")
  BY DEF Client
<1>4. n <= b + 3
  BY DEF IInv, Shape
<1>5. CASE n < b
  <2>1. n = 1 /\ b = 2
    BY <1>2, <1>3, <1>5
  <2> QED BY <2>1, <1>1, <1>2, <1>3 DEF Functions, Placed
<1>6. CASE n = b
  <2>1. Top.fn \in Functions
    <3>1. CASE b = 1
      BY <3>1, <1>2, <1>6 DEF IInv, Shape
    <3>2. CASE b = 2
      BY <3>2, <1>2, <1>6 DEF IInv, Shape, Functions
    <3> QED BY <3>1, <3>2, <1>3
  <2> QED BY <2>1, <1>1, <1>2, <1>3, <1>4, <1>6 DEF Functions, Placed
<1>7. CASE n = b + 1
  <2>1. \/ Populates(b + 1)
        \/ stack[b].pc = "exit" /\ Top.fn = "malloc" /\ Top.api = "sys"
    BY <1>2, <1>7 DEF IInv, Shape
  <2> QED BY <2>1, <1>1, <1>2, <1>3, <1>4, <1>7 DEF Functions, Populates, Placed
<1>8. CASE n = b + 2
  <2>1. Top.fn = "dlsym"
    BY <1>2, <1>3, <1>8 DEF IInv, Shape
  <2> QED BY <2>1, <1>1, <1>2, <1>3, <1>4, <1>8 DEF Functions, Placed
<1>9. CASE n = b + 3
  <2>1. n >= b + 2 /\ n >= b + 3
    BY <1>3, <1>9
  <2>2. /\ Top.fn = "calloc" /\ Top.api = "dangless" /\ ~Top.hooked
        /\ Populates(b + 1) /\ stack[b + 1].pc = "bind"
        /\ stack[b + 2].fn = "dlsym" /\ stack[b + 2].pc = "buffer"
    BY <2>1, <1>2, <1>9 DEF IInv, Shape
  <2> QED BY <2>2, <1>1, <1>2, <1>3, <1>4, <1>9 DEF Functions, Placed
<1> QED BY <1>2, <1>3, <1>4, <1>5, <1>6, <1>7, <1>8, <1>9

\* What the three kinds of step leave of the stack.
LEMMA Moves ==
  ASSUME stack \in Seq(Frame), stack # <<>>, NEW n, n = Len(stack), NEW b, b = Client,
         NEW f \in Frame, f.fn = Top.fn, stack' = Append(Front(stack), f)
  PROVE  /\ stack' # <<>> /\ Len(stack') = n /\ Client' = b /\ Top' = f /\ stack'[n] = f
         /\ DOMAIN stack' = 1 .. n /\ \A i \in 1 .. n - 1 : stack'[i] = stack[i]
         /\ \A i \in DOMAIN stack' : i = n \/ (i \in DOMAIN stack /\ stack'[i] = stack[i])
<1>1. /\ stack' # <<>> /\ Len(stack') = n /\ Top' = f /\ stack'[n] = f
      /\ DOMAIN stack' = 1 .. n /\ \A i \in 1 .. n - 1 : stack'[i] = stack[i]
  BY AfterGoto
<1>2. n \in Nat /\ n >= 1 /\ DOMAIN stack = 1 .. n /\ Top = stack[n]
  BY TopFacts
<1>3. stack'[1].fn = stack[1].fn
  <2>1. n = 1 \/ 1 \in 1 .. n - 1
    BY <1>2
  <2> QED BY <2>1, <1>1, <1>2
<1>4. \A i \in 1 .. n : i = n \/ i \in 1 .. n - 1
  BY <1>2
<1> QED BY <1>1, <1>2, <1>3, <1>4 DEF Client

LEMMA Calls ==
  ASSUME stack \in Seq(Frame), stack # <<>>, NEW n, n = Len(stack), NEW b, b = Client,
         NEW f \in Frame, f.fn = Top.fn, NEW g \in Frame,
         stack' = Append(Append(Front(stack), f), g)
  PROVE  /\ stack' # <<>> /\ Len(stack') = n + 1 /\ Client' = b /\ Top' = g
         /\ stack'[n + 1] = g /\ stack'[n] = f
         /\ DOMAIN stack' = 1 .. n + 1 /\ \A i \in 1 .. n - 1 : stack'[i] = stack[i]
         /\ \A i \in DOMAIN stack' :
              i = n + 1 \/ i = n \/ (i \in DOMAIN stack /\ stack'[i] = stack[i])
<1>1. /\ stack' # <<>> /\ Len(stack') = n + 1 /\ Top' = g /\ stack'[n + 1] = g /\ stack'[n] = f
      /\ DOMAIN stack' = 1 .. n + 1 /\ \A i \in 1 .. n - 1 : stack'[i] = stack[i]
  BY AfterCall
<1>2. n \in Nat /\ n >= 1 /\ DOMAIN stack = 1 .. n /\ Top = stack[n]
  BY TopFacts
<1>3. stack'[1].fn = stack[1].fn
  <2>1. n = 1 \/ 1 \in 1 .. n - 1
    BY <1>2
  <2> QED BY <2>1, <1>1, <1>2
<1>4. \A i \in 1 .. n + 1 : i = n + 1 \/ i = n \/ (i \in 1 .. n - 1 /\ i \in 1 .. n)
  BY <1>2
<1> QED BY <1>1, <1>2, <1>3, <1>4 DEF Client

LEMMA Returns ==
  ASSUME stack \in Seq(Frame), stack # <<>>, NEW n, n = Len(stack), NEW b, b = Client,
         stack' = Front(stack)
  PROVE  /\ Len(stack') = n - 1 /\ DOMAIN stack' = 1 .. n - 1
         /\ \A i \in 1 .. n - 1 : stack'[i] = stack[i]
         /\ \A i \in DOMAIN stack' : i \in DOMAIN stack /\ i < n /\ stack'[i] = stack[i]
         /\ n > 1 => stack' # <<>> /\ Client' = b /\ Top' = stack[n - 1]
         /\ n = 1 => stack' = <<>> /\ Client' = 1
<1>1. /\ Len(stack') = n - 1 /\ DOMAIN stack' = 1 .. n - 1
      /\ \A i \in 1 .. n - 1 : stack'[i] = stack[i]
      /\ n > 1 => stack' # <<>> /\ Top' = stack[n - 1]
      /\ n = 1 => stack' = <<>>
  BY AfterReturn
<1>2. n \in Nat /\ n >= 1 /\ DOMAIN stack = 1 .. n
  BY TopFacts
<1>3. n > 1 => stack'[1].fn = stack[1].fn
  BY <1>1, <1>2
<1>4. n = 1 => Client' = 1
  BY <1>1 DEF Client
<1>5. n > 1 => Client' = b
  BY <1>1, <1>3 DEF Client
<1>6. \A i \in 1 .. n - 1 : i \in 1 .. n /\ i < n
  BY <1>2
<1> QED BY <1>1, <1>2, <1>4, <1>5, <1>6

LEMMA ShapeMoves ==
  ASSUME IInv, stack # <<>>, NEW f \in Frame, f.fn = Top.fn, f.api = Top.api,
         stack' = Append(Front(stack), f), f.hooked => Top.hooked \/ Len(stack) = Client
  PROVE  Shape'
<1>1. PICK n : n = Len(stack)
  OBVIOUS
<1>2. PICK b : b = Client
  OBVIOUS
<1>3. /\ n \in Nat /\ n >= 1 /\ b \in {1, 2} /\ n <= b + 3
      /\ stack \in Seq(Frame) /\ DOMAIN stack = 1 .. n /\ Top = stack[n]
  BY <1>1, <1>2, Positions
<1>4. /\ stack' # <<>> /\ Len(stack') = n /\ Client' = b /\ Top' = f /\ stack'[n] = f
      /\ DOMAIN stack' = 1 .. n /\ \A i \in 1 .. n - 1 : stack'[i] = stack[i]
  BY <1>1, <1>2, <1>3, Moves
<1>5. b = 1 /\ n >= 1 => stack'[1].fn \in Functions /\ stack'[1].api = "dangless"
  <2>1. stack'[1].fn = stack[1].fn /\ stack'[1].api = stack[1].api
    <3>1. n = 1 \/ 1 \in 1 .. n - 1
      BY <1>3
    <3> QED BY <3>1, <1>3, <1>4
  <2> QED BY <2>1, <1>1, <1>2, <1>3 DEF IInv, Shape
<1>6. b = 2 /\ n >= 2 =>
        \/ /\ stack'[1].pc = "dune_enter"
           /\ stack'[2].fn = "malloc" /\ stack'[2].api = "dangless"
        \/ /\ stack'[1].pc = "hooks_init"
           /\ stack'[2].fn = "realloc" /\ stack'[2].api = "sys"
  <2> HAVE b = 2 /\ n >= 2
  <2>1. stack'[2].fn = stack[2].fn /\ stack'[2].api = stack[2].api /\ stack'[1] = stack[1]
    <3>1. (n = 2 \/ 2 \in 1 .. n - 1) /\ 1 \in 1 .. n - 1
      BY <1>3
    <3> QED BY <3>1, <1>3, <1>4
  <2> QED BY <2>1, <1>1, <1>2, <1>3 DEF IInv, Shape
<1>7. n >= b + 1 => /\ stack'[b] = stack[b] /\ stack'[b + 1].fn = stack[b + 1].fn
                    /\ stack'[n].fn = stack[n].fn /\ stack'[n].api = stack[n].api
                    /\ DOMAIN stack' = DOMAIN stack
  BY <1>3, <1>4
<1>8. n >= b + 2 => stack'[b + 1] = stack[b + 1] /\ stack'[b + 2].fn = stack[b + 2].fn
  BY <1>3, <1>4
<1>9. n >= b + 3 => stack'[b + 2] = stack[b + 2] /\ ~stack'[n].hooked
  BY <1>1, <1>2, <1>3, <1>4 DEF IInv, Shape
<1>10. n >= b + 1 => \/ stack'[b].pc = "call" /\ Populates(b + 1)'
                     \/ /\ stack'[b].pc = "exit" /\ n = b + 1
                        /\ stack'[n].fn = "malloc" /\ stack'[n].api = "sys"
  BY <1>1, <1>2, <1>7 DEF IInv, Shape, Populates
<1>11. n >= b + 2 => /\ Populates(b + 1)' /\ stack'[b + 1].pc = "bind"
                     /\ stack'[b + 2].fn = "dlsym"
  BY <1>1, <1>2, <1>3, <1>7, <1>8 DEF IInv, Shape, Populates
<1>12. n >= b + 3 => /\ stack'[b + 2].pc = "buffer"
                     /\ stack'[n].fn = "calloc" /\ stack'[n].api = "dangless"
                     /\ ~stack'[n].hooked
  BY <1>1, <1>2, <1>3, <1>4, <1>9 DEF IInv, Shape
<1> QED BY <1>3, <1>4, <1>5, <1>6, <1>10, <1>11, <1>12 DEF Shape

LEMMA ShapeReturns ==
  ASSUME IInv, stack # <<>>, stack' = Front(stack)
  PROVE  Shape'
<1>1. PICK n : n = Len(stack)
  OBVIOUS
<1>2. PICK b : b = Client
  OBVIOUS
<1>3. /\ n \in Nat /\ n >= 1 /\ b \in {1, 2} /\ n <= b + 3
      /\ stack \in Seq(Frame) /\ DOMAIN stack = 1 .. n /\ Top = stack[n]
  BY <1>1, <1>2, Positions
<1>4. /\ Len(stack') = n - 1 /\ DOMAIN stack' = 1 .. n - 1
      /\ \A i \in 1 .. n - 1 : stack'[i] = stack[i]
      /\ n > 1 => Client' = b
      /\ n = 1 => Client' = 1
  BY <1>1, <1>2, <1>3, Returns
<1>5. CASE n = 1
  BY <1>4, <1>5 DEF Shape
<1>6. CASE n > 1
  <2>1. b = 1 => stack'[1].fn \in Functions /\ stack'[1].api = "dangless"
    BY <1>1, <1>2, <1>3, <1>4, <1>6 DEF IInv, Shape
  <2>2. b = 2 /\ n - 1 >= 2 =>
        \/ /\ stack'[1].pc = "dune_enter"
           /\ stack'[2].fn = "malloc" /\ stack'[2].api = "dangless"
        \/ /\ stack'[1].pc = "hooks_init"
           /\ stack'[2].fn = "realloc" /\ stack'[2].api = "sys"
    <3> HAVE b = 2 /\ n - 1 >= 2
    <3>1. n >= 2 /\ 1 \in 1 .. n - 1 /\ 2 \in 1 .. n - 1
      BY <1>3
    <3> QED BY <3>1, <1>1, <1>2, <1>4 DEF IInv, Shape
  <2>3. n - 1 >= b + 1 => stack'[b].pc = "call" /\ Populates(b + 1)'
    <3> HAVE n - 1 >= b + 1
    <3>1. b \in 1 .. n - 1 /\ b + 1 \in 1 .. n - 1 /\ n >= b + 1 /\ n # b + 1
      BY <1>3
    <3> QED BY <3>1, <1>1, <1>2, <1>4 DEF IInv, Shape, Populates
  <2>4. n - 1 >= b + 2 => /\ Populates(b + 1)' /\ stack'[b + 1].pc = "bind"
                          /\ stack'[b + 2].fn = "dlsym"
    <3> HAVE n - 1 >= b + 2
    <3>1. b + 1 \in 1 .. n - 1 /\ b + 2 \in 1 .. n - 1 /\ n >= b + 2 /\ n - 1 >= b + 1
      BY <1>3
    <3> QED BY <3>1, <2>3, <1>1, <1>2, <1>4 DEF IInv, Shape
  <2> QED BY <2>1, <2>2, <2>3, <2>4, <1>3, <1>4, <1>6 DEF Shape
<1> QED BY <1>3, <1>5, <1>6

LEMMA ShapeCalls ==
  ASSUME IInv, stack # <<>>, NEW n, n = Len(stack), NEW b, b = Client,
         NEW f \in Frame, f.fn = Top.fn, f.api = Top.api, NEW g \in Frame,
         stack' = Append(Append(Front(stack), f), g),
         \/ /\ n < b
            /\ \/ f.pc = "dune_enter" /\ g.fn = "malloc" /\ g.api = "dangless"
               \/ f.pc = "hooks_init" /\ g.fn = "realloc" /\ g.api = "sys"
         \/ n = b /\ f.pc = "call" /\ g.fn = "populate_addrs"
         \/ n = b /\ f.pc = "exit" /\ g.fn = "malloc" /\ g.api = "sys"
         \/ n = b + 1 /\ Top.fn = "populate_addrs" /\ f.pc = "bind" /\ g.fn = "dlsym"
         \/ /\ n = b + 2 /\ f.pc = "buffer"
            /\ g.fn = "calloc" /\ g.api = "dangless" /\ ~g.hooked
  PROVE  Shape'
<1>1. /\ n \in Nat /\ n >= 1 /\ b \in {1, 2} /\ n <= b + 3
      /\ stack \in Seq(Frame) /\ DOMAIN stack = 1 .. n /\ Top = stack[n]
  BY Positions
<1>2. /\ stack' # <<>> /\ Len(stack') = n + 1 /\ Client' = b
      /\ stack'[n + 1] = g /\ stack'[n] = f
      /\ DOMAIN stack' = 1 .. n + 1 /\ \A i \in 1 .. n - 1 : stack'[i] = stack[i]
  BY <1>1, Calls
<1>3. b = 1 => stack'[1].fn \in Functions /\ stack'[1].api = "dangless"
  <2> HAVE b = 1
  <2>1. stack'[1].fn = stack[1].fn /\ stack'[1].api = stack[1].api
    <3>1. n = 1 \/ 1 \in 1 .. n - 1
      BY <1>1
    <3> QED BY <3>1, <1>1, <1>2
  <2> QED BY <2>1, <1>1 DEF IInv, Shape
<1>4. CASE n < b
  <2>1. n = 1 /\ b = 2
    BY <1>1, <1>4
  <2> QED BY <2>1, <1>2, <1>4 DEF Shape
<1>5. CASE n >= b
  <2>1. b = 2 => \/ /\ stack'[1].pc = "dune_enter"
                    /\ stack'[2].fn = "malloc" /\ stack'[2].api = "dangless"
                 \/ /\ stack'[1].pc = "hooks_init"
                    /\ stack'[2].fn = "realloc" /\ stack'[2].api = "sys"
    <3> HAVE b = 2
    <3>1. stack'[2].fn = stack[2].fn /\ stack'[2].api = stack[2].api /\ stack'[1] = stack[1]
      <4>1. (n = 2 \/ 2 \in 1 .. n - 1) /\ 1 \in 1 .. n - 1
        BY <1>1, <1>5
      <4> QED BY <4>1, <1>1, <1>2
    <3> QED BY <3>1, <1>1, <1>5 DEF IInv, Shape
  <2>2. CASE n = b
    <3>1. \/ stack'[b].pc = "call" /\ Populates(b + 1)'
          \/ stack'[b].pc = "exit" /\ stack'[n + 1].fn = "malloc" /\ stack'[n + 1].api = "sys"
      BY <1>1, <1>2, <2>2 DEF Populates
    <3> QED BY <2>1, <2>2, <3>1, <1>1, <1>2, <1>3 DEF Shape
  <2>3. CASE n = b + 1
    <3>1. stack'[b] = stack[b] /\ stack[b].pc = "call"
      BY <1>1, <1>2, <2>3 DEF IInv, Shape
    <3>2. Populates(b + 1)' /\ stack'[b + 1].pc = "bind" /\ stack'[b + 2].fn = "dlsym"
      BY <1>1, <1>2, <2>3 DEF Populates
    <3> QED BY <2>1, <2>3, <3>1, <3>2, <1>1, <1>2, <1>3 DEF Shape
  <2>4. CASE n = b + 2
    <3>1. stack'[b] = stack[b] /\ stack[b].pc = "call"
      BY <1>1, <1>2, <2>4 DEF IInv, Shape
    <3>2. stack'[b + 1] = stack[b + 1] /\ Populates(b + 1) /\ stack[b + 1].pc = "bind"
      BY <1>1, <1>2, <2>4 DEF IInv, Shape
    <3>3. stack'[b + 2].fn = "dlsym"
      BY <1>1, <1>2, <2>4 DEF IInv, Shape
    <3>4. Populates(b + 1)' /\ stack'[b + 1].pc = "bind"
      BY <3>2, <1>1, <1>2, <2>4 DEF Populates
    <3> QED BY <2>1, <2>4, <3>1, <3>3, <3>4, <1>1, <1>2, <1>3 DEF Shape
  <2> QED BY <2>2, <2>3, <2>4, <1>1, <1>5
<1> QED BY <1>1, <1>4, <1>5

-----------------------------------------------------------------------------
(* populate_addrs and dlsym. *)

\* While addresses are looked up nothing is hooked, since Dune is entered later.
LEMMA WhilePopulating ==
  ASSUME IInv, Populates(Client + 1)
  PROVE  /\ ~inDune /\ addr \subseteq Functions
         /\ \A i \in DOMAIN stack : ~stack[i].hooked
         /\ stack # <<>> /\ Len(stack) >= Client + 1
         /\ populating <=> stack[Client + 1].pc # "start"
<1>1. ~inDune /\ addr \subseteq Functions /\ (populating <=> stack[Client + 1].pc # "start")
  BY DEF IInv, Addresses
<1>2. \A i \in DOMAIN stack : ~stack[i].hooked
  BY <1>1 DEF IInv, Entered
<1>3. stack # <<>> /\ Len(stack) >= Client + 1
  <2>1. Client \in {1, 2} /\ stack \in Seq(Frame) /\ Client + 1 \in DOMAIN stack
    BY DEF Client, Populates, IInv, BaseInv, Frames
  <2>2. Len(stack) \in Nat /\ DOMAIN stack = 1 .. Len(stack)
    BY <2>1, LenProperties
  <2> QED BY <2>1, <2>2, EmptySeq
<1> QED BY <1>1, <1>2, <1>3

LEMMA StartPopulatingInv ==
  ASSUME IInv, StartPopulating
  PROVE  IInv'
<1>1. BaseInv'
  BY StartPopulatingBase DEF IInv
<1>2. PICK n : n = Len(stack)
  OBVIOUS
<1>3. PICK b : b = Client
  OBVIOUS
<1>4. /\ aborted = "" /\ stack # <<>> /\ Top \in Frame
      /\ Top.fn = "populate_addrs" /\ Top.pc = "start"
  BY TopAt DEF StartPopulating, IInv
<1>5. /\ n \in Nat /\ n >= 1 /\ b \in {1, 2} /\ n = b + 1
      /\ stack \in Seq(Frame) /\ DOMAIN stack = 1 .. n /\ Top = stack[n]
  BY <1>2, <1>3, <1>4, Positions
<1>6. Populates(b + 1) /\ ~populating
  <2>1. b + 1 \in DOMAIN stack /\ stack[b + 1] = Top
    BY <1>5
  <2> QED BY <2>1, <1>3, <1>4 DEF IInv, Addresses, Populates
<1>7. PICK f : f = [Top EXCEPT !.pc = "lookup"]
  OBVIOUS
<1>8. /\ f \in Frame /\ f.pc = "lookup" /\ f.fn = Top.fn /\ f.api = Top.api /\ f.k = Top.k
      /\ f.p = Top.p /\ f.hooked = Top.hooked
  BY <1>4, <1>7 DEF Frame
<1>9. /\ populating' = TRUE /\ stack' = Append(Front(stack), f)
      /\ UNCHANGED <<ret, addr, storageUsed, dlsymBuffer, inDune, initialized, records, hooks,
                     remapped, aborted>>
  BY <1>6, <1>7 DEF StartPopulating, Goto, initVars
<1>10. /\ stack' # <<>> /\ Len(stack') = n /\ Client' = b /\ Top' = f /\ stack'[n] = f
       /\ DOMAIN stack' = 1 .. n
       /\ \A i \in DOMAIN stack' : i = n \/ (i \in DOMAIN stack /\ stack'[i] = stack[i])
  BY <1>2, <1>3, <1>4, <1>5, <1>8, <1>9, Moves
<1>11. Shape'
  BY <1>4, <1>8, <1>9, ShapeMoves
<1>12. Addresses'
  <2>1. ~inDune /\ addr = {} /\ \A j \in 1 .. f.k - 1 : Symbols[j] \in addr
    BY <1>3, <1>4, <1>5, <1>6, <1>8 DEF IInv, Addresses
  <2>2. Populates(b + 1)' /\ stack'[b + 1] = f
    <3>1. b + 1 \in DOMAIN stack' /\ stack'[b + 1] = f
      BY <1>5, <1>10
    <3> QED BY <3>1, <1>4, <1>8 DEF Populates
  <2>3. \A i \in DOMAIN stack' :
          stack'[i].fn = "malloc" /\ stack'[i].pc \in {"enter", "vremap", "exit"}
            => "malloc" \in addr
    BY <1>4, <1>8, <1>10 DEF IInv, Addresses
  <2> QED BY <2>1, <2>2, <2>3, <1>4, <1>8, <1>9, <1>10 DEF Addresses, Functions, Symbols
<1>13. Entered'
  BY <1>3, <1>5, <1>6, <1>8, <1>9, <1>10 DEF IInv, Entered
<1>14. Storage'
  BY <1>3, <1>5, <1>6, <1>8, <1>9, <1>10 DEF IInv, Storage
<1>15. Others'
  BY <1>9 DEF IInv, Others
<1> QED BY <1>1, <1>11, <1>12, <1>13, <1>14, <1>15 DEF IInv

-----------------------------------------------------------------------------
(* What a step of an allocator, of populate_addrs or of dlsym leaves of the *)
(* rest of the invariant.                                                   *)

LEMMA EnteredMoves ==
  ASSUME IInv, stack # <<>>, Top.fn # "dangless_init", NEW f \in Frame, f.fn = Top.fn,
         stack' = Append(Front(stack), f),
         f.hooked => Top.hooked \/ (inDune /\ hooks), addr = Functions => addr' = Functions,
         UNCHANGED <<inDune, hooks>>, remapped' # {} => hooks
  PROVE  Entered'
<1>1. PICK n : n = Len(stack)
  OBVIOUS
<1>2. PICK b : b = Client
  OBVIOUS
<1>3. /\ n \in Nat /\ n >= 1 /\ b \in {1, 2}
      /\ stack \in Seq(Frame) /\ DOMAIN stack = 1 .. n /\ Top = stack[n]
  BY <1>1, <1>2, Positions
<1>4. /\ Len(stack') = n /\ Client' = b /\ stack'[n] = f /\ DOMAIN stack' = 1 .. n
      /\ \A i \in DOMAIN stack' : i = n \/ (i \in DOMAIN stack /\ stack'[i] = stack[i])
  BY <1>1, <1>2, <1>3, Moves
<1>5. b = 2 => n # 1 /\ stack'[1] = stack[1]
  <2>1. b = 2 => stack[1].fn = "dangless_init"
    BY <1>2 DEF Client
  <2>2. 1 \in DOMAIN stack' /\ (b = 2 => n # 1)
    BY <2>1, <1>3, <1>4
  <2> QED BY <2>2, <1>4
<1>6. (\E i \in DOMAIN stack' : stack'[i].hooked) => inDune /\ hooks
  <2> SUFFICES ASSUME NEW i \in DOMAIN stack', stack'[i].hooked PROVE inDune /\ hooks
    OBVIOUS
  <2>1. CASE i = n
    <3>1. CASE Top.hooked
      BY <3>1, <1>3 DEF IInv, Entered
    <3> QED BY <3>1, <2>1, <1>4
  <2>2. CASE i \in DOMAIN stack /\ stack'[i] = stack[i]
    BY <2>2 DEF IInv, Entered
  <2> QED BY <2>1, <2>2, <1>4
<1> QED BY <1>1, <1>2, <1>3, <1>4, <1>5, <1>6 DEF IInv, Entered

LEMMA EnteredCalls ==
  ASSUME IInv, stack # <<>>, Top.fn # "dangless_init", NEW f \in Frame, f.fn = Top.fn,
         NEW g \in Frame, ~g.hooked, f.hooked = Top.hooked,
         stack' = Append(Append(Front(stack), f), g),
         UNCHANGED <<addr, inDune, hooks>>, remapped' # {} => hooks
  PROVE  Entered'
<1>1. PICK n : n = Len(stack)
  OBVIOUS
<1>2. PICK b : b = Client
  OBVIOUS
<1>3. /\ n \in Nat /\ n >= 1 /\ b \in {1, 2}
      /\ stack \in Seq(Frame) /\ DOMAIN stack = 1 .. n /\ Top = stack[n]
  BY <1>1, <1>2, Positions
<1>4. /\ Len(stack') = n + 1 /\ Client' = b /\ stack'[n + 1] = g /\ stack'[n] = f
      /\ DOMAIN stack' = 1 .. n + 1
      /\ \A i \in DOMAIN stack' :
           i = n + 1 \/ i = n \/ (i \in DOMAIN stack /\ stack'[i] = stack[i])
  BY <1>1, <1>2, <1>3, Calls
<1>5. b = 2 => n # 1 /\ stack'[1] = stack[1]
  <2>1. b = 2 => stack[1].fn = "dangless_init"
    BY <1>2 DEF Client
  <2>2. 1 \in DOMAIN stack' /\ (b = 2 => n # 1) /\ 1 # n + 1
    BY <2>1, <1>3, <1>4
  <2> QED BY <2>2, <1>4
<1>6. (\E i \in DOMAIN stack' : stack'[i].hooked) => inDune /\ hooks
  <2> SUFFICES ASSUME NEW i \in DOMAIN stack', stack'[i].hooked PROVE inDune /\ hooks
    OBVIOUS
  <2>1. CASE i = n
    BY <2>1, <1>3, <1>4 DEF IInv, Entered
  <2>2. CASE i \in DOMAIN stack /\ stack'[i] = stack[i]
    BY <2>2 DEF IInv, Entered
  <2> QED BY <2>1, <2>2, <1>4
<1>7. Len(stack') # 1
  BY <1>3, <1>4
<1> QED BY <1>1, <1>2, <1>3, <1>4, <1>5, <1>6, <1>7 DEF IInv, Entered

LEMMA EnteredReturns ==
  ASSUME IInv, stack # <<>>, Top.fn # "dangless_init", stack' = Front(stack),
         Len(stack) = 2 /\ stack[1].fn = "dangless_init" /\ stack[1].pc = "dune_enter"
           => addr = Functions,
         UNCHANGED <<addr, inDune, hooks, remapped>>
  PROVE  Entered'
<1>1. PICK n : n = Len(stack)
  OBVIOUS
<1>2. PICK b : b = Client
  OBVIOUS
<1>3. /\ n \in Nat /\ n >= 1 /\ b \in {1, 2}
      /\ stack \in Seq(Frame) /\ DOMAIN stack = 1 .. n /\ Top = stack[n]
  BY <1>1, <1>2, Positions
<1>4. /\ Len(stack') = n - 1
      /\ \A i \in DOMAIN stack' : i \in DOMAIN stack /\ stack'[i] = stack[i]
      /\ n > 1 => Client' = b /\ stack'[1] = stack[1]
      /\ n = 1 => Client' = 1
  BY <1>1, <1>2, <1>3, Returns
<1>5. b = 2 => n # 1 /\ stack[1].fn = "dangless_init"
  BY <1>2, <1>3 DEF Client
<1>6. (\E i \in DOMAIN stack' : stack'[i].hooked) => inDune /\ hooks
  BY <1>4 DEF IInv, Entered
<1>7. Len(stack') = 1 => n = 2
  <2>1. PICK m : m = Len(stack') /\ m = n - 1
    BY <1>4
  <2>2. m = 1 => n = 2
    BY <2>1, <1>3
  <2> QED BY <2>1, <2>2
<1>8. Client' = 2 => /\ n > 1 /\ b = 2 /\ stack'[1] = stack[1]
  BY <1>3, <1>4
<1>9. inDune /\ ~hooks => n > 1
  BY <1>2, <1>3, <1>5 DEF IInv, Entered
<1> QED BY <1>1, <1>2, <1>4, <1>5, <1>6, <1>7, <1>8, <1>9 DEF IInv, Entered

LEMMA StorageMoves ==
  ASSUME IInv, stack # <<>>, Top.fn # "dlsym", NEW f \in Frame, f.fn = Top.fn,
         stack' = Append(Front(stack), f), f.p = "special" <=> Top.p = "special",
         UNCHANGED <<ret, storageUsed, dlsymBuffer>>, "special" \notin remapped'
  PROVE  Storage'
<1>1. PICK n : n = Len(stack)
  OBVIOUS
<1>2. PICK b : b = Client
  OBVIOUS
<1>3. /\ n \in Nat /\ n >= 1 /\ b \in {1, 2} /\ n <= b + 3
      /\ stack \in Seq(Frame) /\ DOMAIN stack = 1 .. n /\ Top = stack[n]
  BY <1>1, <1>2, Positions
<1>4. /\ Len(stack') = n /\ Client' = b /\ stack'[n] = f /\ Top' = f /\ DOMAIN stack' = 1 .. n
      /\ \A i \in DOMAIN stack' : i = n \/ (i \in DOMAIN stack /\ stack'[i] = stack[i])
  BY <1>1, <1>2, <1>3, Moves
<1>5. n # b + 2
  <2> SUFFICES ASSUME n = b + 2 PROVE FALSE
    OBVIOUS
  <2>1. n >= b + 2 /\ stack[b + 2] = Top
    BY <1>3
  <2> QED BY <2>1, <1>1, <1>2 DEF IInv, Shape
<1>6. \A i \in DOMAIN stack' : stack'[i].p = "special" => i = b + 3
  <2> SUFFICES ASSUME NEW i \in DOMAIN stack', stack'[i].p = "special" PROVE i = b + 3
    OBVIOUS
  <2>1. CASE i = n
    <3>1. n \in DOMAIN stack
      BY <1>3
    <3> QED BY <3>1, <2>1, <1>2, <1>3, <1>4 DEF IInv, Storage
  <2>2. CASE i \in DOMAIN stack /\ stack'[i] = stack[i]
    BY <2>2, <1>2 DEF IInv, Storage
  <2> QED BY <2>1, <2>2, <1>4
<1>7. n >= b + 2 => stack'[b + 2] = stack[b + 2]
  <2> HAVE n >= b + 2
  <2>1. b + 2 \in DOMAIN stack' /\ b + 2 # n
    BY <1>3, <1>4, <1>5
  <2> QED BY <2>1, <1>4
<1> QED BY <1>1, <1>2, <1>4, <1>5, <1>6, <1>7 DEF IInv, Storage

LEMMA StorageCalls ==
  ASSUME IInv, stack # <<>>, Len(stack) <= Client + 1, NEW f \in Frame, f.fn = Top.fn,
         NEW g \in Frame, g.p # "special", g.pc # "buffer", f.p = "special" => Top.p = "special",
         stack' = Append(Append(Front(stack), f), g),
         UNCHANGED <<ret, storageUsed, dlsymBuffer>>, "special" \notin remapped'
  PROVE  Storage'
<1>1. PICK n : n = Len(stack)
  OBVIOUS
<1>2. PICK b : b = Client
  OBVIOUS
<1>3. /\ n \in Nat /\ n >= 1 /\ b \in {1, 2} /\ n <= b + 1
      /\ stack \in Seq(Frame) /\ DOMAIN stack = 1 .. n /\ Top = stack[n]
  BY <1>1, <1>2, Positions
<1>4. /\ Len(stack') = n + 1 /\ Client' = b /\ stack'[n + 1] = g /\ stack'[n] = f /\ Top' = g
      /\ DOMAIN stack' = 1 .. n + 1
      /\ \A i \in DOMAIN stack' :
           i = n + 1 \/ i = n \/ (i \in DOMAIN stack /\ stack'[i] = stack[i])
  BY <1>1, <1>2, <1>3, Calls
<1>5. \A i \in DOMAIN stack' : stack'[i].p = "special" => i = b + 3
  <2> SUFFICES ASSUME NEW i \in DOMAIN stack', stack'[i].p = "special" PROVE i = b + 3
    OBVIOUS
  <2>1. CASE i = n
    <3>1. n \in DOMAIN stack
      BY <1>3
    <3> QED BY <3>1, <2>1, <1>2, <1>3, <1>4 DEF IInv, Storage
  <2>2. CASE i \in DOMAIN stack /\ stack'[i] = stack[i]
    BY <2>2, <1>2 DEF IInv, Storage
  <2> QED BY <2>1, <2>2, <1>4
<1>6. n + 1 >= b + 2 => stack'[b + 2] = g
  <2> HAVE n + 1 >= b + 2
  <2>1. n + 1 = b + 2
    BY <1>3
  <2> QED BY <2>1, <1>4
<1>7. n # b + 2 /\ n # b + 3 /\ n + 1 # b + 3
  BY <1>3
<1> QED BY <1>1, <1>2, <1>4, <1>5, <1>6, <1>7 DEF IInv, Storage

LEMMA StorageReturns ==
  ASSUME IInv, stack # <<>>, Len(stack) <= Client + 1, stack' = Front(stack),
         ret' \in (Memory \cup {"void"}) \ {"special"},
         UNCHANGED <<storageUsed, dlsymBuffer, remapped>>
  PROVE  Storage'
<1>1. PICK n : n = Len(stack)
  OBVIOUS
<1>2. PICK b : b = Client
  OBVIOUS
<1>3. /\ n \in Nat /\ n >= 1 /\ b \in {1, 2} /\ n <= b + 1
      /\ stack \in Seq(Frame) /\ DOMAIN stack = 1 .. n /\ Top = stack[n]
  BY <1>1, <1>2, Positions
<1>4. /\ Len(stack') = n - 1 /\ DOMAIN stack' = 1 .. n - 1
      /\ \A i \in DOMAIN stack' : i \in DOMAIN stack /\ stack'[i] = stack[i]
      /\ n > 1 => Client' = b
      /\ n = 1 => Client' = 1
  BY <1>1, <1>2, <1>3, Returns
<1>5. \A i \in DOMAIN stack' : stack'[i].p # "special"
  <2> SUFFICES ASSUME NEW i \in DOMAIN stack' PROVE stack'[i].p # "special"
    OBVIOUS
  <2>1. i # b + 3
    BY <1>3, <1>4
  <2> QED BY <2>1, <1>2, <1>4 DEF IInv, Storage
<1>6. Client' \in {1, 2} /\ Len(stack') < Client' + 2 /\ Len(stack') # Client' + 3
  BY <1>3, <1>4
<1>7. n # b + 2 /\ n # b + 3
  BY <1>3
<1>8. storageUsed => dlsymBuffer = "special"
  BY <1>1, <1>2, <1>7 DEF IInv, Storage
<1>9. ~(Len(stack') >= Client' + 2) /\ Len(stack') # Client' + 2
  <2>1. PICK m \in Nat : m = Len(stack') /\ m = n - 1
    <3>1. n - 1 \in Nat
      BY <1>3
    <3> QED BY <3>1, <1>4
  <2>2. PICK c \in {1, 2} : c = Client'
    BY <1>6
  <2>3. m < c + 2
    BY <1>6, <2>1, <2>2
  <2>4. ~(m >= c + 2) /\ m # c + 2
    BY <2>3
  <2> QED BY <2>1, <2>2, <2>4
<1> QED BY <1>5, <1>6, <1>8, <1>9 DEF IInv, Storage

\* A function of the allocator goes on.
LEMMA AddressesMoves ==
  ASSUME IInv, stack # <<>>, Top.fn \in Functions, NEW f \in Frame, f.fn = Top.fn,
         stack' = Append(Front(stack), f), UNCHANGED <<addr, populating, inDune>>,
         f.pc = "call" => f.fn \in addr,
         f.fn = "malloc" /\ f.pc \in {"enter", "vremap", "exit"} => "malloc" \in addr
  PROVE  Addresses'
<1>1. PICK n : n = Len(stack)
  OBVIOUS
<1>2. PICK b : b = Client
  OBVIOUS
<1>3. /\ n \in Nat /\ n >= 1 /\ b \in {1, 2}
      /\ stack \in Seq(Frame) /\ DOMAIN stack = 1 .. n /\ Top = stack[n]
      /\ n = b \/ n = b + 1 \/ n = b + 3
  BY <1>1, <1>2, Positions DEF Placed
<1>4. /\ Len(stack') = n /\ Client' = b /\ stack'[n] = f /\ Top' = f /\ DOMAIN stack' = 1 .. n
      /\ \A i \in DOMAIN stack' : i = n \/ (i \in DOMAIN stack /\ stack'[i] = stack[i])
  BY <1>1, <1>2, <1>3, Moves
<1>5. /\ Populates(b + 1)' <=> Populates(b + 1)
      /\ Populates(b + 1) => stack'[b + 1] = stack[b + 1]
  <2>1. CASE b + 1 = n
    <3>1. ~Populates(b + 1)
      BY <2>1, <1>3 DEF Populates, Functions
    <3>2. ~Populates(b + 1)'
      BY <2>1, <1>4 DEF Populates, Functions
    <3> QED BY <3>1, <3>2
  <2>2. CASE b + 1 # n
    <3>1. b + 1 \in DOMAIN stack' => stack'[b + 1] = stack[b + 1]
      BY <2>2, <1>4
    <3> QED BY <3>1, <1>3, <1>4 DEF Populates
  <2> QED BY <2>1, <2>2
<1>6. \A i \in DOMAIN stack' :
        stack'[i].fn = "malloc" /\ stack'[i].pc \in {"enter", "vremap", "exit"}
          => "malloc" \in addr
  BY <1>4 DEF IInv, Addresses
<1> QED BY <1>2, <1>4, <1>5, <1>6 DEF IInv, Addresses

\* A function of the allocator returns.
LEMMA AddressesReturns ==
  ASSUME IInv, stack # <<>>, Top.fn \in Functions, stack' = Front(stack),
         UNCHANGED <<addr, populating, inDune>>
  PROVE  Addresses'
<1>1. PICK n : n = Len(stack)
  OBVIOUS
<1>2. PICK b : b = Client
  OBVIOUS
<1>3. /\ n \in Nat /\ n >= 1 /\ b \in {1, 2}
      /\ stack \in Seq(Frame) /\ DOMAIN stack = 1 .. n /\ Top = stack[n]
      /\ \/ n = b
         \/ n = b + 1 /\ Top.fn = "malloc" /\ stack[b].pc = "exit"
         \/ n = b + 3 /\ stack[b + 2].fn = "dlsym" /\ Populates(b + 1)
  BY <1>1, <1>2, Positions DEF Placed
<1>4. /\ Len(stack') = n - 1 /\ DOMAIN stack' = 1 .. n - 1
      /\ \A i \in DOMAIN stack' : i \in DOMAIN stack /\ i < n /\ stack'[i] = stack[i]
      /\ n > 1 => stack' # <<>> /\ Client' = b /\ Top' = stack[n - 1]
      /\ n = 1 => stack' = <<>> /\ Client' = 1
  BY <1>1, <1>2, <1>3, Returns
<1>5. \A i \in DOMAIN stack' :
        stack'[i].fn = "malloc" /\ stack'[i].pc \in {"enter", "vremap", "exit"}
          => "malloc" \in addr
  BY <1>4 DEF IInv, Addresses
<1>6. CASE n = b + 3
  <2>1. /\ Client' = b /\ Top'.fn = "dlsym" /\ b + 1 \in DOMAIN stack'
        /\ stack'[b + 1] = stack[b + 1]
    BY <1>3, <1>4, <1>6
  <2>2. Populates(b + 1)' <=> Populates(b + 1)
    BY <2>1, <1>3, <1>6 DEF Populates
  <2> QED BY <2>1, <2>2, <1>2, <1>5 DEF IInv, Addresses, Functions
<1>7. CASE n # b + 3
  <2>1. ~Populates(b + 1)
    BY <1>3, <1>7 DEF Populates
  <2>2. PICK c \in {1, 2} : c = Client'
    BY <1>3, <1>4
  <2>3. ~Populates(c + 1)'
    <3>1. c + 1 \notin DOMAIN stack'
      <4>1. n - 1 < c + 1
        <5>1. CASE n = 1
          BY <5>1
        <5>2. CASE n > 1
          BY <5>2, <1>3, <1>4, <1>7, <2>2
        <5> QED BY <5>1, <5>2, <1>3
      <4> QED BY <4>1, <1>3, <1>4
    <3> QED BY <3>1 DEF Populates
  <2>4. stack' # <<>> /\ Top'.fn \in Functions => Top'.pc # "call"
    <3>1. CASE n = b
      <4>1. n > 1 => Top'.fn = "dangless_init"
        BY <3>1, <1>2, <1>3, <1>4 DEF Client
      <4> QED BY <4>1, <1>3, <1>4 DEF Functions
    <3>2. CASE n = b + 1
      BY <3>2, <1>3, <1>4
    <3> QED BY <3>1, <3>2, <1>3, <1>7
  <2> QED BY <2>1, <2>3, <2>4, <2>2, <1>2, <1>5 DEF IInv, Addresses
<1> QED BY <1>6, <1>7

\* The calls that dangless makes on its own behalf, and dlsym's.
LEMMA NewAllocators ==
  /\ LET g == Allocator("calloc", "dangless")
     IN  /\ g \in Frame /\ g.fn = "calloc" /\ g.api = "dangless" /\ g.pc = "sys"
         /\ g.p = "none" /\ ~g.hooked
  /\ LET g == Allocator("malloc", "dangless")
     IN  /\ g \in Frame /\ g.fn = "malloc" /\ g.api = "dangless" /\ g.pc = "sys"
         /\ g.p = "none" /\ ~g.hooked
  /\ LET g == Allocator("malloc", "sys")
     IN  /\ g \in Frame /\ g.fn = "malloc" /\ g.api = "sys" /\ g.pc = "sys"
         /\ g.p = "none" /\ ~g.hooked
  /\ LET g == Allocator("realloc", "sys")
     IN  /\ g \in Frame /\ g.fn = "realloc" /\ g.api = "sys" /\ g.pc = "sys"
         /\ g.p = "none" /\ ~g.hooked
BY DEF Allocator, NewFrame, Frame, Functions, Memory, SysFirst

-----------------------------------------------------------------------------
(* populate_addrs and the dlsym it calls, step by step. *)

LEMMA NothingMoves ==
  ASSUME IInv, aborted' \in {"", "symbol", "dune"},
         UNCHANGED <<stack, ret, addr, populating, storageUsed, dlsymBuffer, depth, inDune,
                     initialized, records, hooks, remapped>>
  PROVE  IInv'
<1>1. BaseInv'
  BY StackKept DEF IInv
<1>2. Shape'
  BY DEF IInv, Shape, Client, Populates
<1>3. Addresses'
  BY DEF IInv, Addresses, Client, Populates, Top
<1>4. Entered'
  BY DEF IInv, Entered, Client
<1>5. Storage'
  BY DEF IInv, Storage, Client, Top
<1>6. Others'
  BY DEF IInv, Others
<1> QED BY <1>1, <1>2, <1>3, <1>4, <1>5, <1>6 DEF IInv

LEMMA LookUpInv ==
  ASSUME IInv, LookUp
  PROVE  IInv'
<1>1. BaseInv'
  BY LookUpBase DEF IInv
<1>2. PICK n : n = Len(stack)
  OBVIOUS
<1>3. PICK b : b = Client
  OBVIOUS
<1>4. /\ aborted = "" /\ stack # <<>> /\ Top \in Frame /\ FrameOK(Top)
      /\ Top.fn = "populate_addrs" /\ Top.pc = "lookup"
  BY TopAt DEF LookUp, IInv
<1>5. /\ n \in Nat /\ n >= 1 /\ b \in {1, 2} /\ n = b + 1
      /\ stack \in Seq(Frame) /\ DOMAIN stack = 1 .. n /\ Top = stack[n]
  BY <1>2, <1>3, <1>4, Positions
<1>6. /\ b + 1 \in DOMAIN stack /\ stack[b + 1] = Top /\ Populates(b + 1)
      /\ ~inDune /\ addr \subseteq Functions /\ (populating <=> Top.pc # "start")
      /\ \A j \in 1 .. Top.k - 1 : Symbols[j] \in addr
  <2>1. b + 1 \in DOMAIN stack /\ stack[b + 1] = Top
    BY <1>5
  <2> QED BY <2>1, <1>3, <1>4 DEF IInv, Addresses, Populates
<1>7. PICK f : f = [Top EXCEPT !.pc = "bind"]
  OBVIOUS
<1>8. /\ f \in Frame /\ f.pc = "bind" /\ f.fn = Top.fn /\ f.api = Top.api /\ f.k = Top.k
      /\ f.p = Top.p /\ f.hooked = Top.hooked
  BY <1>4, <1>7 DEF Frame
<1>9. PICK g : /\ g = NewFrame("dlsym", "", "start") /\ g.fn = "dlsym" /\ g.p = "none"
               /\ g.pc = "start" /\ ~g.hooked /\ g \in Frame
  BY NewFrames DEF FrameOK
<1>10. /\ stack' = Append(Append(Front(stack), f), g)
       /\ UNCHANGED <<ret, addr, populating, storageUsed, dlsymBuffer, inDune, initialized,
                      records, hooks, remapped, aborted>>
  BY <1>7, <1>9 DEF LookUp, CallFrom, proxyVars, initVars
<1>11. /\ stack' # <<>> /\ Len(stack') = n + 1 /\ Client' = b /\ Top' = g
       /\ stack'[n + 1] = g /\ stack'[n] = f /\ DOMAIN stack' = 1 .. n + 1
       /\ \A i \in DOMAIN stack' :
            i = n + 1 \/ i = n \/ (i \in DOMAIN stack /\ stack'[i] = stack[i])
  <2>1. stack' = Append(Append(Front(stack), f), g) /\ f.fn = Top.fn
    BY <1>8, <1>10
  <2>2. f \in Frame /\ g \in Frame /\ stack # <<>> /\ stack \in Seq(Frame)
    BY <1>4, <1>5, <1>8, <1>9
  <2> QED BY ONLY <2>1, <2>2, <1>2, <1>3, Calls
<1>12. Shape'
  <2>1. n = b + 1 /\ Top.fn = "populate_addrs" /\ f.pc = "bind" /\ g.fn = "dlsym"
    BY <1>4, <1>5, <1>8, <1>9
  <2> QED BY <2>1, <1>2, <1>3, <1>4, <1>8, <1>9, <1>10, ShapeCalls
<1>13. Addresses'
  <2>1. b + 1 \in DOMAIN stack' /\ stack'[b + 1] = f /\ Populates(b + 1)'
    <3>1. b + 1 \in DOMAIN stack' /\ stack'[b + 1] = f
      BY <1>5, <1>11
    <3> QED BY <3>1, <1>4, <1>8 DEF Populates
  <2>2. \A i \in DOMAIN stack' :
          stack'[i].fn = "malloc" /\ stack'[i].pc \in {"enter", "vremap", "exit"}
            => "malloc" \in addr
    BY <1>4, <1>8, <1>9, <1>11 DEF IInv, Addresses
  <2> QED BY <2>1, <2>2, <1>4, <1>6, <1>8, <1>9, <1>10, <1>11 DEF Addresses, Functions, Symbols
<1>14. Entered'
  BY <1>4, <1>8, <1>9, <1>10, EnteredCalls DEF IInv, Entered
<1>15. Storage'
  <2>1. Len(stack) <= Client + 1
    BY <1>2, <1>3, <1>5
  <2> QED BY <2>1, <1>4, <1>8, <1>9, <1>10, StorageCalls DEF IInv, Storage
<1>16. Others'
  BY <1>10 DEF IInv, Others
<1> QED BY <1>1, <1>12, <1>13, <1>14, <1>15, <1>16 DEF IInv

LEMMA BindInv ==
  ASSUME IInv, Bind
  PROVE  IInv'
<1>1. BaseInv'
  BY BindBase DEF IInv
<1>2. PICK n : n = Len(stack)
  OBVIOUS
<1>3. PICK b : b = Client
  OBVIOUS
<1>4. /\ aborted = "" /\ stack # <<>> /\ Top \in Frame /\ FrameOK(Top)
      /\ Top.fn = "populate_addrs" /\ Top.pc = "bind"
  BY TopAt DEF Bind, IInv
<1>5. /\ n \in Nat /\ n >= 1 /\ b \in {1, 2} /\ n = b + 1
      /\ stack \in Seq(Frame) /\ DOMAIN stack = 1 .. n /\ Top = stack[n]
  BY <1>2, <1>3, <1>4, Positions
<1>6. /\ b + 1 \in DOMAIN stack /\ stack[b + 1] = Top /\ Populates(b + 1)
      /\ ~inDune /\ addr \subseteq Functions /\ (populating <=> Top.pc # "start")
      /\ \A j \in 1 .. Top.k - 1 : Symbols[j] \in addr
  <2>1. b + 1 \in DOMAIN stack /\ stack[b + 1] = Top
    BY <1>5
  <2> QED BY <2>1, <1>3, <1>4 DEF IInv, Addresses, Populates
<1>7. CASE Abort("symbol") /\ UNCHANGED addr
  BY <1>7, NothingMoves DEF Bind, Abort, initVars
<1>8. CASE /\ addr' = addr \cup {Symbols[Top.k]}
           /\ Goto([Top EXCEPT !.pc = "lookup", !.k = @ + 1])
           /\ UNCHANGED aborted
  <2>1. Top.k \in 1 .. 5 /\ Symbols[Top.k] \in Functions
    <3>1. PICK k \in 1 .. 6 : k = Top.k /\ k <= 5
      BY <1>4 DEF FrameOK, Frame
    <3>2. k \in 1 .. 5
      BY <3>1
    <3>3. \A j \in 1 .. 5 : Symbols[j] \in Functions
      BY DEF Symbols, Functions
    <3> QED BY <3>1, <3>2, <3>3
  <2>2. PICK f : f = [Top EXCEPT !.pc = "lookup", !.k = @ + 1]
    OBVIOUS
  <2>3. /\ f \in Frame /\ f.pc = "lookup" /\ f.fn = Top.fn /\ f.api = Top.api /\ f.k = Top.k + 1
        /\ f.p = Top.p /\ f.hooked = Top.hooked
    <3>1. Top.k <= 5
      BY <2>1
    <3> QED BY ONLY <3>1, <1>4, <2>2, NextLookup
  <2>4. /\ stack' = Append(Front(stack), f) /\ addr' = addr \cup {Symbols[Top.k]}
        /\ UNCHANGED <<ret, populating, storageUsed, dlsymBuffer, inDune, initialized, records,
                       hooks, remapped, aborted>>
    BY <1>8, <2>2 DEF Bind, Goto, initVars
  <2>5. /\ stack' # <<>> /\ Len(stack') = n /\ Client' = b /\ Top' = f /\ stack'[n] = f
       /\ DOMAIN stack' = 1 .. n
       /\ \A i \in DOMAIN stack' : i = n \/ (i \in DOMAIN stack /\ stack'[i] = stack[i])
    BY <1>2, <1>3, <1>4, <1>5, <2>3, <2>4, Moves
  <2>6. Shape'
    BY <1>4, <2>3, <2>4, ShapeMoves
  <2>7. Addresses'
    <3>1. b + 1 \in DOMAIN stack' /\ stack'[b + 1] = f /\ Populates(b + 1)'
      <4>1. b + 1 \in DOMAIN stack' /\ stack'[b + 1] = f
        BY <1>5, <2>5
      <4> QED BY <4>1, <1>4, <2>3 DEF Populates
    <3>2. \A j \in 1 .. f.k - 1 : Symbols[j] \in addr'
      <4>1. \A j \in 1 .. f.k - 1 : j = Top.k \/ j \in 1 .. Top.k - 1
        BY <2>1, <2>3
      <4> QED BY <4>1, <1>6, <2>4
    <3>3. \A i \in DOMAIN stack' :
            stack'[i].fn = "malloc" /\ stack'[i].pc \in {"enter", "vremap", "exit"}
              => "malloc" \in addr'
      BY <1>4, <2>3, <2>4, <2>5 DEF IInv, Addresses
    <3>4. addr' \subseteq Functions
      BY <1>6, <2>1, <2>4
    <3> QED BY <3>1, <3>2, <3>3, <3>4, <1>4, <1>6, <2>3, <2>4, <2>5 DEF Addresses, Functions
  <2>8. Entered'
    <3>1. addr = Functions => addr' = Functions
      BY <2>1, <2>4
    <3> QED BY <3>1, <1>4, <2>3, <2>4, EnteredMoves DEF IInv, Entered
  <2>9. Storage'
    BY <1>4, <2>3, <2>4, StorageMoves DEF IInv, Storage
  <2>10. Others'
    BY <2>4 DEF IInv, Others
  <2> QED BY <1>1, <2>6, <2>7, <2>8, <2>9, <2>10 DEF IInv
<1> QED BY <1>7, <1>8 DEF Bind

LEMMA DonePopulatingInv ==
  ASSUME IInv, DonePopulating
  PROVE  IInv'
<1>1. BaseInv'
  BY ReturnsBase DEF IInv
<1>2. PICK n : n = Len(stack)
  OBVIOUS
<1>3. PICK b : b = Client
  OBVIOUS
<1>4. /\ aborted = "" /\ stack # <<>> /\ Top \in Frame /\ FrameOK(Top)
      /\ Top.fn = "populate_addrs" /\ Top.pc = "lookup" /\ Top.k > 5
  BY TopAt DEF DonePopulating, IInv, Symbols
<1>5. /\ n \in Nat /\ n >= 1 /\ b \in {1, 2} /\ n = b + 1
      /\ stack \in Seq(Frame) /\ DOMAIN stack = 1 .. n /\ Top = stack[n]
  BY <1>2, <1>3, <1>4, Positions
<1>6. /\ b + 1 \in DOMAIN stack /\ stack[b + 1] = Top /\ Populates(b + 1)
      /\ ~inDune /\ addr \subseteq Functions /\ (populating <=> Top.pc # "start")
      /\ \A j \in 1 .. Top.k - 1 : Symbols[j] \in addr
  <2>1. b + 1 \in DOMAIN stack /\ stack[b + 1] = Top
    BY <1>5
  <2> QED BY <2>1, <1>3, <1>4 DEF IInv, Addresses, Populates
<1>7. addr = Functions
  <2>1. \A j \in 1 .. 5 : Symbols[j] \in addr
    <3>1. PICK k \in 1 .. 6 : k = Top.k /\ k > 5
      BY <1>4 DEF Frame
    <3>2. \A j \in 1 .. 5 : j \in 1 .. k - 1
      BY <3>1
    <3> QED BY <3>1, <3>2, <1>6
  <2>2. \A x \in Functions : \E j \in 1 .. 5 : Symbols[j] = x
    BY DEF Symbols, Functions
  <2> QED BY <2>1, <2>2, <1>6
<1>8. /\ stack' = Front(stack) /\ ret' = "void" /\ populating' = FALSE
      /\ UNCHANGED <<addr, storageUsed, dlsymBuffer, inDune, initialized, records, hooks,
                     remapped, aborted>>
  BY DEF DonePopulating, Return, initVars
<1>9. /\ Len(stack') = n - 1 /\ DOMAIN stack' = 1 .. n - 1
      /\ \A i \in 1 .. n - 1 : stack'[i] = stack[i]
      /\ \A i \in DOMAIN stack' : i \in DOMAIN stack /\ i < n /\ stack'[i] = stack[i]
      /\ n > 1 => stack' # <<>> /\ Client' = b /\ Top' = stack[n - 1]
      /\ n = 1 => stack' = <<>> /\ Client' = 1
  BY <1>2, <1>3, <1>4, <1>5, <1>8, Returns
<1>10. /\ stack' # <<>> /\ Client' = b /\ DOMAIN stack' = 1 .. b /\ b + 1 \notin DOMAIN stack'
  BY <1>5, <1>9
<1>11. Shape'
  BY <1>4, <1>8, ShapeReturns
<1>12. Addresses'
  <2>1. ~Populates(b + 1)'
    BY <1>10 DEF Populates
  <2> QED BY <2>1, <1>7, <1>8, <1>10 DEF Addresses, Functions
<1>13. Entered'
  BY <1>4, <1>7, <1>8, EnteredReturns
<1>14. Storage'
  <2>1. Len(stack) <= Client + 1
    BY <1>2, <1>3, <1>5
  <2>2. "void" \in (Memory \cup {"void"}) \ {"special"}
    BY DEF Memory
  <2> QED BY <2>1, <2>2, <1>4, <1>8, StorageReturns
<1>15. Others'
  BY <1>8 DEF IInv, Others
<1> QED BY <1>1, <1>11, <1>12, <1>13, <1>14, <1>15 DEF IInv

LEMMA DlsymAllocatesInv ==
  ASSUME IInv, DlsymAllocates
  PROVE  IInv'
<1>1. BaseInv'
  BY DlsymAllocatesBase DEF IInv
<1>2. PICK n : n = Len(stack)
  OBVIOUS
<1>3. PICK b : b = Client
  OBVIOUS
<1>4. /\ aborted = "" /\ stack # <<>> /\ Top \in Frame /\ FrameOK(Top)
      /\ Top.fn = "dlsym" /\ Top.pc = "start" /\ dlsymBuffer = "none"
  BY TopAt DEF DlsymAllocates, IInv
<1>5. /\ n \in Nat /\ n >= 1 /\ b \in {1, 2} /\ n = b + 2
      /\ stack \in Seq(Frame) /\ DOMAIN stack = 1 .. n /\ Top = stack[n]
  BY <1>2, <1>3, <1>4, Positions
<1>6. /\ b + 1 \in DOMAIN stack /\ Populates(b + 1) /\ stack[b + 1].pc = "bind"
      /\ b + 1 # n /\ stack[b + 1].fn = "populate_addrs"
      /\ b + 2 = n
  <2>1. b + 1 \in DOMAIN stack /\ n >= b + 2 /\ b + 1 # n /\ b + 2 = n
    BY <1>5
  <2> QED BY <2>1, <1>2, <1>3 DEF IInv, Shape, Populates
<1>7. PICK f : f = [Top EXCEPT !.pc = "buffer"]
  OBVIOUS
<1>8. /\ f \in Frame /\ f.pc = "buffer" /\ f.fn = Top.fn /\ f.api = Top.api
      /\ f.p = Top.p /\ f.hooked = Top.hooked
  BY <1>4, <1>7 DEF Frame
<1>9. PICK g : /\ g = Allocator("calloc", "dangless") /\ g.fn = "calloc" /\ g.api = "dangless"
               /\ g.p = "none" /\ g.pc = "sys" /\ ~g.hooked /\ g \in Frame
  BY NewAllocators
<1>10. /\ stack' = Append(Append(Front(stack), f), g)
       /\ UNCHANGED <<ret, addr, populating, storageUsed, dlsymBuffer, inDune, initialized,
                      records, hooks, remapped, aborted>>
  BY <1>7, <1>9 DEF DlsymAllocates, CallFrom, proxyVars, initVars
<1>11. /\ stack' # <<>> /\ Len(stack') = n + 1 /\ Client' = b /\ Top' = g
       /\ stack'[n + 1] = g /\ stack'[n] = f /\ DOMAIN stack' = 1 .. n + 1
       /\ \A i \in DOMAIN stack' :
            i = n + 1 \/ i = n \/ (i \in DOMAIN stack /\ stack'[i] = stack[i])
  <2>1. stack' = Append(Append(Front(stack), f), g) /\ f.fn = Top.fn
    BY <1>8, <1>10
  <2>2. f \in Frame /\ g \in Frame /\ stack # <<>> /\ stack \in Seq(Frame)
    BY <1>4, <1>5, <1>8, <1>9
  <2> QED BY ONLY <2>1, <2>2, <1>2, <1>3, Calls
<1>12. Shape'
  <2>1. n = b + 2 /\ f.pc = "buffer" /\ g.fn = "calloc" /\ g.api = "dangless" /\ ~g.hooked
    BY <1>5, <1>8, <1>9
  <2> QED BY <2>1, <1>2, <1>3, <1>4, <1>8, <1>9, <1>10, ShapeCalls
<1>13. Addresses'
  <2>1. b + 1 \in DOMAIN stack' /\ stack'[b + 1] = stack[b + 1] /\ Populates(b + 1)'
    <3>1. b + 1 \in DOMAIN stack' /\ b + 1 # n + 1
      BY <1>5, <1>11
    <3> QED BY <3>1, <1>6, <1>11 DEF Populates
  <2>2. \A i \in DOMAIN stack' :
          stack'[i].fn = "malloc" /\ stack'[i].pc \in {"enter", "vremap", "exit"}
            => "malloc" \in addr
    BY <1>4, <1>8, <1>9, <1>11 DEF IInv, Addresses
  <2> QED BY <2>1, <2>2, <1>3, <1>6, <1>9, <1>10, <1>11 DEF IInv, Addresses
<1>14. Entered'
  BY <1>4, <1>8, <1>9, <1>10, EnteredCalls DEF IInv, Entered
<1>15. Storage'
  <2>1. n # b + 3 /\ n + 1 = b + 3 /\ n + 1 # b + 2
    BY <1>5
  <2>2. ~storageUsed /\ ret # "special"
    BY <2>1, <1>2, <1>3, <1>4 DEF IInv, Storage
  <2>3. \A i \in DOMAIN stack' : stack'[i].p = "special" => i = b + 3
    <3>1. n \in DOMAIN stack
      BY <1>5
    <3> QED BY <3>1, <1>3, <1>5, <1>8, <1>9, <1>11 DEF IInv, Storage
  <2> QED BY <2>1, <2>2, <2>3, <1>4, <1>10, <1>11 DEF IInv, Storage
<1>16. Others'
  BY <1>10 DEF IInv, Others
<1> QED BY <1>1, <1>12, <1>13, <1>14, <1>15, <1>16 DEF IInv

LEMMA DlsymReturnsInv ==
  ASSUME IInv, DlsymReturns
  PROVE  IInv'
<1>1. BaseInv'
  BY ReturnsBase DEF IInv
<1>2. PICK n : n = Len(stack)
  OBVIOUS
<1>3. PICK b : b = Client
  OBVIOUS
<1>4. /\ aborted = "" /\ stack # <<>> /\ Top \in Frame /\ FrameOK(Top)
      /\ Top.fn = "dlsym"
  BY TopAt DEF DlsymReturns, IInv
<1>5. /\ n \in Nat /\ n >= 1 /\ b \in {1, 2} /\ n = b + 2
      /\ stack \in Seq(Frame) /\ DOMAIN stack = 1 .. n /\ Top = stack[n]
  BY <1>2, <1>3, <1>4, Positions
<1>6. /\ b + 1 \in DOMAIN stack /\ Populates(b + 1) /\ stack[b + 1].pc = "bind"
      /\ b + 1 # n /\ stack[b + 1].fn = "populate_addrs"
      /\ b + 2 = n
  <2>1. b + 1 \in DOMAIN stack /\ n >= b + 2 /\ b + 1 # n /\ b + 2 = n
    BY <1>5
  <2> QED BY <2>1, <1>2, <1>3 DEF IInv, Shape, Populates
<1>7. /\ stack' = Front(stack) /\ ret' = "void"
      /\ \/ Top.pc = "start" /\ UNCHANGED dlsymBuffer
         \/ Top.pc = "buffer" /\ dlsymBuffer' = ret
      /\ UNCHANGED <<addr, populating, storageUsed, inDune, initialized, records, hooks,
                     remapped, aborted>>
  BY DEF DlsymReturns, Return, At, initVars
<1>8. /\ Len(stack') = n - 1 /\ DOMAIN stack' = 1 .. n - 1
      /\ \A i \in 1 .. n - 1 : stack'[i] = stack[i]
      /\ \A i \in DOMAIN stack' : i \in DOMAIN stack /\ i < n /\ stack'[i] = stack[i]
      /\ n > 1 => stack' # <<>> /\ Client' = b /\ Top' = stack[n - 1]
      /\ n = 1 => stack' = <<>> /\ Client' = 1
  BY <1>2, <1>3, <1>4, <1>5, <1>7, Returns
<1>9. /\ stack' # <<>> /\ Client' = b /\ Len(stack') = b + 1 /\ Top' = stack[b + 1]
      /\ b + 1 \in DOMAIN stack' /\ stack'[b + 1] = stack[b + 1]
  BY <1>5, <1>8
<1>10. Shape'
  BY <1>4, <1>7, ShapeReturns
<1>11. Addresses'
  <2>1. Populates(b + 1)'
    BY <1>6, <1>9 DEF Populates
  <2>2. \A i \in DOMAIN stack' :
          stack'[i].fn = "malloc" /\ stack'[i].pc \in {"enter", "vremap", "exit"}
            => "malloc" \in addr
    BY <1>8 DEF IInv, Addresses
  <2> QED BY <2>1, <2>2, <1>3, <1>6, <1>7, <1>9 DEF IInv, Addresses, Functions
<1>12. Entered'
  <2>1. Len(stack) # 2
    BY <1>2, <1>5
  <2> QED BY <2>1, <1>4, <1>7, EnteredReturns
<1>13. Storage'
  <2>1. n # b + 3 /\ n >= b + 2 /\ stack[b + 2] = Top
    BY <1>5
  <2>2. dlsymBuffer' \in Memory /\ (storageUsed => dlsymBuffer' = "special")
    <3>1. CASE Top.pc = "start" /\ UNCHANGED dlsymBuffer
      BY <3>1, <2>1, <1>2, <1>3 DEF IInv, Storage
    <3>2. CASE Top.pc = "buffer" /\ dlsymBuffer' = ret
      BY <3>2, <2>1, <1>2, <1>3, <1>5 DEF IInv, Storage
    <3> QED BY <3>1, <3>2, <1>7
  <2>3. \A i \in DOMAIN stack' : stack'[i].p = "special" => i = b + 3
    BY <1>3, <1>8 DEF IInv, Storage
  <2>4. ~(b + 1 >= b + 2) /\ b + 1 # b + 2
    BY <1>5
  <2> QED BY <2>2, <2>3, <2>4, <1>7, <1>9 DEF IInv, Storage
<1>14. Others'
  BY <1>7 DEF IInv, Others
<1> QED BY <1>1, <1>10, <1>11, <1>12, <1>13, <1>14 DEF IInv

-----------------------------------------------------------------------------
(* The proxy of the system allocator. *)

\* A function of the allocator whose code is in none of the other frames.
LEMMA NotElsewhere ==
  ASSUME NEW fn \in Functions
  PROVE  fn # "dangless_init" /\ fn # "dlsym" /\ fn # "populate_addrs"
BY DEF Functions

LEMMA ProxyInv ==
  ASSUME IInv, Proxy
  PROVE  IInv'
<1>1. BaseInv'
  BY ProxyBase DEF IInv
<1>2. PICK n : n = Len(stack)
  OBVIOUS
<1>3. PICK b : b = Client
  OBVIOUS
<1>4. /\ aborted = "" /\ stack # <<>> /\ Top \in Frame /\ FrameOK(Top)
      /\ Top.fn \in Functions /\ Top.pc = "sys"
  BY TopInAllocator DEF Proxy, IInv
<1>5. /\ n \in Nat /\ n >= 1 /\ b \in {1, 2} /\ n <= b + 3
      /\ stack \in Seq(Frame) /\ DOMAIN stack = 1 .. n /\ Top = stack[n]
  BY <1>2, <1>3, <1>4, Positions
<1>6. \/ n = b
      \/ n = b + 1 /\ Top.fn = "malloc" /\ Top.api = "sys" /\ stack[b].pc = "exit"
      \/ /\ n = b + 3 /\ Top.fn = "calloc" /\ Top.api = "dangless" /\ ~Top.hooked
         /\ Populates(b + 1) /\ stack[b + 1].pc = "bind"
         /\ stack[b + 2].fn = "dlsym" /\ stack[b + 2].pc = "buffer"
  <2>1. Placed(n, b)
    BY <1>2, <1>3, <1>4, Positions
  <2> QED BY <2>1 DEF Placed
<1>7. PICK f : f = [Top EXCEPT !.pc = "call"]
  OBVIOUS
<1>8. /\ f \in Frame /\ f.pc = "call" /\ f.fn = Top.fn /\ f.api = Top.api
      /\ f.p = Top.p /\ f.hooked = Top.hooked
  BY <1>4, <1>7 DEF Frame
<1>9. /\ Top.fn # "dangless_init" /\ Top.fn # "dlsym" /\ "special" \notin remapped
      /\ remapped # {} => hooks
  BY <1>4, NotElsewhere DEF IInv, Storage, Entered
<1>10. UNCHANGED <<ret, addr, populating, storageUsed, dlsymBuffer, inDune, initialized, records,
                  hooks, remapped, aborted>>
  BY DEF Proxy, CallFrom, Goto, proxyVars, initVars
<1>11. CASE Top.fn \in addr
  <2>1. stack' = Append(Front(stack), f)
    BY <1>7, <1>11 DEF Proxy, Goto
  <2>2. Shape'
    BY <1>4, <1>8, <2>1, ShapeMoves
  <2>3. Addresses'
    BY <1>4, <1>8, <1>10, <1>11, <2>1, AddressesMoves
  <2>4. Entered'
    BY <1>4, <1>8, <1>9, <1>10, <2>1, EnteredMoves
  <2>5. Storage'
    BY <1>4, <1>8, <1>9, <1>10, <2>1, StorageMoves
  <2>6. Others'
    BY <1>10 DEF IInv, Others
  <2> QED BY <1>1, <2>2, <2>3, <2>4, <2>5, <2>6 DEF IInv
<1>12. CASE Top.fn \notin addr
  <2>1. addr # Functions /\ ~inDune
    BY <1>4, <1>12 DEF IInv, Entered
  <2>2. n = b
    <3>1. ~(n = b + 1 /\ stack[b].pc = "exit")
      <4> SUFFICES ASSUME n = b + 1, stack[b].pc = "exit" PROVE FALSE
        OBVIOUS
      <4>1. b \in DOMAIN stack
        BY <1>5
      <4>2. FrameOK(stack[b])
        BY <4>1 DEF IInv, BaseInv, Frames
      <4>3. stack[b].hooked
        BY <4>2 DEF FrameOK, Frame, Functions
      <4> QED BY <4>1, <4>3, <2>1 DEF IInv, Entered
    <3>2. ~(n = b + 3 /\ Top.fn = "calloc" /\ Populates(b + 1) /\ stack[b + 1].pc = "bind")
      <4> SUFFICES ASSUME Top.fn = "calloc", Populates(b + 1), stack[b + 1].pc = "bind" PROVE FALSE
        OBVIOUS
      <4>1. populating
        BY <1>3 DEF IInv, Addresses
      <4> QED BY <4>1, <1>12 DEF Proxy, NeedsSpecial
    <3> QED BY <3>1, <3>2, <1>6
  <2>3. ~Populates(b + 1) /\ ~populating /\ addr = {}
    <3>1. b + 1 \notin DOMAIN stack
      BY <2>2, <1>5
    <3> QED BY <3>1, <2>1, <1>3 DEF IInv, Addresses, Populates
  <2>4. PICK g : /\ g = NewFrame("populate_addrs", "", "start") /\ g.fn = "populate_addrs"
                 /\ g.p = "none" /\ g.pc = "start" /\ g.k = 1 /\ ~g.hooked /\ g \in Frame
    BY NewFrames DEF FrameOK
  <2>5. stack' = Append(Append(Front(stack), f), g)
    BY <1>7, <1>12, <2>4 DEF Proxy, CallFrom
  <2>6. /\ stack' # <<>> /\ Len(stack') = n + 1 /\ Client' = b /\ Top' = g
        /\ stack'[n + 1] = g /\ stack'[n] = f /\ DOMAIN stack' = 1 .. n + 1
        /\ \A i \in DOMAIN stack' :
             i = n + 1 \/ i = n \/ (i \in DOMAIN stack /\ stack'[i] = stack[i])
    <3>1. f.fn = Top.fn /\ f \in Frame /\ g \in Frame /\ stack # <<>> /\ stack \in Seq(Frame)
      BY <1>4, <1>5, <1>8, <2>4
    <3> QED BY ONLY <3>1, <2>5, <1>2, <1>3, Calls
  <2>7. Shape'
    BY <1>2, <1>3, <1>4, <1>8, <2>2, <2>4, <2>5, ShapeCalls
  <2>8. Addresses'
    <3>1. b + 1 \in DOMAIN stack' /\ stack'[b + 1] = g /\ Populates(b + 1)'
      <4>1. b + 1 \in DOMAIN stack' /\ stack'[b + 1] = g
        BY <1>5, <2>2, <2>6
      <4> QED BY <4>1, <2>4 DEF Populates
    <3>2. \A i \in DOMAIN stack' :
            ~(stack'[i].fn = "malloc" /\ stack'[i].pc \in {"enter", "vremap", "exit"})
      <4>1. \A i \in DOMAIN stack :
              ~(stack[i].fn = "malloc" /\ stack[i].pc \in {"enter", "vremap", "exit"})
        BY <2>3 DEF IInv, Addresses
      <4> QED BY <4>1, <1>8, <2>4, <2>6
    <3>3. \A j \in 1 .. g.k - 1 : FALSE
      <4>1. g.k = 1
        BY <2>4, Zenon
      <4>2. \A j \in 1 .. 1 - 1 : FALSE
        OBVIOUS
      <4> QED BY <4>1, <4>2, Zenon
    <3> QED BY <3>1, <3>2, <3>3, <1>10, <2>1, <2>3, <2>4, <2>6 DEF Addresses, Functions
  <2>9. Entered'
    BY <1>4, <1>8, <1>9, <1>10, <2>4, <2>5, EnteredCalls
  <2>10. Storage'
    <3>1. Len(stack) <= Client + 1
      BY <1>2, <1>3, <1>5, <2>2
    <3> QED BY <3>1, <1>4, <1>8, <1>9, <1>10, <2>4, <2>5, StorageCalls
  <2>11. Others'
    BY <1>10 DEF IInv, Others
  <2> QED BY <1>1, <2>7, <2>8, <2>9, <2>10, <2>11 DEF IInv
<1> QED BY <1>11, <1>12

LEMMA SpecialInv ==
  ASSUME IInv, Special
  PROVE  IInv'
<1>1. BaseInv'
  BY MemoryBase DEF IInv
<1>2. PICK n : n = Len(stack)
  OBVIOUS
<1>3. PICK b : b = Client
  OBVIOUS
<1>4. /\ aborted = "" /\ stack # <<>> /\ Top \in Frame /\ FrameOK(Top)
      /\ Top.fn \in Functions /\ Top.pc = "sys" /\ NeedsSpecial
  BY TopInAllocator DEF Special, IInv
<1>5. /\ n \in Nat /\ n >= 1 /\ b \in {1, 2} /\ n <= b + 3
      /\ stack \in Seq(Frame) /\ DOMAIN stack = 1 .. n /\ Top = stack[n]
  BY <1>2, <1>3, <1>4, Positions
<1>6. \/ n = b
      \/ n = b + 1 /\ Top.fn = "malloc" /\ Top.api = "sys" /\ stack[b].pc = "exit"
      \/ /\ n = b + 3 /\ Top.fn = "calloc" /\ Top.api = "dangless" /\ ~Top.hooked
         /\ Populates(b + 1) /\ stack[b + 1].pc = "bind"
         /\ stack[b + 2].fn = "dlsym" /\ stack[b + 2].pc = "buffer"
  <2>1. Placed(n, b)
    BY <1>2, <1>3, <1>4, Positions
  <2> QED BY <2>1 DEF Placed
<1>7. n = b + 3 /\ Top.fn = "calloc" /\ Top.api = "dangless" /\ Top.p = "none" /\ ~Top.hooked
  <2>1. Top.fn = "calloc" /\ Populates(b + 1)
    BY <1>3, <1>4 DEF NeedsSpecial, IInv, Addresses
  <2>2. n # b
    <3>1. b + 1 \in DOMAIN stack
      BY <2>1 DEF Populates
    <3> QED BY <3>1, <1>5
  <2>3. Top.p = "none"
    BY <1>4 DEF FrameOK
  <2> QED BY <2>1, <2>2, <2>3, <1>6
<1>8. ~storageUsed /\ dlsymBuffer = "none" /\ ret # "special"
  <2>1. n >= b + 2 /\ stack[b + 2].pc = "buffer" /\ n # b + 2
    BY <1>5, <1>6, <1>7
  <2> QED BY <2>1, <1>2, <1>3, <1>7 DEF IInv, Storage
<1>9. storageUsed' = TRUE /\ HasMemory("special") /\ UNCHANGED aborted
  <2>1. ~(SpecialSize < DlsymSize)
    BY SpecialAssumption
  <2> QED BY <2>1, <1>8 DEF Special
<1>10. Goto([Top EXCEPT !.p = "special", !.pc = "enter"])
  BY <1>7, <1>9 DEF HasMemory, ReturnsAtOnce, SysFirst
<1>11. PICK f : f = [Top EXCEPT !.p = "special", !.pc = "enter"]
  OBVIOUS
<1>12. /\ f \in Frame /\ f.pc = "enter" /\ f.fn = Top.fn /\ f.api = Top.api
       /\ f.p = "special" /\ f.hooked = Top.hooked
  BY <1>4, <1>11 DEF Frame, Memory
<1>13. /\ stack' = Append(Front(stack), f)
       /\ UNCHANGED <<ret, addr, populating, dlsymBuffer, inDune, initialized, records,
                      hooks, remapped, aborted>>
  BY <1>9, <1>10, <1>11 DEF Special, Goto, initVars
<1>14. /\ stack' # <<>> /\ Len(stack') = n /\ Client' = b /\ Top' = f /\ stack'[n] = f
       /\ DOMAIN stack' = 1 .. n
       /\ \A i \in DOMAIN stack' : i = n \/ (i \in DOMAIN stack /\ stack'[i] = stack[i])
  BY <1>2, <1>3, <1>4, <1>5, <1>12, <1>13, Moves
<1>15. Shape'
  BY <1>4, <1>12, <1>13, ShapeMoves
<1>16. Addresses'
  BY <1>4, <1>7, <1>12, <1>13, AddressesMoves
<1>17. Entered'
  BY <1>4, <1>7, <1>12, <1>13, EnteredMoves DEF IInv, Entered
<1>18. Storage'
  <2>1. \A i \in DOMAIN stack' : stack'[i].p = "special" => i = b + 3
    BY <1>3, <1>7, <1>14 DEF IInv, Storage
  <2>2. n = b + 3 /\ n # b + 2
    BY <1>5, <1>7
  <2> QED BY <2>1, <2>2, <1>8, <1>9, <1>12, <1>13, <1>14 DEF IInv, Storage
<1>19. Others'
  BY <1>9, <1>13 DEF IInv, Others
<1> QED BY <1>1, <1>15, <1>16, <1>17, <1>18, <1>19 DEF IInv

\* A function that has its memory goes on or returns.
LEMMA HasMemoryInv ==
  ASSUME IInv, CallSystem, NEW p \in Memory \ {"special"}, HasMemory(p), Top.fn \in addr,
         UNCHANGED <<addr, populating, storageUsed, dlsymBuffer, inDune, initialized, records,
                     hooks, remapped, aborted>>
  PROVE  IInv'
<1>1. BaseInv'
  BY MemoryBase DEF IInv
<1>2. PICK n : n = Len(stack)
  OBVIOUS
<1>3. PICK b : b = Client
  OBVIOUS
<1>4. /\ aborted = "" /\ stack # <<>> /\ Top \in Frame /\ FrameOK(Top)
      /\ Top.fn \in Functions /\ Top.pc = "call"
  BY TopInAllocator DEF CallSystem, IInv
<1>5. /\ n \in Nat /\ n >= 1 /\ b \in {1, 2} /\ n <= b + 3
      /\ stack \in Seq(Frame) /\ DOMAIN stack = 1 .. n /\ Top = stack[n]
  BY <1>2, <1>3, <1>4, Positions
<1>6. \/ n = b
      \/ n = b + 1 /\ Top.fn = "malloc" /\ Top.api = "sys" /\ stack[b].pc = "exit"
      \/ /\ n = b + 3 /\ Top.fn = "calloc" /\ Top.api = "dangless" /\ ~Top.hooked
         /\ Populates(b + 1) /\ stack[b + 1].pc = "bind"
         /\ stack[b + 2].fn = "dlsym" /\ stack[b + 2].pc = "buffer"
  <2>1. Placed(n, b)
    BY <1>2, <1>3, <1>4, Positions
  <2> QED BY <2>1 DEF Placed
<1>7. /\ Top.fn # "dangless_init" /\ Top.fn # "dlsym" /\ "special" \notin remapped
      /\ remapped # {} => hooks
  BY <1>4, NotElsewhere DEF IInv, Storage, Entered
<1>8. Top.p = "none"
  BY <1>4 DEF FrameOK
<1>9. Others'
  BY DEF IInv, Others
<1>10. CASE (ReturnsAtOnce(p) \/ ~SysFirst(Top.fn)) /\ Return(p)
  <2>1. stack' = Front(stack) /\ ret' = p
    BY <1>10 DEF Return
  <2>2. Top.fn = "malloc" => Top.api = "sys"
    BY <1>10 DEF ReturnsAtOnce, SysFirst
  <2>3. Top.fn = "calloc" => Top.api = "sys"
    BY <1>10 DEF ReturnsAtOnce, SysFirst
  <2>4. n = b \/ n = b + 1
    BY <2>3, <1>6
  <2>5. Shape'
    BY <1>4, <2>1, ShapeReturns
  <2>6. Addresses'
    BY <1>4, <2>1, AddressesReturns
  <2>7. Entered'
    <3>1. ~(Len(stack) = 2 /\ stack[1].fn = "dangless_init" /\ stack[1].pc = "dune_enter")
      <4> SUFFICES ASSUME n = 2, stack[1].fn = "dangless_init", stack[1].pc = "dune_enter"
                   PROVE  FALSE
        BY <1>2
      <4>1. Client = 2
        BY <1>4 DEF Client
      <4>2. Top.fn = "malloc" /\ Top.api = "dangless"
        <5>1. Len(stack) >= 2
          <6>1. Len(stack) = 2
            BY <1>2
          <6> QED BY <6>1
        <5>2. stack[2] = Top
          BY <1>5
        <5> QED BY <4>1, <5>1, <5>2 DEF IInv, Shape
      <4> QED BY <4>2, <2>2
    <3> QED BY <3>1, <1>4, <1>7, <2>1, EnteredReturns
  <2>8. Storage'
    <3>1. Len(stack) <= Client + 1
      BY <1>2, <1>3, <1>5, <2>4
    <3> QED BY <3>1, <1>4, <2>1, StorageReturns
  <2> QED BY <1>1, <1>9, <2>5, <2>6, <2>7, <2>8 DEF IInv
<1>11. ASSUME NEW to \in {"enter", "vremap", "exit"}, Goto([Top EXCEPT !.p = p, !.pc = to])
       PROVE  IInv'
  <2>1. PICK f : f = [Top EXCEPT !.p = p, !.pc = to]
    OBVIOUS
  <2>2. /\ f \in Frame /\ f.pc = to /\ f.fn = Top.fn /\ f.api = Top.api
        /\ f.p = p /\ f.hooked = Top.hooked
    BY <1>4, <2>1 DEF Frame
  <2>3. stack' = Append(Front(stack), f) /\ ret' = ret
    BY <1>11, <2>1 DEF Goto
  <2>4. Shape'
    BY <1>4, <2>2, <2>3, ShapeMoves
  <2>5. Addresses'
    BY <1>4, <2>2, <2>3, AddressesMoves
  <2>6. Entered'
    BY <1>4, <1>7, <2>2, <2>3, EnteredMoves
  <2>7. Storage'
    BY <1>4, <1>7, <1>8, <2>2, <2>3, StorageMoves
  <2> QED BY <1>1, <1>9, <2>4, <2>5, <2>6, <2>7 DEF IInv
<1> QED BY <1>10, <1>11 DEF HasMemory

LEMMA CallSystemInv ==
  ASSUME IInv, CallSystem
  PROVE  IInv'
<1>1. Top.fn \in addr
  <2>1. stack # <<>> /\ Top.fn \in Functions /\ Top.pc = "call"
    BY TopInAllocator DEF CallSystem, IInv
  <2> QED BY <2>1 DEF IInv, Addresses
<1>2. PICK p \in Given(Top.fn) : HasMemory(p) /\ UNCHANGED aborted
  BY <1>1 DEF CallSystem
<1>3. p \in Memory \ {"special"}
  BY DEF Given, Memory
<1>4. UNCHANGED <<addr, populating, storageUsed, dlsymBuffer, inDune, initialized, records,
                 hooks, remapped, aborted>>
  BY <1>2 DEF CallSystem, proxyVars, initVars
<1> QED BY <1>1, <1>2, <1>3, <1>4, HasMemoryInv

-----------------------------------------------------------------------------
(* The entry points around the proxy. *)

\* An entry point returns what its frame has.
LEMMA EntryReturns ==
  ASSUME IInv, stack # <<>>, Top.fn \in Functions, FrameOK(Top), Top.api = "dangless",
         Top.pc \in {"enter", "exit"}, BaseInv',
         stack' = Front(stack), ret' = Top.p,
         UNCHANGED <<addr, populating, storageUsed, dlsymBuffer, inDune, initialized, records,
                     hooks, remapped, aborted>>
  PROVE  IInv'
<1>1. PICK n : n = Len(stack)
  OBVIOUS
<1>2. PICK b : b = Client
  OBVIOUS
<1>3. /\ stack # <<>> /\ Top.fn \in Functions
      /\ Top.fn # "dangless_init" /\ Top.fn # "dlsym" /\ Top.p \in Memory
  BY NotElsewhere DEF FrameOK, Frame
<1>4. /\ n \in Nat /\ n >= 1 /\ b \in {1, 2} /\ n <= b + 3
      /\ stack \in Seq(Frame) /\ DOMAIN stack = 1 .. n /\ Top = stack[n]
  BY <1>1, <1>2, <1>3, Positions
<1>5. \/ n = b
      \/ n = b + 1 /\ Top.fn = "malloc" /\ Top.api = "sys" /\ stack[b].pc = "exit"
      \/ /\ n = b + 3 /\ Top.fn = "calloc" /\ Top.api = "dangless" /\ ~Top.hooked
         /\ Populates(b + 1) /\ stack[b + 1].pc = "bind"
         /\ stack[b + 2].fn = "dlsym" /\ stack[b + 2].pc = "buffer"
  <2>1. Placed(n, b)
    BY <1>1, <1>2, <1>3, Positions
  <2> QED BY <2>1 DEF Placed
<1>6. n = b \/ n = b + 3
  BY <1>5
<1>7. Shape'
  BY ShapeReturns
<1>8. Addresses'
  BY AddressesReturns
<1>9. Entered'
  <2>1. ASSUME Len(stack) = 2, stack[1].fn = "dangless_init", stack[1].pc = "dune_enter"
        PROVE  addr = Functions
    <3>1. Client = 2
      BY <2>1 DEF Client
    <3>2. Len(stack) >= 2
      BY <2>1
    <3>3. stack[2] = Top
      BY <1>1, <1>4, <2>1
    <3>4. Top.fn = "malloc"
      BY <3>1, <3>2, <3>3, <2>1 DEF IInv, Shape
    <3>5. 2 \in DOMAIN stack /\ 3 \notin DOMAIN stack
      BY <1>1, <1>4, <2>1
    <3>6. "malloc" \in addr
      BY <3>3, <3>4, <3>5 DEF IInv, Addresses
    <3>7. ~populating
      BY <3>1, <3>5 DEF IInv, Addresses, Populates
    <3> QED BY <3>6, <3>7 DEF IInv, Addresses
  <2> QED BY <2>1, <1>1, <1>3, EnteredReturns
<1>10. Storage'
  <2>1. CASE n = b
    <3>1. Len(stack) <= Client + 1
      BY <1>1, <1>2, <1>4, <2>1
    <3>2. Top.p # "special"
      <4>1. n \in DOMAIN stack /\ n # b + 3
        BY <1>4, <2>1
      <4> QED BY <4>1, <1>2, <1>4 DEF IInv, Storage
    <3> QED BY <3>1, <3>2, <1>3, StorageReturns
  <2>2. CASE n = b + 3
    <3>1. /\ Len(stack') = n - 1 /\ DOMAIN stack' = 1 .. n - 1
          /\ \A i \in 1 .. n - 1 : stack'[i] = stack[i]
          /\ \A i \in DOMAIN stack' : i \in DOMAIN stack /\ i < n /\ stack'[i] = stack[i]
          /\ n > 1 => stack' # <<>> /\ Client' = b /\ Top' = stack[n - 1]
          /\ n = 1 => stack' = <<>> /\ Client' = 1
      BY <1>1, <1>2, <1>4, Returns
    <3>2. /\ stack' # <<>> /\ Client' = b /\ Len(stack') = b + 2 /\ Top' = stack[b + 2]
          /\ stack'[b + 2] = stack[b + 2]
      BY <1>4, <2>2, <3>1
    <3>3. stack[b + 2].pc = "buffer" /\ n >= b + 2 /\ n # b + 2
      BY <1>4, <1>5, <2>2
    <3>4. dlsymBuffer = "none" /\ ret # "special"
      BY <3>3, <1>1, <1>2 DEF IInv, Storage
    <3>5. storageUsed => Top.p = "special"
      BY <3>4, <1>1, <1>2 DEF IInv, Storage
    <3>6. \A i \in DOMAIN stack' : stack'[i].p = "special" => i = b + 3
      BY <1>2, <3>1 DEF IInv, Storage
    <3> QED BY <3>2, <3>3, <3>4, <3>5, <3>6, <1>3 DEF IInv, Storage
  <2> QED BY <2>1, <2>2, <1>6
<1>11. Others'
  BY DEF IInv, Others
<1> QED BY <1>7, <1>8, <1>9, <1>10, <1>11 DEF IInv

\* An entry point goes on, hooked or not.
LEMMA EntryMoves ==
  ASSUME IInv, stack # <<>>, Top.fn \in Functions, NEW f \in Frame, f.fn = Top.fn,
         f.api = Top.api, f.p = Top.p, BaseInv',
         f.hooked => Top.hooked \/ (inDune /\ hooks /\ Len(stack) = Client),
         f.pc # "call",
         f.fn = "malloc" /\ f.pc \in {"enter", "vremap", "exit"} => "malloc" \in addr,
         stack' = Append(Front(stack), f),
         UNCHANGED <<ret, addr, populating, storageUsed, dlsymBuffer, inDune, initialized, records,
                     hooks, aborted>>,
         remapped' # {} => hooks, remapped' \subseteq Memory \ {"special"}
  PROVE  IInv'
<1>1. Top.fn # "dangless_init" /\ Top.fn # "dlsym"
  BY NotElsewhere
<1>2. Shape'
  BY ShapeMoves
<1>3. Addresses'
  BY AddressesMoves
<1>4. Entered'
  BY <1>1, EnteredMoves
<1>5. Storage'
  BY <1>1, StorageMoves
<1>6. Others'
  BY DEF IInv, Others
<1> QED BY <1>2, <1>3, <1>4, <1>5, <1>6 DEF IInv

LEMMA RemappedKept ==
  ASSUME IInv
  PROVE  (remapped # {} => hooks) /\ remapped \subseteq Memory \ {"special"}
BY DEF IInv, Entered, Storage, Others

LEMMA HookEnterInv ==
  ASSUME IInv, HookEnter
  PROVE  IInv'
<1>1. BaseInv'
  BY HookEnterBase DEF IInv
<1>2. PICK n : n = Len(stack)
  OBVIOUS
<1>3. PICK b : b = Client
  OBVIOUS
<1>4. /\ aborted = "" /\ stack # <<>> /\ Top \in Frame /\ FrameOK(Top)
      /\ Top.fn \in Functions /\ Top.pc = "enter"
  BY TopInAllocator DEF HookEnter, IInv
<1>5. /\ n \in Nat /\ n >= 1 /\ b \in {1, 2} /\ n <= b + 3
      /\ stack \in Seq(Frame) /\ DOMAIN stack = 1 .. n /\ Top = stack[n]
  BY <1>2, <1>3, <1>4, Positions
<1>6. \/ n = b
      \/ n = b + 1 /\ Top.fn = "malloc" /\ Top.api = "sys" /\ stack[b].pc = "exit"
      \/ /\ n = b + 3 /\ Top.fn = "calloc" /\ Top.api = "dangless" /\ ~Top.hooked
         /\ Populates(b + 1) /\ stack[b + 1].pc = "bind"
         /\ stack[b + 2].fn = "dlsym" /\ stack[b + 2].pc = "buffer"
  <2>1. Placed(n, b)
    BY <1>2, <1>3, <1>4, Positions
  <2> QED BY <2>1 DEF Placed
<1>7. /\ ~Top.hooked /\ Top.api = "dangless"
      /\ Top.fn = "malloc" => "malloc" \in addr
  <2>1. n \in DOMAIN stack
    BY <1>5
  <2> QED BY <2>1, <1>4, <1>5 DEF FrameOK, IInv, Addresses
<1>8. /\ UNCHANGED <<addr, populating, storageUsed, dlsymBuffer, inDune, initialized, records,
                    hooks, remapped, aborted>>
      /\ remapped # {} => hooks
      /\ remapped \subseteq Memory \ {"special"}
  BY RemappedKept DEF HookEnter, proxyVars, initVars
<1>9. CASE depth = 0 /\ inDune
  <2>1. n = b
    <3>1. ~Populates(b + 1)
      BY <1>3, <1>9, WhilePopulating
    <3> QED BY <3>1, <1>6, <1>7
  <2>2. hooks
    <3> SUFFICES ASSUME ~hooks PROVE FALSE
      OBVIOUS
    <3>1. b = 2 /\ stack[1].pc \in {"restore_init", "hooks_init"}
      BY <1>3, <1>9 DEF IInv, Entered
    <3>2. Len(stack) >= 2
      <4>1. Len(stack) = 2
        BY <1>2, <2>1, <3>1
      <4> QED BY <4>1
    <3>3. stack[2] = Top
      BY <1>5, <2>1, <3>1
    <3>4. Top.api = "sys"
      BY <1>3, <3>1, <3>2, <3>3 DEF IInv, Shape
    <3> QED BY <3>4, <1>7
  <2>3. PICK to \in {"vremap", "sys"} : to = IF SysFirst(Top.fn) THEN "vremap" ELSE "sys"
    OBVIOUS
  <2>4. PICK f : f = [Top EXCEPT !.hooked = TRUE, !.pc = to]
    OBVIOUS
  <2>5. /\ f \in Frame /\ f.pc = to /\ f.fn = Top.fn /\ f.p = Top.p /\ f.api = Top.api
        /\ f.hooked
    BY <1>4, <2>4 DEF Frame
  <2>6. stack' = Append(Front(stack), f) /\ ret' = ret
    BY <1>9, <2>3, <2>4 DEF HookEnter, Goto
  <2>7. Len(stack) = Client
    BY <1>2, <1>3, <2>1
  <2> QED BY <1>1, <1>4, <1>7, <1>8, <1>9, <2>2, <2>5, <2>6, <2>7, EntryMoves
<1>10. CASE ~(depth = 0 /\ inDune) /\ SysFirst(Top.fn)
  <2>1. stack' = Front(stack) /\ ret' = Top.p
    BY <1>10 DEF HookEnter, Return
  <2> QED BY <1>1, <1>4, <1>7, <1>8, <2>1, EntryReturns
<1>11. CASE ~(depth = 0 /\ inDune) /\ ~SysFirst(Top.fn)
  <2>1. PICK f : f = [Top EXCEPT !.pc = "sys"]
    OBVIOUS
  <2>2. /\ f \in Frame /\ f.pc = "sys" /\ f.fn = Top.fn /\ f.p = Top.p /\ f.api = Top.api
        /\ f.hooked = Top.hooked
    BY <1>4, <2>1 DEF Frame
  <2>3. stack' = Append(Front(stack), f) /\ ret' = ret
    BY <1>11, <2>1 DEF HookEnter, Goto
  <2> QED BY <1>1, <1>4, <1>7, <1>8, <2>2, <2>3, EntryMoves
<1> QED BY <1>9, <1>10, <1>11

LEMMA VremapInv ==
  ASSUME IInv, Vremap
  PROVE  IInv'
<1>1. BaseInv'
  BY VremapBase DEF IInv
<1>2. PICK n : n = Len(stack)
  OBVIOUS
<1>3. PICK b : b = Client
  OBVIOUS
<1>4. /\ aborted = "" /\ stack # <<>> /\ Top \in Frame /\ FrameOK(Top)
      /\ Top.fn \in Functions /\ Top.pc = "vremap"
  BY TopInAllocator DEF Vremap, IInv
<1>5. /\ n \in Nat /\ n >= 1 /\ b \in {1, 2} /\ n <= b + 3
      /\ stack \in Seq(Frame) /\ DOMAIN stack = 1 .. n /\ Top = stack[n]
  BY <1>2, <1>3, <1>4, Positions
<1>6. \/ n = b
      \/ n = b + 1 /\ Top.fn = "malloc" /\ Top.api = "sys" /\ stack[b].pc = "exit"
      \/ /\ n = b + 3 /\ Top.fn = "calloc" /\ Top.api = "dangless" /\ ~Top.hooked
         /\ Populates(b + 1) /\ stack[b + 1].pc = "bind"
         /\ stack[b + 2].fn = "dlsym" /\ stack[b + 2].pc = "buffer"
  <2>1. Placed(n, b)
    BY <1>2, <1>3, <1>4, Positions
  <2> QED BY <2>1 DEF Placed
<1>7. /\ Top.hooked /\ Top.api = "dangless"
      /\ Top.fn = "malloc" => "malloc" \in addr
  <2>1. n \in DOMAIN stack
    BY <1>5
  <2> QED BY <2>1, <1>4, <1>5 DEF FrameOK, IInv, Addresses
<1>8. n = b /\ inDune /\ hooks /\ Top.p \in Memory \ {"special"}
  <2>1. n = b
    BY <1>6, <1>7
  <2>2. n \in DOMAIN stack /\ n # b + 3
    BY <1>5, <2>1
  <2> QED BY <2>1, <2>2, <1>3, <1>4, <1>5, <1>7 DEF IInv, Entered, Storage, Frame
<1>9. PICK f : f = [Top EXCEPT !.pc = "exit"]
  OBVIOUS
<1>10. /\ f \in Frame /\ f.pc = "exit" /\ f.fn = Top.fn /\ f.p = Top.p /\ f.api = Top.api
       /\ f.hooked = Top.hooked
  BY <1>4, <1>9 DEF Frame
<1>11. /\ UNCHANGED <<ret, addr, populating, storageUsed, dlsymBuffer, inDune, initialized, records,
                     hooks, aborted>>
       /\ remapped' \subseteq Memory \ {"special"}
  <2>1. remapped' = remapped \cup ({Top.p} \ {"none"})
    BY DEF Vremap
  <2> QED BY <2>1, <1>8, RemappedKept DEF Vremap, Goto, CallFrom, proxyVars, initVars
<1>12. CASE stack' = Append(Front(stack), f)
  BY <1>1, <1>4, <1>7, <1>8, <1>10, <1>11, <1>12, EntryMoves
<1>13. CASE stack' = Append(Append(Front(stack), f), Allocator("malloc", "sys"))
  <2>1. PICK g : /\ g = Allocator("malloc", "sys") /\ g.fn = "malloc" /\ g.api = "sys"
                 /\ g.p = "none" /\ g.pc = "sys" /\ ~g.hooked /\ g \in Frame
    BY NewAllocators
  <2>2. stack' = Append(Append(Front(stack), f), g)
    BY <1>13, <2>1
  <2>3. /\ stack' # <<>> /\ Len(stack') = n + 1 /\ Client' = b /\ Top' = g
        /\ stack'[n + 1] = g /\ stack'[n] = f /\ DOMAIN stack' = 1 .. n + 1
        /\ \A i \in DOMAIN stack' :
             i = n + 1 \/ i = n \/ (i \in DOMAIN stack /\ stack'[i] = stack[i])
    <3>1. f.fn = Top.fn /\ f \in Frame /\ g \in Frame /\ stack # <<>> /\ stack \in Seq(Frame)
      BY <1>4, <1>5, <1>10, <2>1
    <3> QED BY ONLY <3>1, <2>2, <1>2, <1>3, Calls
  <2>4. Shape'
    BY <1>2, <1>3, <1>4, <1>8, <1>10, <2>1, <2>2, ShapeCalls
  <2>5. Addresses'
    <3>1. ~Populates(b + 1)
      <4>1. b + 1 \notin DOMAIN stack
        BY <1>5, <1>8
      <4> QED BY <4>1 DEF Populates
    <3>2. ~Populates(b + 1)'
      <4>1. stack'[b + 1] = g
        BY <1>8, <2>3
      <4> QED BY <4>1, <2>1 DEF Populates
    <3>3. \A i \in DOMAIN stack' :
            stack'[i].fn = "malloc" /\ stack'[i].pc \in {"enter", "vremap", "exit"}
              => "malloc" \in addr
      BY <1>7, <1>10, <2>1, <2>3 DEF IInv, Addresses
    <3> QED BY <3>1, <3>2, <3>3, <1>3, <1>11, <2>1, <2>3 DEF IInv, Addresses
  <2>6. Entered'
    BY <1>4, <1>8, <1>10, <1>11, <2>1, <2>2, NotElsewhere, EnteredCalls
  <2>7. Storage'
    <3>1. Len(stack) <= Client + 1
      BY <1>2, <1>3, <1>5, <1>8
    <3> QED BY <3>1, <1>4, <1>10, <1>11, <2>1, <2>2, StorageCalls
  <2>8. Others'
    BY <1>11 DEF IInv, Others
  <2> QED BY <1>1, <2>4, <2>5, <2>6, <2>7, <2>8 DEF IInv
<1> QED BY <1>9, <1>12, <1>13 DEF Vremap, Goto, CallFrom

LEMMA HookExitInv ==
  ASSUME IInv, HookExit
  PROVE  IInv'
<1>1. BaseInv'
  BY HookExitBase DEF IInv
<1>2. /\ stack # <<>> /\ FrameOK(Top) /\ Top.fn \in Functions /\ Top.pc = "exit"
  BY TopInAllocator DEF HookExit, IInv
<1>3. Top.api = "dangless"
  BY <1>2 DEF FrameOK
<1>4. /\ stack' = Front(stack) /\ ret' = Top.p
      /\ UNCHANGED <<addr, populating, storageUsed, dlsymBuffer, inDune, initialized, records,
                     hooks, remapped, aborted>>
  BY DEF HookExit, Return, proxyVars, initVars
<1> QED BY <1>1, <1>2, <1>3, <1>4, EntryReturns

-----------------------------------------------------------------------------
(* dangless_init, and what the program calls. *)

\* Nothing is looked up while the program's call is not there yet, or dangless_init is alone.
LEMMA Quiet ==
  ASSUME IInv, stack = <<>> \/ Top.fn = "dangless_init"
  PROVE  /\ ~populating /\ ret # "special" /\ (storageUsed => dlsymBuffer = "special")
         /\ \A i \in DOMAIN stack : stack[i].p # "special" /\ ~stack[i].hooked
         /\ stack # <<>> => Client = 2 /\ Len(stack) = 1 /\ DOMAIN stack = 1 .. 1 /\ Top = stack[1]
         /\ stack = <<>> => Client = 1 /\ Len(stack) = 0 /\ DOMAIN stack = {}
<1>1. stack \in Seq(Frame)
  BY DEF IInv, BaseInv, Frames
<1>2. CASE stack = <<>>
  <2>1. Client = 1 /\ Len(stack) = 0 /\ DOMAIN stack = {}
    BY <1>2 DEF Client
  <2> QED BY <2>1, <1>2 DEF IInv, Addresses, Storage, Populates
<1>3. CASE stack # <<>>
  <2>1. PICK n : n = Len(stack)
    OBVIOUS
  <2>2. PICK b : b = Client
    OBVIOUS
  <2>3. n = 1 /\ b = 2 /\ DOMAIN stack = 1 .. n /\ Top = stack[n]
    BY <1>3, <2>1, <2>2, Positions
  <2>4. DOMAIN stack = 1 .. 1 /\ 3 \notin DOMAIN stack
    BY <2>3
  <2>5. ~populating
    BY <2>2, <2>3, <2>4 DEF IInv, Addresses, Populates
  <2>6. Len(stack) = 1 /\ Client = 2
    BY <2>1, <2>2, <2>3
  <2>7. ret # "special" /\ (storageUsed => dlsymBuffer = "special")
    BY <2>6 DEF IInv, Storage
  <2>8. \A i \in DOMAIN stack : stack[i].p # "special" /\ ~stack[i].hooked
    <3>1. FrameOK(stack[1])
      BY <2>4 DEF IInv, BaseInv, Frames
    <3>2. \A i \in DOMAIN stack : i = 1
      BY <2>4
    <3>3. stack[1].fn \notin Functions
      BY <2>3 DEF Functions, Top
    <3> QED BY <3>1, <3>2, <3>3 DEF FrameOK
  <2> QED BY <1>3, <2>3, <2>4, <2>5, <2>6, <2>7, <2>8
<1> QED BY <1>2, <1>3

\* The parts of the invariant that a call which has just begun, on an otherwise idle stack,
\* or no call at all, cannot break.
LEMMA FreshStack ==
  ASSUME IInv, stack = <<>> \/ Top.fn = "dangless_init", BaseInv',
         NEW m \in 0 .. 2, Len(stack') = m, DOMAIN stack' = 1 .. m,
         NEW b \in {1, 2}, Client' = b, m <= b,
         \A i \in 1 .. m : stack'[i].p = "none" /\ ~stack'[i].hooked /\ stack'[i].pc # "call",
         m >= 1 => Top' = stack'[m], m = 0 => stack' = <<>>,
         \A i \in 1 .. m : stack'[i].fn = "malloc" => stack'[i].pc = "sys",
         b = 1 /\ m >= 1 => stack'[1].fn \in Functions /\ stack'[1].api = "dangless",
         b = 2 /\ m = 2 => \/ /\ stack'[1].pc = "dune_enter"
                              /\ stack'[2].fn = "malloc" /\ stack'[2].api = "dangless"
                           \/ /\ stack'[1].pc = "hooks_init"
                              /\ stack'[2].fn = "realloc" /\ stack'[2].api = "sys",
         ret' \in (Memory \cup {"void"}) \ {"special"},
         UNCHANGED <<addr, populating, storageUsed, dlsymBuffer, remapped>>
  PROVE  Shape' /\ Addresses' /\ Storage'
<1>1. /\ ~populating /\ (storageUsed => dlsymBuffer = "special")
      /\ dlsymBuffer \in Memory /\ "special" \notin remapped
  BY Quiet DEF IInv, Storage
<1>2. ~(m >= b + 1) /\ ~(m >= b + 2) /\ ~(m >= b + 3) /\ m <= b + 3 /\ m # b + 2 /\ m # b + 3
  OBVIOUS
<1>3. Shape'
  BY <1>2 DEF Shape
<1>4. Addresses'
  <2>1. ~Populates(b + 1)'
    <3>1. b + 1 \notin 1 .. m
      OBVIOUS
    <3> QED BY <3>1 DEF Populates
  <2>2. stack' # <<>> => Top'.pc # "call"
    <3>1. m >= 1 => m \in 1 .. m
      OBVIOUS
    <3>2. m = 0 \/ m >= 1
      OBVIOUS
    <3> QED BY <3>1, <3>2
  <2> QED BY <2>1, <2>2, <1>1 DEF IInv, Addresses
<1>5. Storage'
  BY <1>1, <1>2 DEF Storage
<1> QED BY <1>3, <1>4, <1>5

LEMMA ProgramCallsInv ==
  ASSUME IInv, ProgramCalls
  PROVE  IInv'
<1>1. BaseInv'
  BY ProgramCallsBase DEF IInv
<1>2. /\ stack = <<>>
      /\ UNCHANGED <<ret, addr, populating, storageUsed, dlsymBuffer, inDune, initialized, records,
                     hooks, remapped, aborted>>
  BY DEF ProgramCalls, proxyVars, initVars
<1>3. PICK f : /\ stack' = <<f>> /\ f.p = "none" /\ ~f.hooked /\ f.pc \in {"sys", "enter", "start"}
               /\ \/ f.fn \in Functions /\ f.api = "dangless"
                  \/ f.fn = "dangless_init" /\ f.pc = "start"
               /\ f.fn = "malloc" => f.pc = "sys"
  <2>1. PICK f \in {Allocator(fn, "dangless") : fn \in Functions}
                   \cup {NewFrame("dangless_init", "", "start")} : stack' = <<f>>
    BY DEF ProgramCalls
  <2>2. CASE f = NewFrame("dangless_init", "", "start")
    BY <2>1, <2>2, NewFrames
  <2>3. CASE f \in {Allocator(fn, "dangless") : fn \in Functions}
    <3>1. PICK fn \in Functions : f = Allocator(fn, "dangless")
      BY <2>3
    <3>2. /\ f.fn = fn /\ f.api = "dangless" /\ ~f.hooked /\ f.p = "none"
          /\ f.pc = IF SysFirst(fn) THEN "sys" ELSE "enter"
      BY <3>1, NewFrames
    <3> QED BY <2>1, <3>2 DEF SysFirst
  <2> QED BY <2>1, <2>2, <2>3
<1>4. /\ stack' # <<>> /\ Len(stack') = 1 /\ DOMAIN stack' = 1 .. 1 /\ stack'[1] = f /\ Top' = f
  <2>1. PICK t : t = stack' /\ t = <<f>>
    BY <1>3
  <2>2. t # <<>> /\ Len(t) = 1 /\ DOMAIN t = 1 .. 1 /\ t[1] = f /\ Last(t) = f
    BY <2>1 DEF Last
  <2> QED BY <2>1, <2>2 DEF Top
<1>5. PICK b \in {1, 2} : /\ Client' = b
                          /\ b = 2 => f.fn = "dangless_init" /\ f.pc = "start"
                          /\ b = 1 => f.fn \in Functions /\ f.api = "dangless"
  BY <1>3, <1>4 DEF Client, Functions
<1>6. Shape' /\ Addresses' /\ Storage'
  <2>1. 1 \in 0 .. 2 /\ 1 <= b
    OBVIOUS
  <2>2. \A i \in 1 .. 1 : stack'[i] = f
    BY <1>4
  <2>3. ret' \in (Memory \cup {"void"}) \ {"special"}
    BY <1>2, Quiet DEF IInv, Storage
  <2> QED BY <2>1, <2>2, <2>3, <1>1, <1>2, <1>3, <1>4, <1>5, FreshStack
<1>7. Entered'
  <2>1. \A i \in DOMAIN stack' : ~stack'[i].hooked
    BY <1>3, <1>4
  <2>2. ~(inDune /\ ~hooks)
    BY <1>2, Quiet DEF IInv, Entered
  <2> QED BY <2>1, <2>2, <1>2, <1>3, <1>4, <1>5 DEF IInv, Entered
<1>8. Others'
  BY <1>2 DEF IInv, Others
<1> QED BY <1>1, <1>6, <1>7, <1>8 DEF IInv

\* dangless_init returns.
LEMMA InitReturns ==
  ASSUME IInv, stack # <<>>, Top.fn = "dangless_init", BaseInv',
         stack' = Front(stack), ret' = "void",
         UNCHANGED <<addr, populating, storageUsed, dlsymBuffer, remapped>>
  PROVE  Shape' /\ Addresses' /\ Storage' /\ stack' = <<>> /\ Client' = 1 /\ DOMAIN stack' = {}
<1>1. stack \in Seq(Frame) /\ Len(stack) = 1
  BY Quiet DEF IInv, BaseInv, Frames
<1>2. stack' = <<>> /\ Client' = 1
  <2>1. PICK n : n = Len(stack) /\ n = 1
    BY <1>1
  <2>2. PICK b : b = Client
    OBVIOUS
  <2> QED BY <1>1, <2>1, <2>2, Returns
<1>3. Len(stack') = 0 /\ DOMAIN stack' = 1 .. 0 /\ DOMAIN stack' = {}
  BY <1>2
<1>4. "void" \in (Memory \cup {"void"}) \ {"special"}
  BY DEF Memory
<1>5. 0 \in 0 .. 2 /\ 0 <= 1 /\ \A i \in 1 .. 0 : FALSE
  OBVIOUS
<1>6. Shape' /\ Addresses' /\ Storage'
  <2>1. PICK m \in 0 .. 2 : m = 0 /\ m <= 1 /\ Len(stack') = m /\ DOMAIN stack' = 1 .. m
    BY <1>3, <1>5
  <2>2. PICK b \in {1, 2} : b = 1 /\ Client' = b /\ m <= b
    BY <1>2, <2>1
  <2>3. \A i \in 1 .. m : FALSE
    BY <2>1
  <2>4. ~(m >= 1) /\ ~(b = 2)
    BY <2>1, <2>2
  <2> QED BY <1>2, <1>4, <2>1, <2>2, <2>3, <2>4, FreshStack
<1> QED BY <1>2, <1>3, <1>6

\* dangless_init calls a function of the allocator.
LEMMA InitCalls ==
  ASSUME IInv, stack # <<>>, Top.fn = "dangless_init", BaseInv', NEW f \in Frame, NEW g \in Frame,
         f.fn = "dangless_init", f.p = "none", ~f.hooked, f.pc # "call",
         g.p = "none", ~g.hooked, g.pc = "sys",
         \/ f.pc = "dune_enter" /\ g.fn = "malloc" /\ g.api = "dangless"
         \/ f.pc = "hooks_init" /\ g.fn = "realloc" /\ g.api = "sys",
         stack' = Append(Append(Front(stack), f), g),
         UNCHANGED <<ret, addr, populating, storageUsed, dlsymBuffer, remapped>>
  PROVE  /\ Shape' /\ Addresses' /\ Storage'
         /\ Client' = 2 /\ Len(stack') = 2 /\ stack'[1] = f
         /\ \A i \in DOMAIN stack' : ~stack'[i].hooked
<1>1. stack \in Seq(Frame) /\ Len(stack) = 1 /\ Client = 2
  BY Quiet DEF IInv, BaseInv, Frames
<1>2. /\ stack' # <<>> /\ Len(stack') = 2 /\ Client' = 2 /\ Top' = g
      /\ stack'[2] = g /\ stack'[1] = f /\ DOMAIN stack' = 1 .. 2
  <2>1. PICK n : n = Len(stack) /\ n = 1
    BY <1>1
  <2>2. PICK b : b = Client /\ b = 2
    BY <1>1
  <2>3. /\ stack' # <<>> /\ Len(stack') = n + 1 /\ Client' = b /\ Top' = g
        /\ stack'[n + 1] = g /\ stack'[n] = f /\ DOMAIN stack' = 1 .. n + 1
    BY <1>1, <2>1, <2>2, Calls
  <2>4. n + 1 = 2
    BY <2>1
  <2> QED BY <2>1, <2>2, <2>3, <2>4
<1>3. \A i \in 1 .. 2 : i = 1 \/ i = 2
  OBVIOUS
<1>4. \A i \in 1 .. 2 : stack'[i] = f \/ stack'[i] = g
  BY <1>2, <1>3
<1>5. ret' \in (Memory \cup {"void"}) \ {"special"}
  BY Quiet DEF IInv, Storage
<1>6. PICK m \in 0 .. 2 : m = 2 /\ Len(stack') = m /\ DOMAIN stack' = 1 .. m
  BY <1>2
<1>7. PICK b \in {1, 2} : b = 2 /\ Client' = b
  BY <1>2
<1>8. m <= b /\ (m >= 1 => Top' = stack'[m]) /\ (m = 0 => stack' = <<>>)
  BY <1>2, <1>6, <1>7
<1>9. /\ \A i \in 1 .. m : stack'[i].p = "none" /\ ~stack'[i].hooked /\ stack'[i].pc # "call"
      /\ \A i \in 1 .. m : stack'[i].fn = "malloc" => stack'[i].pc = "sys"
  BY <1>4, <1>6
<1>10. ~(b = 1) /\ (\/ /\ stack'[1].pc = "dune_enter"
                       /\ stack'[2].fn = "malloc" /\ stack'[2].api = "dangless"
                    \/ /\ stack'[1].pc = "hooks_init"
                       /\ stack'[2].fn = "realloc" /\ stack'[2].api = "sys")
  BY <1>2, <1>7
<1>11. Shape' /\ Addresses' /\ Storage'
  BY <1>5, <1>6, <1>7, <1>8, <1>9, <1>10, FreshStack
<1> QED BY <1>2, <1>4, <1>11

LEMMA StartInitInv ==
  ASSUME DuneInitAllocates, IInv, StartInit
  PROVE  IInv'
<1>1. BaseInv'
  BY InitialisationBase DEF IInv
<1>2. stack # <<>> /\ Top \in Frame /\ FrameOK(Top) /\ Top.fn = "dangless_init" /\ Top.pc = "start"
  BY TopAt DEF StartInit, IInv
<1>3. UNCHANGED <<addr, populating, storageUsed, dlsymBuffer, inDune, records, hooks, remapped,
                 aborted>>
  BY DEF StartInit, proxyVars
<1>4. ~(inDune /\ ~hooks)
  BY <1>2, Quiet DEF IInv, Entered
<1>5. CASE initialized
  <2>1. stack' = Front(stack) /\ ret' = "void" /\ UNCHANGED initialized
    BY <1>5 DEF StartInit, Return
  <2>2. Shape' /\ Addresses' /\ Storage' /\ stack' = <<>> /\ Client' = 1 /\ DOMAIN stack' = {}
    BY <1>1, <1>2, <1>3, <2>1, InitReturns
  <2>3. Entered'
    BY <1>3, <1>4, <2>2 DEF IInv, Entered
  <2>4. Others'
    BY <1>3, <2>1 DEF IInv, Others
  <2> QED BY <1>1, <2>2, <2>3, <2>4 DEF IInv
<1>6. CASE ~initialized
  <2>1. PICK f : f = [Top EXCEPT !.pc = "dune_enter"]
    OBVIOUS
  <2>2. f \in Frame /\ f.pc = "dune_enter" /\ f.fn = Top.fn /\ f.p = Top.p /\ f.hooked = Top.hooked
    BY <1>2, <2>1 DEF Frame
  <2>3. Top.p = "none" /\ ~Top.hooked
    BY <1>2 DEF FrameOK, Functions
  <2>4. PICK g : /\ g = Allocator("malloc", "dangless") /\ g.fn = "malloc" /\ g.api = "dangless"
                 /\ g.p = "none" /\ g.pc = "sys" /\ ~g.hooked /\ g \in Frame
    BY NewAllocators
  <2>5. stack' = Append(Append(Front(stack), f), g) /\ ret' = ret /\ initialized' = TRUE
    BY <1>6, <2>1, <2>4 DEF StartInit, CallFrom
  <2>6. /\ Shape' /\ Addresses' /\ Storage'
        /\ Client' = 2 /\ Len(stack') = 2 /\ stack'[1] = f
        /\ \A i \in DOMAIN stack' : ~stack'[i].hooked
    BY <1>1, <1>2, <1>3, <2>2, <2>3, <2>4, <2>5, InitCalls
  <2>7. Entered'
    <3>1. Len(stack') # 1
      BY <2>6
    <3> QED BY <1>3, <1>4, <2>2, <2>6, <3>1 DEF IInv, Entered
  <2>8. Others'
    BY <1>3, <2>5 DEF IInv, Others
  <2> QED BY <1>1, <2>6, <2>7, <2>8 DEF IInv
<1> QED BY <1>5, <1>6

LEMMA EnterDuneInv ==
  ASSUME IInv, EnterDune
  PROVE  IInv'
<1>1. BaseInv'
  BY InitialisationBase DEF IInv
<1>2. /\ stack # <<>> /\ stack \in Seq(Frame) /\ Top \in Frame /\ FrameOK(Top)
      /\ Top.fn = "dangless_init" /\ Top.pc = "dune_enter"
  BY TopAt DEF EnterDune, IInv
<1>3. /\ UNCHANGED <<addr, populating, storageUsed, dlsymBuffer, depth, initialized, records, hooks,
                    remapped>>
  BY DEF EnterDune, proxyVars
<1>4. CASE Abort("dune") /\ UNCHANGED inDune
  BY <1>3, <1>4, NothingMoves DEF Abort
<1>5. CASE inDune' = TRUE /\ Goto([Top EXCEPT !.pc = "restore_init"]) /\ UNCHANGED aborted
  <2>1. PICK f : f = [Top EXCEPT !.pc = "restore_init"]
    OBVIOUS
  <2>2. /\ f \in Frame /\ f.pc = "restore_init" /\ f.fn = Top.fn /\ f.p = Top.p
        /\ f.hooked = Top.hooked
    BY <1>2, <2>1 DEF Frame
  <2>3. Top.p = "none" /\ ~Top.hooked
    BY <1>2 DEF FrameOK, Functions
  <2>4. stack' = Append(Front(stack), f) /\ ret' = ret
    BY <1>5, <2>1 DEF Goto
  <2>5. Len(stack) = 1 /\ Client = 2 /\ Top = stack[1]
    BY <1>2, Quiet
  <2>6. /\ stack' # <<>> /\ Len(stack') = 1 /\ Client' = 2 /\ Top' = f /\ stack'[1] = f
        /\ DOMAIN stack' = 1 .. 1
    <3>1. PICK n : n = Len(stack) /\ n = 1
      BY <2>5
    <3>2. PICK b : b = Client /\ b = 2
      BY <2>5
    <3> QED BY <1>2, <2>2, <2>4, <3>1, <3>2, Moves
  <2>7. addr = Functions
    BY <1>2, <2>5 DEF IInv, Entered
  <2>8. Shape' /\ Addresses' /\ Storage'
    <3>1. PICK m \in 0 .. 2 : m = 1 /\ Len(stack') = m /\ DOMAIN stack' = 1 .. m
      BY <2>6
    <3>2. PICK b \in {1, 2} : b = 2 /\ Client' = b
      BY <2>6
    <3>3. m <= b /\ (m >= 1 => Top' = stack'[m]) /\ (m = 0 => stack' = <<>>) /\ ~(b = 1) /\ ~(m = 2)
      BY <2>6, <3>1, <3>2
    <3>4. \A i \in 1 .. m : stack'[i] = f
      BY <2>6, <3>1
    <3>5. ret' \in (Memory \cup {"void"}) \ {"special"}
      BY <1>2, <2>4, Quiet DEF IInv, Storage
    <3> QED BY <1>1, <1>2, <1>3, <2>2, <2>3, <3>1, <3>2, <3>3, <3>4, <3>5, FreshStack
  <2>9. Entered'
    BY <1>2, <1>3, <1>5, <2>2, <2>3, <2>6, <2>7 DEF IInv, Entered
  <2>10. Others'
    BY <1>3, <1>5 DEF IInv, Others
  <2> QED BY <1>1, <2>8, <2>9, <2>10 DEF IInv
<1> QED BY <1>4, <1>5 DEF EnterDune

LEMMA RestoreInitInv ==
  ASSUME IInv, RestoreInit
  PROVE  IInv'
<1>1. BaseInv'
  BY InitialisationBase DEF IInv
<1>2. /\ stack # <<>> /\ Top \in Frame /\ FrameOK(Top)
      /\ Top.fn = "dangless_init" /\ Top.pc = "restore_init"
  BY TopAt DEF RestoreInit, IInv
<1>3. UNCHANGED <<addr, populating, storageUsed, dlsymBuffer, inDune, initialized, records, hooks,
                 remapped, aborted>>
  BY DEF RestoreInit, proxyVars, initVars
<1>4. addr = Functions
  BY <1>2, Quiet DEF IInv, Entered
<1>5. PICK f : f = [Top EXCEPT !.pc = "hooks_init"]
  OBVIOUS
<1>6. f \in Frame /\ f.pc = "hooks_init" /\ f.fn = Top.fn /\ f.p = Top.p /\ f.hooked = Top.hooked
  BY <1>2, <1>5 DEF Frame
<1>7. Top.p = "none" /\ ~Top.hooked
  BY <1>2 DEF FrameOK, Functions
<1>8. PICK g : /\ g = Allocator("realloc", "sys") /\ g.fn = "realloc" /\ g.api = "sys"
               /\ g.p = "none" /\ g.pc = "sys" /\ ~g.hooked /\ g \in Frame
  BY NewAllocators
<1>9. stack' = Append(Append(Front(stack), f), g) /\ ret' = ret
  BY <1>5, <1>8 DEF RestoreInit, CallFrom
<1>10. /\ Shape' /\ Addresses' /\ Storage'
       /\ Client' = 2 /\ Len(stack') = 2 /\ stack'[1] = f
       /\ \A i \in DOMAIN stack' : ~stack'[i].hooked
  BY <1>1, <1>2, <1>3, <1>6, <1>7, <1>8, <1>9, InitCalls
<1>11. Entered'
  BY <1>3, <1>4, <1>6, <1>10 DEF IInv, Entered
<1>12. Others'
  BY <1>3 DEF IInv, Others
<1> QED BY <1>1, <1>10, <1>11, <1>12 DEF IInv

LEMMA HooksInitInv ==
  ASSUME IInv, HooksInit
  PROVE  IInv'
<1>1. BaseInv'
  BY ReturnsBase DEF IInv
<1>2. stack # <<>> /\ Top.fn = "dangless_init" /\ Top.pc = "hooks_init"
  BY TopAt DEF HooksInit, IInv
<1>3. /\ stack' = Front(stack) /\ ret' = "void" /\ hooks' = TRUE
      /\ records' \in {"none", "allocated", "refused"}
      /\ UNCHANGED <<addr, populating, storageUsed, dlsymBuffer, inDune, initialized, remapped,
                     aborted>>
  BY DEF HooksInit, Return, proxyVars
<1>4. Shape' /\ Addresses' /\ Storage' /\ stack' = <<>> /\ Client' = 1 /\ DOMAIN stack' = {}
  BY <1>1, <1>2, <1>3, InitReturns
<1>5. Entered'
  BY <1>3, <1>4 DEF IInv, Entered
<1>6. Others'
  BY <1>3 DEF IInv, Others
<1> QED BY <1>1, <1>4, <1>5, <1>6 DEF IInv

-----------------------------------------------------------------------------
(* The theorems. *)

LEMMA InitInv ==
  ASSUME Init
  PROVE  IInv
<1>1. BaseInv
  BY InitBase
<1>2. stack = <<>> /\ Client = 1 /\ Len(stack) = 0 /\ DOMAIN stack = {}
  <2>1. stack = <<>>
    BY DEF Init
  <2> QED BY <2>1 DEF Client
<1>3. Shape
  <2>1. ~(0 >= 2) /\ ~(0 >= 3) /\ ~(0 >= 4) /\ ~(0 >= 1) /\ 0 <= 4
    OBVIOUS
  <2> QED BY <1>2, <2>1 DEF Shape
<1>4. Addresses
  BY <1>2 DEF Init, Addresses, Populates
<1>5. Entered
  <2>1. Client # 2 /\ DOMAIN stack = {}
    BY <1>2
  <2>2. ~inDune /\ remapped = {}
    BY DEF Init
  <2> QED BY <2>1, <2>2 DEF Entered
<1>6. Storage
  <2>1. DOMAIN stack = {} /\ Len(stack) # Client + 2 /\ ~(Len(stack) >= Client + 2)
    BY <1>2
  <2>2. /\ dlsymBuffer \in Memory /\ ret \in Memory \cup {"void"} /\ ret # "special"
        /\ ~storageUsed /\ remapped = {}
    BY DEF Init, Memory
  <2> QED BY <2>1, <2>2 DEF Storage
<1>7. Others
  BY DEF Init, Others
<1> QED BY <1>1, <1>3, <1>4, <1>5, <1>6, <1>7 DEF IInv

LEMMA NextInv ==
  ASSUME DuneInitAllocates, IInv, [Next]_vars
  PROVE  IInv'
<1>1. CASE ProgramCalls
  BY <1>1, ProgramCallsInv
<1>2. CASE StartPopulating \/ LookUp \/ Bind \/ DonePopulating \/ DlsymAllocates \/ DlsymReturns
  BY <1>2, StartPopulatingInv, LookUpInv, BindInv, DonePopulatingInv, DlsymAllocatesInv,
     DlsymReturnsInv
<1>3. CASE Proxy \/ Special \/ CallSystem \/ HookEnter \/ Vremap \/ HookExit
  BY <1>3, ProxyInv, SpecialInv, CallSystemInv, HookEnterInv, VremapInv, HookExitInv
<1>4. CASE StartInit \/ EnterDune \/ RestoreInit \/ HooksInit
  BY <1>4, StartInitInv, EnterDuneInv, RestoreInitInv, HooksInitInv
<1>5. CASE UNCHANGED vars
  <2>1. /\ aborted' = aborted
        /\ UNCHANGED <<stack, ret, addr, populating, storageUsed, dlsymBuffer, depth, inDune,
                       initialized, records, hooks, remapped>>
    BY <1>5 DEF vars
  <2> QED BY <2>1, NothingMoves DEF IInv, Others
<1> QED BY <1>1, <1>2, <1>3, <1>4, <1>5 DEF Next, Step

LEMMA InvariantHolds ==
  ASSUME DuneInitAllocates
  PROVE  Spec => []IInv
BY InitInv, NextInv, PTL DEF Spec

\* Every variable keeps its type and the stack stays as low as the calls that can be nested,
\* when dune_init allocates.
THEOREM TypeCorrect ==
  ASSUME DuneInitAllocates
  PROVE  Spec => []TypeOK
<1>1. IInv => TypeOK
  <2> SUFFICES ASSUME IInv PROVE TypeOK
    OBVIOUS
  <2>1. stack \in Seq(Frame) /\ depth \in 0 .. 1
    BY DEF IInv, BaseInv, Frames, Balanced
  <2>2. Len(stack) <= 5
    <3>1. Client \in {1, 2} /\ Len(stack) \in Nat /\ Len(stack) <= Client + 3
      BY <2>1, LenProperties DEF IInv, Shape, Client
    <3>2. PICK b \in {1, 2} : b = Client
      BY <3>1
    <3>3. b + 3 <= 5
      OBVIOUS
    <3> QED BY <3>1, <3>2, <3>3
  <2>3. addr \subseteq Functions /\ dlsymBuffer \in Memory /\ ret \in Memory \cup {"void"}
    BY DEF IInv, Addresses, Storage
  <2> QED BY <2>1, <2>2, <2>3 DEF IInv, Others, TypeOK
<1> QED BY <1>1, InvariantHolds, PTL

\* The static storage of syscalloc_special goes to dlsym only, and never to do_vremap, when
\* dune_init allocates.
THEOREM SpecialForDlsym ==
  ASSUME DuneInitAllocates
  PROVE  Spec => []SpecialStaysInDlsym
<1>1. IInv => SpecialStaysInDlsym
  <2> SUFFICES ASSUME IInv PROVE SpecialStaysInDlsym
    OBVIOUS
  <2>1. PICK n : n = Len(stack)
    OBVIOUS
  <2>2. PICK b \in {1, 2} : b = Client
    BY DEF Client
  <2>3. stack \in Seq(Frame) /\ n \in Nat /\ DOMAIN stack = 1 .. n
    BY <2>1, LenProperties DEF IInv, BaseInv, Frames
  <2>4. n >= b + 2 => stack[b + 2].fn = "dlsym"
    BY <2>1, <2>2 DEF IInv, Shape
  <2>5. ret = "special" => Top.fn = "dlsym"
    <3> HAVE ret = "special"
    <3>1. n = b + 2
      BY <2>1, <2>2 DEF IInv, Storage
    <3>2. n >= b + 2 /\ stack # <<>>
      <4>1. n >= b + 2 /\ n # 0
        BY <3>1
      <4>2. Len(<<>>) = 0
        OBVIOUS
      <4> QED BY <4>1, <4>2, <2>1
    <3>3. Top = stack[n]
      BY <2>1, <2>3, <3>2, TopFacts
    <3> QED BY <2>4, <3>1, <3>2, <3>3
  <2>6. ASSUME NEW i \in DOMAIN stack, stack[i].p = "special"
        PROVE  i > 1 /\ stack[i - 1].fn = "dlsym"
    <3>1. i = b + 3
      BY <2>2, <2>6 DEF IInv, Storage
    <3>2. i \in 1 .. n /\ n >= b + 2 /\ i - 1 = b + 2 /\ i > 1
      BY <2>3, <2>6, <3>1
    <3> QED BY <2>4, <3>2
  <2>7. "special" \notin remapped
    BY DEF IInv, Storage
  <2> QED BY <2>5, <2>6, <2>7 DEF SpecialStaysInDlsym
<1> QED BY <1>1, InvariantHolds, PTL

\* No assertion of the proxy fails and no function is called before its address is known, when
\* dune_init allocates.
THEOREM Survives ==
  ASSUME DuneInitAllocates
  PROVE  Spec => []StartupSurvives
<1>1. IInv => StartupSurvives
  BY DEF IInv, Others, StartupSurvives
<1> QED BY <1>1, InvariantHolds, PTL

\* Nothing is remapped before the vmcall hooks are registered, when dune_init allocates.
THEOREM HooksBeforeAliases ==
  ASSUME DuneInitAllocates
  PROVE  Spec => []RemapsAfterHooks
<1>1. IInv => RemapsAfterHooks
  BY DEF IInv, Entered, RemapsAfterHooks
<1> QED BY <1>1, InvariantHolds, PTL
=============================================================================
