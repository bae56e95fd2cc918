-------------------------- MODULE PageTable_proofs --------------------------
(***************************************************************************)
(* Proofs about the page tables, for any number of threads, tables and     *)
(* pages.  There are three invariants.                                     *)
(*                                                                         *)
(* IInv: every frame in use has one level, which an entry that leads to it *)
(* respects.  So the steps without the mutex, which write to tables of the *)
(* lowest level only, disturb no walk; and a step with it replaces an      *)
(* entry where a walk ended, so that walks only get longer.  The state     *)
(* keeps its types, no entry outside a table is ever written, the mutex is *)
(* held by the thread that changes the tree, and walks find tables.        *)
(*                                                                         *)
(* TreeInv: one entry leads to each table, so two pages reach the same     *)
(* entry of the lowest level only if their indices, and so the pages, are  *)
(* the same; a page that shares an entry with others finds it zero.  Every *)
(* page has one owner, the free pages, a region or a call, which tells     *)
(* what the page's entry holds.  From this follow the tree, the assertions *)
(* of the code, what an access to a page finds, the flushes, and that the  *)
(* tables implement the flat address space.                                *)
(*                                                                         *)
(* MemoryLow: pages of dangless lead to memory of the program, not at 0.   *)
(* The listings of dump.c rest on it.                                      *)
(***************************************************************************)
EXTENDS Dump, FiniteSetTheorems, NaturalsInduction, WellFoundedInduction, TLAPS

-----------------------------------------------------------------------------
(* Walks on any tree, so that a tree can be compared with the next one. *)

Trees == [Frames -> [0 .. FanOut - 1 -> Entries]]

EntryIn(T, slot) == T[slot[1]][slot[2]]

GoesDown(T, w) == EntryIn(T, w.slot).kind = "table" /\ w.level > 1

Down(T, page, w) ==
  IF GoesDown(T, w) THEN At(page, EntryIn(T, w.slot).frame, w.level - 1) ELSE w

Start(page) == At(page, Root, Levels)

WalkIn(T, page) == Down(T, page, Down(T, page, Down(T, page, Start(page))))

\* lev gives every frame the level it has in the tree, 0 outside of it.
Levelled(lev, T, P) ==
  /\ lev \in [Frames -> 0 .. Levels]
  /\ lev[Root] = Levels
  /\ \A f \in P : lev[f] = 0
  /\ \A f \in Frames \ P : lev[f] > 0
  /\ \A s \in Slots : lev[s[1]] > 0 /\ EntryIn(T, s).kind = "table" =>
       lev[s[1]] > 1 /\ lev[EntryIn(T, s).frame] = lev[s[1]] - 1

LEMMA FanOutFacts ==
  /\ FanOut \in Nat /\ FanOut >= 2
  /\ FanOut * FanOut \in Nat /\ FanOut * FanOut >= FanOut
  /\ FanOut * FanOut * FanOut \in Nat /\ FanOut * FanOut * FanOut >= FanOut * FanOut
  /\ FanOut * FanOut * FanOut * FanOut \in Nat
  /\ FanOut * FanOut * FanOut * FanOut >= FanOut * FanOut * FanOut
<1>1. FanOut \in Nat /\ FanOut >= 2
  BY TreeAssumption
<1>2. FanOut * FanOut \in Nat /\ FanOut * FanOut >= FanOut
  BY <1>1
<1>3. \A a \in Nat : a * FanOut \in Nat /\ a * FanOut >= a
  BY <1>1
<1> QED BY <1>1, <1>2, <1>3

LEMMA MappedType ==
  ASSUME NEW level \in 1 .. Levels
  PROVE  Mapped(level) \in Nat \ {0}
BY FanOutFacts DEF Mapped, Levels

LEMMA IndexType ==
  ASSUME NEW page \in Pages, NEW level \in 1 .. Levels
  PROVE  Index(page, level) \in 0 .. FanOut - 1
<1>1. Mapped(level) \in Nat /\ Mapped(level) > 0
  BY MappedType
<1>2. page \in Nat
  BY FanOutFacts DEF Pages
<1>3. page \div Mapped(level) \in Nat
  BY <1>1, <1>2
<1>4. \A a \in Nat : a % FanOut \in 0 .. FanOut - 1
  BY FanOutFacts
<1> QED BY <1>3, <1>4 DEF Index

LEMMA TableEntry ==
  ASSUME NEW e \in Entries, e.kind = "table"
  PROVE  e.frame \in Frames
BY DEF Entries, Zero, Marker, Garbage, Table, Page

LEMMA PageEntry ==
  ASSUME NEW e \in Entries, e.kind = "page"
  PROVE  e.page \in Pages
BY DEF Entries, Zero, Marker, Garbage, Table, Page

LEMMA AtType ==
  ASSUME NEW page \in Pages, NEW f \in Frames, NEW level \in 1 .. Levels
  PROVE  At(page, f, level) \in Steps
BY IndexType DEF At, Steps, Slots

LEMMA EntryInType ==
  ASSUME NEW T \in Trees, NEW slot \in Slots
  PROVE  EntryIn(T, slot) \in Entries
BY DEF Trees, Slots, EntryIn

LEMMA StartType ==
  ASSUME NEW page \in Pages
  PROVE  Start(page) \in Steps
<1>1. Root \in Frames /\ Levels \in 1 .. Levels
  BY TreeAssumption DEF Root, Frames, Levels
<1> QED BY <1>1, AtType DEF Start

LEMMA DownType ==
  ASSUME NEW T \in Trees, NEW page \in Pages, NEW w \in Steps
  PROVE  Down(T, page, w) \in Steps
<1>1. w.level \in 1 .. Levels /\ w.slot \in Slots
  BY DEF Steps
<1>2. CASE GoesDown(T, w)
  <2>1. EntryIn(T, w.slot).frame \in Frames
    BY <1>1, <1>2, EntryInType, TableEntry DEF GoesDown
  <2>2. w.level - 1 \in 1 .. Levels
    BY <1>1, <1>2 DEF Levels, GoesDown
  <2> QED BY <1>2, <2>1, <2>2, AtType DEF Down
<1>3. CASE ~GoesDown(T, w)
  BY <1>3 DEF Down
<1> QED BY <1>2, <1>3

\* pt_walk, as the model writes it, is the walk on the tree.
LEMMA WalkIsWalkIn ==
  ASSUME NEW T \in Trees, NEW page \in Pages
  PROVE  LET down == [w \in Steps |->
                        IF T[w.slot[1]][w.slot[2]].kind = "table" /\ w.level > 1
                        THEN At(page, T[w.slot[1]][w.slot[2]].frame, w.level - 1)
                        ELSE w]
         IN  down[down[down[At(page, Root, Levels)]]] = WalkIn(T, page)
<1> DEFINE down == [w \in Steps |->
                      IF T[w.slot[1]][w.slot[2]].kind = "table" /\ w.level > 1
                      THEN At(page, T[w.slot[1]][w.slot[2]].frame, w.level - 1)
                      ELSE w]
<1>1. \A w \in Steps : down[w] = Down(T, page, w)
  BY DEF Down, GoesDown, EntryIn
<1> HIDE DEF down
<1>2. Start(page) \in Steps /\ \A w \in Steps : Down(T, page, w) \in Steps
  BY StartType, DownType
<1>3. down[down[down[Start(page)]]] = WalkIn(T, page)
  BY <1>1, <1>2 DEF WalkIn
<1> QED BY <1>3 DEF Start, down

LEMMA WalkNow ==
  ASSUME table \in Trees, NEW page \in Pages
  PROVE  Walk(page, 1) = WalkIn(table, page)
BY WalkIsWalkIn DEF Walk, Entry

LEMMA WalkNext ==
  ASSUME table' \in Trees, NEW page \in Pages
  PROVE  Walk(page, 1)' = WalkIn(table', page)
BY WalkIsWalkIn DEF Walk, Entry

\* Where a walk for the page may be, in a tree with these levels.
OnPath(lev, page, w) ==
  /\ w \in Steps
  /\ lev[w.slot[1]] = w.level
  /\ w.slot[2] = Index(page, w.level)

LEMMA StartOnPath ==
  ASSUME NEW T, NEW P, NEW lev, Levelled(lev, T, P), NEW page \in Pages
  PROVE  OnPath(lev, page, Start(page)) /\ Start(page).level = Levels
<1>1. Start(page).level = Levels /\ Start(page).slot = <<Root, Index(page, Levels)>>
  BY DEF Start, At
<1> QED BY <1>1, StartType DEF OnPath, Levelled

LEMMA DownOnPath ==
  ASSUME NEW T \in Trees, NEW P, NEW lev, Levelled(lev, T, P), NEW page \in Pages,
         NEW w, OnPath(lev, page, w)
  PROVE  /\ OnPath(lev, page, Down(T, page, w))
         /\ GoesDown(T, w) => Down(T, page, w).level = w.level - 1
         /\ ~GoesDown(T, w) => Down(T, page, w) = w
<1>1. w \in Steps /\ w.level \in 1 .. Levels /\ w.slot \in Slots
  BY DEF OnPath, Steps
<1>2. Down(T, page, w) \in Steps
  BY <1>1, DownType
<1>3. CASE GoesDown(T, w)
  <2> DEFINE f == EntryIn(T, w.slot).frame
  <2>1. lev[f] = lev[w.slot[1]] - 1
    BY <1>1, <1>3 DEF Levelled, GoesDown, OnPath, Levels
  <2>2. Down(T, page, w) = At(page, f, w.level - 1)
    BY <1>3 DEF Down
  <2>3. /\ Down(T, page, w).level = w.level - 1
        /\ Down(T, page, w).slot = <<f, Index(page, w.level - 1)>>
    BY <2>2 DEF At
  <2> QED BY <1>2, <1>3, <2>1, <2>3 DEF OnPath
<1>4. CASE ~GoesDown(T, w)
  BY <1>4 DEF Down
<1> QED BY <1>3, <1>4

\* A walk ends at an entry that is no table, or at the lowest level.
LEMMA WalkOnPath ==
  ASSUME NEW T \in Trees, NEW P, NEW lev, Levelled(lev, T, P), NEW page \in Pages
  PROVE  OnPath(lev, page, WalkIn(T, page)) /\ ~GoesDown(T, WalkIn(T, page))
<1> DEFINE w0 == Start(page)
           w1 == Down(T, page, w0)
           w2 == Down(T, page, w1)
           w3 == Down(T, page, w2)
<1>1. OnPath(lev, page, w0) /\ w0.level = Levels
  BY StartOnPath
<1>2. /\ OnPath(lev, page, w1)
      /\ GoesDown(T, w0) => w1.level = w0.level - 1
      /\ ~GoesDown(T, w0) => w1 = w0
  BY <1>1, DownOnPath
<1>3. /\ OnPath(lev, page, w2)
      /\ GoesDown(T, w1) => w2.level = w1.level - 1
      /\ ~GoesDown(T, w1) => w2 = w1
  BY <1>2, DownOnPath
<1>4. /\ OnPath(lev, page, w3)
      /\ GoesDown(T, w2) => w3.level = w2.level - 1
      /\ ~GoesDown(T, w2) => w3 = w2
  BY <1>3, DownOnPath
<1>5. WalkIn(T, page) = w3
  BY DEF WalkIn
<1> HIDE DEF w0, w1, w2, w3
<1>6. ~GoesDown(T, w3)
  BY <1>1, <1>2, <1>3, <1>4 DEF GoesDown, Levels
<1> QED BY <1>4, <1>5, <1>6

\* A walk reads entries above the lowest level only.
LEMMA WalkUndisturbed ==
  ASSUME NEW T \in Trees, NEW U \in Trees, NEW P, NEW lev, Levelled(lev, T, P),
         NEW page \in Pages,
         \A s \in Slots : lev[s[1]] > 1 => EntryIn(U, s) = EntryIn(T, s)
  PROVE  WalkIn(U, page) = WalkIn(T, page)
<1>1. ASSUME NEW w, OnPath(lev, page, w)
      PROVE  Down(U, page, w) = Down(T, page, w)
  <2>1. w.slot \in Slots /\ lev[w.slot[1]] = w.level
    BY <1>1 DEF OnPath, Steps
  <2> QED BY <2>1 DEF Down, GoesDown
<1>2. /\ OnPath(lev, page, Start(page))
      /\ \A w : OnPath(lev, page, w) => OnPath(lev, page, Down(T, page, w))
  BY StartOnPath, DownOnPath
<1> QED BY <1>1, <1>2 DEF WalkIn

\* A tree that keeps every link keeps the walks that reach the lowest level, and
\* one more table takes the walks that ended at its link one level down.
LEMMA WalkExtended ==
  ASSUME NEW T \in Trees, NEW U \in Trees, NEW P, NEW lev, Levelled(lev, T, P),
         NEW page \in Pages,
         \A s \in Slots : lev[s[1]] > 0 /\ EntryIn(T, s).kind = "table" =>
           EntryIn(U, s) = EntryIn(T, s)
  PROVE  /\ WalkIn(T, page).level = 1 => WalkIn(U, page) = WalkIn(T, page)
         /\ \A f \in Frames :
              LET end == WalkIn(T, page)
                  next == At(page, f, end.level - 1)
              IN  /\ end.level > 1
                  /\ EntryIn(U, end.slot) = Table(f)
                  /\ EntryIn(U, next.slot).kind # "table"
                  => WalkIn(U, page) = next
<1> DEFINE w0 == Start(page)
           w1 == Down(T, page, w0)
           w2 == Down(T, page, w1)
           w3 == Down(T, page, w2)
<1>1. OnPath(lev, page, w0) /\ w0.level = Levels
  BY StartOnPath
<1>2. /\ OnPath(lev, page, w1)
      /\ GoesDown(T, w0) => w1.level = w0.level - 1
      /\ ~GoesDown(T, w0) => w1 = w0
  BY <1>1, DownOnPath
<1>3. /\ OnPath(lev, page, w2)
      /\ GoesDown(T, w1) => w2.level = w1.level - 1
      /\ ~GoesDown(T, w1) => w2 = w1
  BY <1>2, DownOnPath
<1>4. /\ OnPath(lev, page, w3)
      /\ GoesDown(T, w2) => w3.level = w2.level - 1
      /\ ~GoesDown(T, w2) => w3 = w2
  BY <1>3, DownOnPath
<1>5. ASSUME NEW w, OnPath(lev, page, w), GoesDown(T, w)
      PROVE  Down(U, page, w) = Down(T, page, w)
  <2>1. w.slot \in Slots /\ lev[w.slot[1]] = w.level /\ w.level \in 1 .. Levels
    BY <1>5 DEF OnPath, Steps
  <2>2. EntryIn(U, w.slot) = EntryIn(T, w.slot)
    BY <1>5, <2>1 DEF GoesDown, Levels
  <2> QED BY <2>2 DEF Down, GoesDown
<1>6. WalkIn(T, page) = w3
  BY DEF WalkIn
<1>7. /\ GoesDown(T, w0) => Down(U, page, w0) = w1
      /\ GoesDown(T, w1) => Down(U, page, w1) = w2
      /\ GoesDown(T, w2) => Down(U, page, w2) = w3
  BY <1>1, <1>2, <1>3, <1>5
<1>8. WalkIn(U, page) = Down(U, page, Down(U, page, Down(U, page, w0)))
  BY DEF WalkIn
<1> HIDE DEF w0, w1, w2, w3
<1>9. ASSUME w3.level = 1
      PROVE  WalkIn(U, page) = w3
  <2>1. GoesDown(T, w0) /\ GoesDown(T, w1) /\ GoesDown(T, w2)
    BY <1>1, <1>2, <1>3, <1>4, <1>9 DEF Levels
  <2> QED BY <1>7, <1>8, <2>1
<1>10. ASSUME NEW f \in Frames, w3.level > 1, EntryIn(U, w3.slot) = Table(f),
              EntryIn(U, At(page, f, w3.level - 1).slot).kind # "table"
       PROVE  WalkIn(U, page) = At(page, f, w3.level - 1)
  <2> DEFINE next == At(page, f, w3.level - 1)
  <2>1. Down(U, page, w3) = next
    BY <1>10 DEF Down, GoesDown, Table
  <2>2. Down(U, page, next) = next
    BY <1>10 DEF Down, GoesDown
  <2> HIDE DEF next
  <2>3. \/ w3 = w0
        \/ GoesDown(T, w0) /\ w3 = w1
        \/ GoesDown(T, w0) /\ GoesDown(T, w1) /\ w3 = w2
    BY <1>1, <1>2, <1>3, <1>4, <1>10 DEF Levels
  <2>4. CASE w3 = w0
    BY <1>8, <2>1, <2>2, <2>4 DEF next
  <2>5. CASE GoesDown(T, w0) /\ w3 = w1
    BY <1>7, <1>8, <2>1, <2>2, <2>5 DEF next
  <2>6. CASE GoesDown(T, w0) /\ GoesDown(T, w1) /\ w3 = w2
    BY <1>7, <1>8, <2>1, <2>2, <2>6 DEF next
  <2> QED BY <2>3, <2>4, <2>5, <2>6
<1> QED BY <1>6, <1>9, <1>10

\* Writing anything but a link keeps the levels.
LEMMA LevelledAfterWrite ==
  ASSUME NEW T \in Trees, NEW U \in Trees, NEW P, NEW lev, Levelled(lev, T, P),
         \A s \in Slots : EntryIn(U, s) = EntryIn(T, s) \/ EntryIn(U, s).kind # "table"
  PROVE  Levelled(lev, U, P)
BY DEF Levelled

\* So does a link to a new table, which is given the next lower level.
LEMMA LevelledAfterLink ==
  ASSUME NEW T \in Trees, NEW U \in Trees, NEW P \in SUBSET Frames,
         NEW lev, Levelled(lev, T, P),
         NEW f \in Frames, f \in P, NEW slot \in Slots, lev[slot[1]] > 1,
         EntryIn(U, slot) = Table(f),
         \A s \in Slots \ {slot} : s[1] # f => EntryIn(U, s) = EntryIn(T, s),
         \A s \in Slots : s[1] = f => EntryIn(U, s).kind # "table"
  PROVE  Levelled([lev EXCEPT ![f] = lev[slot[1]] - 1], U, P \ {f})
<1> DEFINE low == [lev EXCEPT ![f] = lev[slot[1]] - 1]
<1>1. /\ lev \in [Frames -> 0 .. Levels] /\ lev[Root] = Levels /\ lev[f] = 0
      /\ slot[1] \in Frames
  BY DEF Levelled, Slots
<1>2. low \in [Frames -> 0 .. Levels] /\ low[f] = lev[slot[1]] - 1
  BY <1>1 DEF Levels
<1>3. \A g \in Frames \ {f} : low[g] = lev[g]
  BY <1>1
<1>4. f # Root /\ f # slot[1]
  BY <1>1 DEF Levels
<1> HIDE DEF low
<1>5. /\ low[Root] = Levels /\ \A g \in P \ {f} : low[g] = 0
      /\ \A g \in Frames \ (P \ {f}) : low[g] > 0
  <2>1. Root \in Frames
    BY TreeAssumption DEF Root, Frames
  <2>2. low[Root] = Levels /\ \A g \in P \ {f} : low[g] = 0
    BY <1>1, <1>3, <1>4, <2>1 DEF Levelled
  <2>3. low[f] > 0
    BY <1>1, <1>2 DEF Levels
  <2>4. \A g \in Frames \ (P \ {f}) : low[g] > 0
    BY <1>3, <2>3 DEF Levelled
  <2> QED BY <2>2, <2>4
<1>6. ASSUME NEW s \in Slots, low[s[1]] > 0, EntryIn(U, s).kind = "table"
      PROVE  low[s[1]] > 1 /\ low[EntryIn(U, s).frame] = low[s[1]] - 1
  <2>1. s[1] \in Frames /\ s[1] # f /\ low[s[1]] = lev[s[1]]
    BY <1>3, <1>6 DEF Slots
  <2>2. CASE s = slot
    BY <1>2, <2>1, <2>2 DEF Table
  <2>3. CASE s # slot
    <3>1. EntryIn(U, s) = EntryIn(T, s) /\ EntryIn(T, s).frame \in Frames
      BY <1>6, <2>1, <2>3, EntryInType, TableEntry
    <3>2. lev[s[1]] > 1 /\ lev[EntryIn(T, s).frame] = lev[s[1]] - 1
      BY <1>6, <2>1, <3>1 DEF Levelled
    <3>3. EntryIn(T, s).frame # f
      BY <1>1, <2>1, <3>2
    <3> QED BY <1>3, <2>1, <3>1, <3>2, <3>3
  <2> QED BY <2>2, <2>3
<1> QED BY <1>2, <1>5, <1>6 DEF Levelled, low

-----------------------------------------------------------------------------
(* The first invariant. *)

RunIn(start, n, set) == \A k \in 0 .. n - 1 : start + k \in set

\* The pages that have an entry of their own, in a table of the lowest level.
Deep(T) == {p \in RemapPages : WalkIn(T, p).level = 1}

\* The region a call is about lies in the pages of dangless, and the loops stay
\* inside it.  Mapping leaves pages with entries of their own behind, and at each
\* level is where a walk for its page would end.  Invalidating has only such
\* pages before it, and a run of entries ends where its table does.
InRange(o, T) ==
  /\ o.i <= o.n
  /\ RunIn(o.start, o.n, RemapPages)
  /\ o.pc \in {"map", "level"} =>
       /\ o.n \in 1 .. Cardinality(RemapPages) /\ o.pa \in PhysStarts
       /\ RunIn(o.start, o.i, Deep(T))
  /\ o.pc = "level" =>
       o.i < o.n /\ WalkIn(T, o.start + o.i) = [level |-> o.level, slot |-> o.slot]
  /\ o.pc = "unmap" => RunIn(o.start, o.end, RemapPages)
  /\ o.pc \in {"walk", "invalidate"} => RunIn(o.start, o.n, Deep(T))
  /\ o.pc = "invalidate" =>
       o.i < o.end /\ o.end <= o.n /\ o.slot[2] + (o.end - o.i) <= FanOut

RegionsDeep(T) == \A r \in mapped : RunIn(r.start, r.n, Deep(T))

\* The types of all but the calls.
StoreTypeOK ==
  /\ table \in Trees
  /\ pool \subseteq PoolFrames
  /\ lock \in Threads \cup {NoThread}
  /\ tlb \in [Threads -> SUBSET (Pages \X Nat)]
  /\ fresh \subseteq RemapPages
  /\ mapped \subseteq [start : RemapPages, n : Nat, pa : Pages]

\* The levels of the frames, and the runs that are being invalidated.
TreeLevels(lev) ==
  /\ Levelled(lev, table, pool)
  /\ \A t \in Threads : op[t].pc = "invalidate" => lev[op[t].slot[1]] = 1

IInv ==
  /\ TypeOK /\ MutexReleased /\ RegionsDeep(table)
  /\ \A t \in Threads : InRange(op[t], table)
  /\ \E lev : TreeLevels(lev)

LEMMA TypeParts == TypeOK <=> StoreTypeOK /\ op \in [Threads -> CallStates]
BY DEF TypeOK, StoreTypeOK, Trees

\* What IInv says of a thread.
LEMMA CallFacts ==
  ASSUME IInv, NEW t \in Threads
  PROVE  /\ op[t] \in CallStates /\ InRange(op[t], table)
         /\ lock = t <=> op[t].pc = "level"
         /\ StoreTypeOK /\ RegionsDeep(table)
         /\ Cardinality(RemapPages) \in Nat
<1>1. Cardinality(RemapPages) \in Nat
  BY TreeAssumption, FS_CardinalityType
<1> QED BY <1>1, TypeParts DEF IInv, MutexReleased

LEMMA PageInRange ==
  ASSUME IInv, NEW t \in Threads, op[t].i < op[t].n
  PROVE  Current(t) \in RemapPages /\ Current(t) \in Pages
<1>1. op[t].i \in 0 .. op[t].n - 1
  BY CallFacts DEF CallStates
<1> QED BY <1>1, CallFacts, TreeAssumption DEF InRange, RunIn, Current

LEMMA InRangeKept ==
  ASSUME NEW T, NEW U, NEW o \in CallStates, InRange(o, T), Deep(T) \subseteq Deep(U),
         o.pc = "level" => WalkIn(U, o.start + o.i) = WalkIn(T, o.start + o.i)
  PROVE  InRange(o, U)
<1>1. \A n : RunIn(o.start, n, Deep(T)) => RunIn(o.start, n, Deep(U))
  BY DEF RunIn
<1> QED BY <1>1 DEF InRange

\* A step moves one thread and leaves the others where they were.
LEMMA StepInv ==
  ASSUME IInv, NEW t \in Threads, NEW o \in CallStates, Moves(t, o),
         InRange(o, table'), StoreTypeOK',
         \A r \in mapped' : RunIn(r.start, r.n, Deep(table')),
         Deep(table) \subseteq Deep(table'),
         \A u \in Threads \ {t} : op[u].pc = "level" =>
           WalkIn(table', op[u].start + op[u].i) = WalkIn(table, op[u].start + op[u].i),
         NEW lev, Levelled(lev, table', pool'),
         o.pc = "invalidate" => lev[o.slot[1]] = 1,
         \A u \in Threads \ {t} : op[u].pc = "invalidate" => lev[op[u].slot[1]] = 1,
         \A u \in Threads : lock' = u <=> IF u = t THEN o.pc = "level" ELSE lock = u
  PROVE  IInv'
<1>1. op \in [Threads -> CallStates]
  BY DEF IInv, TypeOK
<1>2. /\ op' \in [Threads -> CallStates]
      /\ op'[t] = o
      /\ \A u \in Threads \ {t} : op'[u] = op[u]
  BY <1>1 DEF Moves
<1>3. ASSUME NEW u \in Threads
      PROVE  InRange(op'[u], table')
  <2>1. CASE u = t
    BY <1>2, <2>1
  <2>2. CASE u # t
    <3>1. op[u] \in CallStates /\ InRange(op[u], table)
      BY CallFacts
    <3>2. InRange(op[u], table')
      BY <2>2, <3>1, InRangeKept
    <3> QED BY <1>2, <2>2, <3>2
  <2> QED BY <2>1, <2>2
<1>4. MutexReleased'
  BY <1>2 DEF IInv, MutexReleased
<1>5. TypeOK'
  BY <1>2 DEF TypeOK, StoreTypeOK, Trees
<1>6. TreeLevels(lev)'
  BY <1>2 DEF TreeLevels
<1>7. RegionsDeep(table)'
  BY DEF RegionsDeep
<1> QED BY <1>3, <1>4, <1>5, <1>6, <1>7 DEF IInv

LEMMA CallPageType ==
  ASSUME NEW T, NEW o \in CallStates, InRange(o, T), o.i < o.n
  PROVE  o.start + o.i \in RemapPages /\ o.start + o.i \in Pages
<1>1. o.i \in 0 .. o.n - 1
  BY DEF CallStates
<1> QED BY <1>1, TreeAssumption DEF InRange, RunIn

\* A step that disturbs no walk.
LEMMA StepKeepsWalks ==
  ASSUME IInv, NEW t \in Threads, NEW o \in CallStates, Moves(t, o),
         InRange(o, table), StoreTypeOK',
         \A r \in mapped' : RunIn(r.start, r.n, Deep(table)),
         \A p \in Pages : WalkIn(table', p) = WalkIn(table, p),
         NEW lev, TreeLevels(lev), Levelled(lev, table', pool'),
         o.pc = "invalidate" => lev[o.slot[1]] = 1,
         \A u \in Threads : lock' = u <=> IF u = t THEN o.pc = "level" ELSE lock = u
  PROVE  IInv'
<1>1. Deep(table') = Deep(table)
  BY TreeAssumption DEF Deep
<1>2. InRange(o, table')
  <2>1. o.pc = "level" => WalkIn(table', o.start + o.i) = WalkIn(table, o.start + o.i)
    <3>1. o.pc = "level" => o.start + o.i \in Pages
      BY CallPageType DEF InRange
    <3> QED BY <3>1
  <2> QED BY <1>1, <2>1, InRangeKept
<1>3. ASSUME NEW u \in Threads \ {t}, op[u].pc = "level"
      PROVE  WalkIn(table', op[u].start + op[u].i) = WalkIn(table, op[u].start + op[u].i)
  <2>1. op[u] \in CallStates /\ InRange(op[u], table)
    BY CallFacts
  <2>2. op[u].start + op[u].i \in Pages
    BY <1>3, <2>1, CallPageType DEF InRange
  <2> QED BY <2>2
<1>4. \A u \in Threads \ {t} : op[u].pc = "invalidate" => lev[op[u].slot[1]] = 1
  BY DEF TreeLevels
<1> QED BY <1>1, <1>2, <1>3, <1>4, StepInv

\* A step that leaves the tree alone.
LEMMA StepKeepsTree ==
  ASSUME IInv, NEW t \in Threads, NEW o \in CallStates, Moves(t, o),
         table' = table, pool' = pool,
         InRange(o, table), StoreTypeOK', o.pc # "invalidate",
         \A r \in mapped' : RunIn(r.start, r.n, Deep(table)),
         \A u \in Threads : lock' = u <=> IF u = t THEN o.pc = "level" ELSE lock = u
  PROVE  IInv'
<1>1. PICK lev : TreeLevels(lev)
  BY DEF IInv
<1>2. Levelled(lev, table', pool') /\ \A p \in Pages : WalkIn(table', p) = WalkIn(table, p)
  BY <1>1 DEF TreeLevels
<1> QED BY <1>1, <1>2, StepKeepsWalks

\* What a write of one entry changes, and what a new table does.
LEMMA SetEntry ==
  ASSUME table \in Trees, NEW slot \in Slots, NEW e, Set(slot, e)
  PROVE  \A s \in Slots :
           EntryIn(table', s) = IF s = slot THEN e ELSE EntryIn(table, s)
<1>1. slot[1] \in Frames /\ slot[2] \in 0 .. FanOut - 1 /\ slot = <<slot[1], slot[2]>>
  BY DEF Slots
<1>2. ASSUME NEW s \in Slots
      PROVE  EntryIn(table', s) = IF s = slot THEN e ELSE EntryIn(table, s)
  <2>1. s[1] \in Frames /\ s[2] \in 0 .. FanOut - 1 /\ s = <<s[1], s[2]>>
    BY DEF Slots
  <2>2. s = slot <=> s[1] = slot[1] /\ s[2] = slot[2]
    BY <1>1, <2>1
  <2>3. table'[s[1]][s[2]] =
          IF s[1] = slot[1] /\ s[2] = slot[2] THEN e ELSE table[s[1]][s[2]]
    BY <1>1, <2>1 DEF Trees, Set
  <2> QED BY <2>2, <2>3 DEF EntryIn
<1> QED BY <1>2

LEMMA LinkEntry ==
  ASSUME table \in Trees, NEW slot \in Slots, NEW f \in Frames, f # slot[1],
         table' = [table EXCEPT ![f] = [i \in 0 .. FanOut - 1 |-> Zero],
                                ![slot[1]][slot[2]] = Table(f)]
  PROVE  \A s \in Slots :
           EntryIn(table', s) = IF s = slot THEN Table(f)
                                ELSE IF s[1] = f THEN Zero ELSE EntryIn(table, s)
<1>1. slot[1] \in Frames /\ slot[2] \in 0 .. FanOut - 1 /\ slot = <<slot[1], slot[2]>>
  BY DEF Slots
<1>2. ASSUME NEW s \in Slots
      PROVE  EntryIn(table', s) = IF s = slot THEN Table(f)
                                  ELSE IF s[1] = f THEN Zero ELSE EntryIn(table, s)
  <2>1. s[1] \in Frames /\ s[2] \in 0 .. FanOut - 1 /\ s = <<s[1], s[2]>>
    BY DEF Slots
  <2>2. s = slot <=> s[1] = slot[1] /\ s[2] = slot[2]
    BY <1>1, <2>1
  <2>3. table'[s[1]][s[2]] =
          IF s[1] = slot[1] /\ s[2] = slot[2] THEN Table(f)
          ELSE IF s[1] = f THEN Zero ELSE table[s[1]][s[2]]
    BY <1>1, <2>1 DEF Trees
  <2> QED BY <2>2, <2>3 DEF EntryIn
<1> QED BY <1>2

\* What the steps without the mutex write: no link, and to the lowest level.
LEMMA LeafWrite ==
  ASSUME table \in Trees, NEW lev, Levelled(lev, table, pool),
         NEW slot \in Slots, lev[slot[1]] = 1,
         NEW e \in Entries, e.kind # "table", Set(slot, e), pool' = pool
  PROVE  /\ table' \in Trees
         /\ Levelled(lev, table', pool')
         /\ \A p \in Pages : WalkIn(table', p) = WalkIn(table, p)
<1>1. slot[1] \in Frames /\ slot[2] \in 0 .. FanOut - 1 /\ slot = <<slot[1], slot[2]>>
  BY DEF Slots
<1>2. table' \in Trees
  BY <1>1 DEF Trees, Set
<1>3. \A s \in Slots : EntryIn(table', s) = IF s = slot THEN e ELSE EntryIn(table, s)
  BY SetEntry
<1>4. Levelled(lev, table', pool')
  BY <1>2, <1>3, LevelledAfterWrite
<1>5. ASSUME NEW p \in Pages
      PROVE  WalkIn(table', p) = WalkIn(table, p)
  <2>1. \A s \in Slots : lev[s[1]] > 1 => EntryIn(table', s) = EntryIn(table, s)
    BY <1>3
  <2> QED BY <1>2, <2>1, WalkUndisturbed
<1> QED BY <1>2, <1>4, <1>5

LEMMA EntryKinds ==
  /\ Zero \in Entries /\ Zero.kind # "table"
  /\ Marker \in Entries /\ Marker.kind # "table"
  /\ \A p \in Pages : Page(p) \in Entries /\ Page(p).kind # "table"
BY DEF Entries, Zero, Marker, Page

LEMMA NoSlotType == NoSlot \in Slots /\ Levels \in 1 .. Levels
<1>1. 0 \in Frames /\ 0 \in 0 .. FanOut - 1
  BY FanOutFacts, TreeAssumption DEF Frames
<1> QED BY <1>1 DEF NoSlot, Slots, Root, Levels

LEMMA IdleState ==
  /\ Idle \in CallStates
  /\ Idle.pc = "idle" /\ Idle.i = 0 /\ Idle.n = 0 /\ Idle.start = 0 /\ Idle.end = 0
<1>1. 0 \in Pages
  BY FanOutFacts DEF Pages
<1> QED BY <1>1, NoSlotType DEF Idle, CallStates

\* A call that has returned is in range.
LEMMA IdleInRange == Idle.pc \notin {"level", "invalidate"} /\ InRange(Idle, table)
BY IdleState DEF InRange, RunIn

LEMMA FlushType ==
  ASSUME tlb \in [Threads -> SUBSET (Pages \X Nat)],
         NEW t \in Threads, NEW page, Flush(t, page)
  PROVE  tlb' \in [Threads -> SUBSET (Pages \X Nat)]
BY DEF Flush

-----------------------------------------------------------------------------
(* pt_map_region. *)

LEMMA MapRegionInv ==
  ASSUME IInv, NEW t \in Threads, NEW start \in RemapPages,
         NEW n \in 1 .. Cardinality(RemapPages), NEW pa \in PhysStarts,
         MapRegion(t, start, n, pa)
  PROVE  IInv'
<1> DEFINE o == [Idle EXCEPT !.pc = "map", !.start = start, !.n = n, !.pa = pa]
<1>1. Cardinality(RemapPages) \in Nat /\ n \in Nat /\ start \in Pages /\ pa \in Pages
  BY CallFacts, TreeAssumption, FanOutFacts DEF Pages
<1>2. /\ o \in CallStates
      /\ o.pc = "map" /\ o.start = start /\ o.n = n /\ o.pa = pa /\ o.i = 0
  <2>1. Idle \in CallStates /\ Idle.i = 0
    BY IdleState
  <2>2. o \in CallStates
    BY <1>1, <2>1 DEF CallStates
  <2>3. o.pc = "map" /\ o.start = start /\ o.n = n /\ o.pa = pa /\ o.i = 0
    BY <1>1, <2>1 DEF CallStates
  <2> QED BY <2>2, <2>3
<1>3. Moves(t, o)
  BY DEF MapRegion
<1> HIDE DEF o
<1>4. RunIn(start, n, RemapPages)
  <2>1. start .. start + n - 1 \subseteq RemapPages
    BY DEF MapRegion, RegionPages, Region, IInv, TypeOK
  <2> QED BY <1>1, <2>1 DEF RunIn, Pages
<1>5. InRange(o, table)
  BY <1>1, <1>2, <1>4 DEF InRange, RunIn
<1>6. StoreTypeOK' /\ \A r \in mapped' : RunIn(r.start, r.n, Deep(table))
  BY CallFacts DEF MapRegion, StoreTypeOK, RegionsDeep
<1>7. lock' = lock /\ lock # t
  BY IdleState, CallFacts DEF MapRegion
<1>8. table' = table /\ pool' = pool
  BY DEF MapRegion
<1> QED BY <1>2, <1>3, <1>5, <1>6, <1>7, <1>8, StepKeepsTree

LEMMA LockAndWalkInv ==
  ASSUME IInv, NEW t \in Threads, LockAndWalk(t)
  PROVE  IInv'
<1> DEFINE w == Walk(Current(t), 1)
           o == [op[t] EXCEPT !.pc = "level", !.level = w.level, !.slot = w.slot]
<1>1. /\ op[t] \in CallStates /\ InRange(op[t], table)
      /\ op[t].pc = "map" /\ op[t].i < op[t].n
  BY CallFacts DEF LockAndWalk
<1>2. w \in Steps /\ w = WalkIn(table, Current(t))
  <2>1. Current(t) \in Pages /\ table \in Trees
    BY <1>1, PageInRange, CallFacts DEF StoreTypeOK
  <2>2. PICK lev : Levelled(lev, table, pool)
    BY DEF IInv, TreeLevels
  <2> QED BY <2>1, <2>2, WalkNow, WalkOnPath DEF OnPath
<1>3. Moves(t, o)
  BY DEF LockAndWalk
<1> HIDE DEF w
<1>4. /\ o \in CallStates /\ o.pc = "level" /\ o.start = op[t].start
      /\ o.n = op[t].n /\ o.pa = op[t].pa /\ o.i = op[t].i
      /\ o.level = w.level /\ o.slot = w.slot
  BY <1>1, <1>2 DEF CallStates, Steps
<1> HIDE DEF o
<1>5. InRange(o, table)
  <2>1. w = [level |-> w.level, slot |-> w.slot]
    BY <1>2 DEF Steps
  <2>2. WalkIn(table, o.start + o.i) = [level |-> o.level, slot |-> o.slot]
    BY <1>2, <1>4, <2>1 DEF Current
  <2> QED BY <1>1, <1>4, <2>2 DEF InRange
<1>6. StoreTypeOK' /\ \A r \in mapped' : RunIn(r.start, r.n, Deep(table))
  BY CallFacts DEF LockAndWalk, StoreTypeOK, RegionsDeep
<1>7. lock' = t /\ \A u \in Threads : lock # u
  BY TreeAssumption DEF LockAndWalk
<1>8. table' = table /\ pool' = pool
  BY DEF LockAndWalk
<1> QED BY <1>3, <1>4, <1>5, <1>6, <1>7, <1>8, StepKeepsTree

\* Where pt_map_page is, a new table or an entry may be written: the entry is no
\* table, and its frame has the level of the walk.
LEMMA AtLevel ==
  ASSUME IInv, NEW t \in Threads, op[t].pc = "level",
         NEW lev, Levelled(lev, table, pool)
  PROVE  /\ op[t].slot \in Slots /\ op[t].level \in 1 .. Levels
         /\ Current(t) \in Pages
         /\ WalkIn(table, Current(t)) = [level |-> op[t].level, slot |-> op[t].slot]
         /\ lev[op[t].slot[1]] = op[t].level
         /\ EntryIn(table, op[t].slot).kind # "table"
<1> DEFINE w == WalkIn(table, Current(t))
<1>1. op[t] \in CallStates /\ InRange(op[t], table) /\ table \in Trees
  BY CallFacts DEF StoreTypeOK
<1>2. op[t].slot \in Slots /\ op[t].level \in 1 .. Levels
  BY <1>1 DEF CallStates
<1>3. Current(t) \in Pages
  BY <1>1, PageInRange DEF InRange
<1>4. w = [level |-> op[t].level, slot |-> op[t].slot]
  BY <1>1 DEF InRange, Current
<1>5. OnPath(lev, Current(t), w) /\ ~GoesDown(table, w)
  BY <1>1, <1>3, WalkOnPath
<1> HIDE DEF w
<1>6. lev[op[t].slot[1]] = op[t].level
  BY <1>4, <1>5 DEF OnPath
<1>7. EntryIn(table, op[t].slot).kind # "table"
  <2>1. CASE op[t].level > 1
    BY <1>4, <1>5, <2>1 DEF GoesDown
  <2>2. CASE ~(op[t].level > 1)
    BY <1>2, <1>6, <2>2 DEF Levelled, Levels
  <2> QED BY <2>1, <2>2
<1> QED BY <1>2, <1>3, <1>4, <1>6, <1>7 DEF w

LEMMA CreateLevelInv ==
  ASSUME IInv, NEW t \in Threads, CreateLevel(t)
  PROVE  IInv'
<1>1. PICK f \in pool :
        /\ pool' = pool \ {f}
        /\ table' = [table EXCEPT ![f] = [i \in 0 .. FanOut - 1 |-> Zero],
                                  ![op[t].slot[1]][op[t].slot[2]] = Table(f)]
        /\ Moves(t, [op[t] EXCEPT !.level = @ - 1,
                       !.slot = <<f, Index(Current(t), op[t].level - 1)>>])
  BY DEF CreateLevel
<1>2. PICK lev : TreeLevels(lev)
  BY DEF IInv
<1> DEFINE slot == op[t].slot
           next == At(Current(t), f, op[t].level - 1)
           o == [op[t] EXCEPT !.level = @ - 1,
                    !.slot = <<f, Index(Current(t), op[t].level - 1)>>]
           low == [lev EXCEPT ![f] = lev[slot[1]] - 1]
<1>3. /\ op[t] \in CallStates /\ InRange(op[t], table)
      /\ op[t].pc = "level" /\ op[t].level > 1 /\ lock = t
  BY CallFacts DEF CreateLevel
<1>4. /\ slot \in Slots /\ op[t].level \in 1 .. Levels /\ Current(t) \in Pages
      /\ WalkIn(table, Current(t)) = [level |-> op[t].level, slot |-> slot]
      /\ lev[slot[1]] = op[t].level /\ EntryIn(table, slot).kind # "table"
  BY <1>2, <1>3, AtLevel DEF TreeLevels
<1>5. table \in Trees /\ pool \in SUBSET Frames /\ f \in Frames
  <2>1. table \in Trees /\ pool \subseteq PoolFrames
    BY CallFacts DEF StoreTypeOK
  <2> QED BY <2>1, TreeAssumption DEF PoolFrames, Frames
<1>6. Levelled(lev, table, pool) /\ lev[f] = 0 /\ f # slot[1]
  BY <1>2, <1>3, <1>4 DEF TreeLevels, Levelled
<1>7. /\ next \in Steps /\ next.level = op[t].level - 1
      /\ next.slot = <<f, Index(Current(t), op[t].level - 1)>>
  <2>1. op[t].level - 1 \in 1 .. Levels
    BY <1>3, <1>4 DEF Levels
  <2> QED BY <1>4, <1>5, <2>1, AtType DEF At
<1> HIDE DEF next
<1>8. /\ o \in CallStates /\ o.pc = "level" /\ o.start = op[t].start
      /\ o.n = op[t].n /\ o.pa = op[t].pa /\ o.i = op[t].i
      /\ o.level = next.level /\ o.slot = next.slot
  <2>1. next.level \in 1 .. Levels /\ next.slot \in Slots
    BY <1>7 DEF Steps
  <2> QED BY <1>3, <1>7, <2>1 DEF CallStates
<1>9. Moves(t, o)
  BY <1>1
<1> HIDE DEF o, low
<1>10. table' \in Trees
  <2>1. slot[1] \in Frames /\ slot[2] \in 0 .. FanOut - 1
    BY <1>4 DEF Slots
  <2>2. Zero \in Entries /\ Table(f) \in Entries
    BY <1>5 DEF Entries
  <2> QED BY <1>1, <1>5, <2>1, <2>2 DEF Trees
<1>11. \A s \in Slots :
        EntryIn(table', s) = IF s = slot THEN Table(f)
                             ELSE IF s[1] = f THEN Zero ELSE EntryIn(table, s)
  BY <1>1, <1>4, <1>5, <1>6, LinkEntry
<1>12. Levelled(low, table', pool')
  <2>1. \A s \in Slots \ {slot} : s[1] # f => EntryIn(table', s) = EntryIn(table, s)
    BY <1>11
  <2>2. \A s \in Slots : s[1] = f => EntryIn(table', s).kind # "table"
    BY <1>6, <1>11, EntryKinds
  <2>3. EntryIn(table', slot) = Table(f) /\ lev[slot[1]] > 1
    BY <1>3, <1>4, <1>11
  <2> HIDE DEF slot
  <2>4. slot \in Slots
    BY <1>4
  <2>5. low = [lev EXCEPT ![f] = lev[slot[1]] - 1]
    BY DEF low
  <2> HIDE DEF slot
  <2>6. Levelled([lev EXCEPT ![f] = lev[slot[1]] - 1], table', pool \ {f})
    BY <1>5, <1>6, <1>10, <2>1, <2>2, <2>3, <2>4, LevelledAfterLink
  <2> QED BY <1>1, <2>5, <2>6
<1>13. \A s \in Slots : lev[s[1]] > 0 /\ EntryIn(table, s).kind = "table" =>
         EntryIn(table', s) = EntryIn(table, s)
  BY <1>4, <1>6, <1>11
<1>14. Deep(table) \subseteq Deep(table')
  <2>1. \A p \in Pages : WalkIn(table, p).level = 1 => WalkIn(table', p) = WalkIn(table, p)
    BY <1>5, <1>6, <1>10, <1>13, WalkExtended
  <2> QED BY <2>1, TreeAssumption DEF Deep
<1>15. WalkIn(table', Current(t)) = next
  <2> DEFINE end == WalkIn(table, Current(t))
  <2>1. end.level = op[t].level /\ end.slot = slot
    BY <1>4
  <2>2. EntryIn(table', slot) = Table(f)
    BY <1>4, <1>11
  <2>3. EntryIn(table', next.slot).kind # "table"
    BY <1>6, <1>7, <1>11, EntryKinds DEF Steps
  <2> HIDE DEF slot, end
  <2>4. \A g \in Frames :
          LET after == At(Current(t), g, end.level - 1)
          IN  /\ end.level > 1
              /\ EntryIn(table', end.slot) = Table(g)
              /\ EntryIn(table', after.slot).kind # "table"
              => WalkIn(table', Current(t)) = after
    BY <1>4, <1>5, <1>6, <1>10, <1>13, WalkExtended DEF end
  <2> QED BY <1>3, <1>5, <2>1, <2>2, <2>3, <2>4 DEF next
<1>16. InRange(o, table')
  <2>1. next = [level |-> next.level, slot |-> next.slot]
    BY <1>7 DEF Steps
  <2>2. WalkIn(table', o.start + o.i) = [level |-> o.level, slot |-> o.slot]
    BY <1>8, <1>15, <2>1 DEF Current
  <2>3. RunIn(o.start, o.i, Deep(table'))
    BY <1>3, <1>8, <1>14 DEF InRange, RunIn
  <2> QED BY <1>3, <1>8, <2>2, <2>3 DEF InRange
<1>17. StoreTypeOK' /\ \A r \in mapped' : RunIn(r.start, r.n, Deep(table'))
  BY <1>1, <1>10, <1>14, CallFacts DEF CreateLevel, StoreTypeOK, RegionsDeep, RunIn
<1>18. \A u \in Threads \ {t} : op[u].pc # "level"
  BY <1>3, CallFacts
<1>19. \A u \in Threads \ {t} : op[u].pc = "invalidate" => low[op[u].slot[1]] = 1
  <2>1. ASSUME NEW u \in Threads \ {t}, op[u].pc = "invalidate"
        PROVE  low[op[u].slot[1]] = 1
    <3>1. lev[op[u].slot[1]] = 1 /\ op[u].slot[1] \in Frames
      BY <1>2, <2>1, CallFacts DEF TreeLevels, CallStates, Slots
    <3> QED BY <1>6, <3>1 DEF Levelled, low
  <2> QED BY <2>1
<1>20. lock' = lock
  BY DEF CreateLevel
<1> QED
  BY <1>3, <1>8, <1>9, <1>12, <1>14, <1>16, <1>17, <1>18, <1>19, <1>20, StepInv

LEMMA CreateLevelFailsInv ==
  ASSUME IInv, NEW t \in Threads, CreateLevelFails(t)
  PROVE  IInv'
<1> DEFINE o == [op[t] EXCEPT !.pc = "unmap", !.n = op[t].i, !.i = 0,
                    !.level = Levels, !.slot = NoSlot, !.end = op[t].n]
<1>1. op[t] \in CallStates /\ InRange(op[t], table) /\ op[t].pc = "level" /\ lock = t
  BY CallFacts DEF CreateLevelFails
<1>2. o \in CallStates
  <2>1. op[t].i \in Nat /\ op[t].n \in Nat
    BY <1>1 DEF CallStates
  <2> QED BY <1>1, <2>1, NoSlotType DEF CallStates
<1>3. /\ o.pc = "unmap" /\ o.start = op[t].start /\ o.n = op[t].i
      /\ o.i = 0 /\ o.end = op[t].n
  BY <1>1 DEF CallStates
<1>4. Moves(t, o)
  BY DEF CreateLevelFails
<1> HIDE DEF o
<1>5. InRange(o, table)
  <2>1. op[t].i \in Nat /\ op[t].n \in Nat /\ op[t].i <= op[t].n
    BY <1>1 DEF CallStates, InRange
  <2>2. RunIn(op[t].start, op[t].n, RemapPages)
    BY <1>1 DEF InRange
  <2>3. RunIn(op[t].start, op[t].i, RemapPages)
    BY <2>1, <2>2 DEF RunIn
  <2> QED BY <1>3, <2>1, <2>2, <2>3 DEF InRange
<1>6. StoreTypeOK' /\ \A r \in mapped' : RunIn(r.start, r.n, Deep(table))
  BY CallFacts DEF CreateLevelFails, StoreTypeOK, RegionsDeep
<1>7. lock = t /\ \A u \in Threads : lock' # u
  BY <1>1, TreeAssumption DEF CreateLevelFails
<1>8. table' = table /\ pool' = pool
  BY DEF CreateLevelFails
<1> QED BY <1>2, <1>3, <1>4, <1>5, <1>6, <1>7, <1>8, StepKeepsTree

LEMMA WriteEntryInv ==
  ASSUME IInv, NEW t \in Threads, WriteEntry(t)
  PROVE  IInv'
<1> DEFINE o == [op[t] EXCEPT !.pc = "map", !.i = @ + 1, !.level = Levels, !.slot = NoSlot]
           slot == op[t].slot
<1>1. /\ op[t] \in CallStates /\ InRange(op[t], table)
      /\ op[t].pc = "level" /\ op[t].level = 1 /\ lock = t
  BY CallFacts DEF WriteEntry
<1>2. o \in CallStates
  <2>1. op[t].i + 1 \in Nat
    BY <1>1 DEF CallStates
  <2> QED BY <1>1, <2>1, NoSlotType DEF CallStates
<1>3. /\ o.pc = "map" /\ o.start = op[t].start /\ o.n = op[t].n
      /\ o.pa = op[t].pa /\ o.i = op[t].i + 1
  BY <1>1 DEF CallStates
<1>4. Moves(t, o)
  BY DEF WriteEntry
<1> HIDE DEF o
<1>5. op[t].i \in Nat /\ op[t].n \in Nat /\ op[t].i < op[t].n
  BY <1>1 DEF CallStates, InRange
<1>6. PICK lev : TreeLevels(lev)
  BY DEF IInv
<1>7. /\ slot \in Slots /\ lev[slot[1]] = 1 /\ Levelled(lev, table, pool)
      /\ WalkIn(table, Current(t)) = [level |-> 1, slot |-> slot]
  BY <1>1, <1>6, AtLevel DEF TreeLevels
\* The physical page is one of the chunk's, and so a page.
<1>8. op[t].pa + op[t].i \in Pages
  <2>1. /\ op[t].pa \in Nat
        /\ op[t].pa + Cardinality(RemapPages) \in Pages
        /\ op[t].n <= Cardinality(RemapPages)
    BY <1>1, CallFacts, TreeAssumption DEF InRange
  <2> QED BY <1>5, <2>1, CallFacts, FanOutFacts DEF Pages
<1>9. /\ table' \in Trees /\ Levelled(lev, table', pool')
      /\ \A p \in Pages : WalkIn(table', p) = WalkIn(table, p)
  <2> HIDE DEF slot
  <2>1. Set(slot, Page(op[t].pa + op[t].i)) /\ pool' = pool /\ table \in Trees
    BY CallFacts DEF WriteEntry, StoreTypeOK, slot
  <2> QED BY <1>7, <1>8, <2>1, EntryKinds, LeafWrite
<1>10. InRange(o, table)
  <2>1. Current(t) \in Deep(table)
    BY <1>5, <1>7, PageInRange DEF Deep
  <2>2. RunIn(o.start, o.i, Deep(table))
    <3>1. \A k \in 0 .. op[t].i - 1 : op[t].start + k \in Deep(table)
      BY <1>1 DEF InRange, RunIn
    <3>2. ASSUME NEW k \in 0 .. op[t].i
          PROVE  op[t].start + k \in Deep(table)
      <4>1. k \in 0 .. op[t].i - 1 \/ k = op[t].i
        BY <1>5
      <4> QED BY <2>1, <3>1, <4>1 DEF Current
    <3> QED BY <1>3, <1>5, <3>2 DEF RunIn
  <2> QED BY <1>1, <1>3, <1>5, <2>2 DEF InRange
<1>11. StoreTypeOK' /\ \A r \in mapped' : RunIn(r.start, r.n, Deep(table))
  BY <1>9, CallFacts DEF WriteEntry, StoreTypeOK, RegionsDeep
<1>12. lock = t /\ \A u \in Threads : lock' # u
  BY <1>1, TreeAssumption DEF WriteEntry
<1> QED BY <1>2, <1>3, <1>4, <1>6, <1>9, <1>10, <1>11, <1>12, StepKeepsWalks

LEMMA RegionMappedInv ==
  ASSUME IInv, NEW t \in Threads, RegionMapped(t)
  PROVE  IInv'
<1> DEFINE r == Region(op[t].start, op[t].n, op[t].pa)
<1>1. /\ op[t] \in CallStates /\ InRange(op[t], table)
      /\ op[t].pc = "map" /\ op[t].i = op[t].n /\ lock # t
  BY CallFacts DEF RegionMapped
<1>2. r \in [start : RemapPages, n : Nat, pa : Pages]
  <2>1. op[t].n \in Nat /\ op[t].pa \in Pages /\ op[t].start \in Pages
    BY <1>1 DEF CallStates
  <2>2. op[t].n >= 1 /\ RunIn(op[t].start, op[t].n, RemapPages)
    BY <1>1, CallFacts DEF InRange
  <2>3. op[t].start + 0 \in RemapPages
    BY <2>1, <2>2 DEF RunIn
  <2>4. op[t].start \in RemapPages
    BY <2>1, <2>3, FanOutFacts DEF Pages
  <2> QED BY <2>1, <2>4 DEF Region
<1>3. RunIn(r.start, r.n, Deep(table))
  BY <1>1 DEF InRange, Region
<1> HIDE DEF r
<1>4. mapped' = mapped \cup {r} /\ Moves(t, Idle)
  BY DEF RegionMapped, Returns, r
<1>5. StoreTypeOK' /\ \A q \in mapped' : RunIn(q.start, q.n, Deep(table))
  BY <1>2, <1>3, <1>4, CallFacts DEF RegionMapped, StoreTypeOK, RegionsDeep
<1>6. lock' = lock /\ table' = table /\ pool' = pool
  BY DEF RegionMapped
<1> QED BY <1>1, <1>4, <1>5, <1>6, IdleState, IdleInRange, StepKeepsTree

LEMMA UnmapPageInv ==
  ASSUME IInv, NEW t \in Threads, UnmapPage(t)
  PROVE  IInv'
<1> DEFINE o == [op[t] EXCEPT !.i = @ + 1]
           w == Walk(Current(t), 1)
<1>1. /\ op[t] \in CallStates /\ InRange(op[t], table)
      /\ op[t].pc = "unmap" /\ op[t].i < op[t].n /\ lock # t
  BY CallFacts DEF UnmapPage
<1>2. /\ o \in CallStates /\ o.pc = "unmap" /\ o.start = op[t].start
      /\ o.n = op[t].n /\ o.i = op[t].i + 1 /\ o.end = op[t].end
  BY <1>1 DEF CallStates
<1>3. Moves(t, o)
  BY DEF UnmapPage
<1> HIDE DEF o
<1>4. InRange(o, table)
  BY <1>1, <1>2 DEF CallStates, InRange
<1>5. PICK lev : TreeLevels(lev)
  BY DEF IInv
<1>6. table \in Trees /\ tlb \in [Threads -> SUBSET (Pages \X Nat)] /\ pool' = pool
  BY CallFacts DEF StoreTypeOK, UnmapPage
<1>7. w.slot \in Slots /\ (w.level = 1 => lev[w.slot[1]] = 1)
  <2>1. Current(t) \in Pages
    BY <1>1, PageInRange
  <2>2. OnPath(lev, Current(t), w)
    BY <1>5, <1>6, <2>1, WalkNow, WalkOnPath DEF TreeLevels
  <2> HIDE DEF w
  <2> QED BY <2>2 DEF OnPath, Steps
<1>8. IF w.level = 1 THEN Set(w.slot, Zero) /\ Flush(t, Current(t))
                     ELSE UNCHANGED <<table, tlb>>
  BY DEF UnmapPage
<1> HIDE DEF w
<1>9. /\ table' \in Trees /\ Levelled(lev, table', pool')
      /\ \A p \in Pages : WalkIn(table', p) = WalkIn(table, p)
      /\ tlb' \in [Threads -> SUBSET (Pages \X Nat)]
  <2>1. CASE w.level = 1
    BY <1>5, <1>6, <1>7, <1>8, <2>1, EntryKinds, LeafWrite, FlushType DEF TreeLevels
  <2>2. CASE w.level # 1
    BY <1>5, <1>6, <1>8, <2>2 DEF TreeLevels
  <2> QED BY <2>1, <2>2
<1>10. StoreTypeOK' /\ \A r \in mapped' : RunIn(r.start, r.n, Deep(table))
  BY <1>9, CallFacts DEF UnmapPage, StoreTypeOK, RegionsDeep
<1>11. lock' = lock
  BY DEF UnmapPage
<1> QED BY <1>1, <1>2, <1>3, <1>4, <1>5, <1>9, <1>10, <1>11, StepKeepsWalks

LEMMA RegionFailedInv ==
  ASSUME IInv, NEW t \in Threads, RegionFailed(t)
  PROVE  IInv'
<1>1. op[t] \in CallStates /\ InRange(op[t], table) /\ op[t].pc = "unmap" /\ lock # t
  BY CallFacts DEF RegionFailed
<1>2. RegionPages(Region(op[t].start, op[t].end, op[t].pa)) \subseteq RemapPages
  <2>1. op[t].start \in Nat /\ op[t].end \in Nat
    BY <1>1, FanOutFacts DEF CallStates, Pages
  <2>2. \A k \in 0 .. op[t].end - 1 : op[t].start + k \in RemapPages
    BY <1>1 DEF InRange, RunIn
  <2>3. ASSUME NEW p \in op[t].start .. op[t].start + op[t].end - 1
        PROVE  p \in RemapPages
    <3>1. p - op[t].start \in 0 .. op[t].end - 1 /\ op[t].start + (p - op[t].start) = p
      BY <2>1
    <3> QED BY <2>2, <3>1
  <2> QED BY <2>3 DEF RegionPages, Region
<1>3. StoreTypeOK' /\ \A r \in mapped' : RunIn(r.start, r.n, Deep(table))
  BY <1>2, CallFacts DEF RegionFailed, StoreTypeOK, RegionsDeep
<1>4. Moves(t, Idle) /\ lock' = lock /\ table' = table /\ pool' = pool
  BY DEF RegionFailed, Returns
<1> QED BY <1>1, <1>3, <1>4, IdleState, IdleInRange, StepKeepsTree

-----------------------------------------------------------------------------
(* virtual_invalidate. *)

LEMMA InvalidateTailInv ==
  ASSUME IInv, NEW t \in Threads, NEW r \in mapped, NEW from \in 0 .. r.n - 1,
         InvalidateTail(t, r, from)
  PROVE  IInv'
<1> DEFINE o == [Idle EXCEPT !.pc = "walk", !.start = r.start + from, !.n = r.n - from]
<1>1. /\ r.start \in RemapPages /\ r.n \in Nat /\ r.pa \in Pages
      /\ RunIn(r.start, r.n, Deep(table))
  BY CallFacts DEF StoreTypeOK, RegionsDeep
<1>2. /\ from \in Nat /\ from < r.n /\ r.n - from \in Nat
      /\ \A k \in 0 .. r.n - from - 1 : from + k \in 0 .. r.n - 1
  <2>1. r.n \in Nat
    BY <1>1
  <2> QED BY <2>1
<1>3. r.start \in Nat
  <2>1. r.start \in Pages
    BY <1>1, TreeAssumption
  <2>2. Pages \subseteq Nat
    BY FanOutFacts DEF Pages
  <2> QED BY <2>1, <2>2
<1>4. RunIn(r.start + from, r.n - from, Deep(table))
  <2>1. ASSUME NEW k \in 0 .. r.n - from - 1
        PROVE  r.start + from + k \in Deep(table)
    <3>1. r.start + (from + k) \in Deep(table)
      BY <1>1, <1>2 DEF RunIn
    <3>2. r.start + from + k = r.start + (from + k)
      BY <1>2, <1>3
    <3> QED BY <3>1, <3>2
  <2> QED BY <2>1 DEF RunIn
<1>5. r.start + from \in Pages
  <2>1. r.start + from \in Deep(table)
    BY <1>1, <1>2 DEF RunIn
  <2> QED BY <2>1, TreeAssumption DEF Deep
<1>6. /\ o \in CallStates
      /\ o.pc = "walk" /\ o.start = r.start + from /\ o.n = r.n - from /\ o.i = 0
  <2>1. Idle \in CallStates /\ Idle.i = 0
    BY IdleState
  <2>2. o \in CallStates
    BY <1>2, <1>5, <2>1 DEF CallStates
  <2>3. o.pc = "walk" /\ o.start = r.start + from /\ o.n = r.n - from /\ o.i = 0
    BY <1>2, <1>5, <2>1 DEF CallStates
  <2> QED BY <2>2, <2>3
<1>7. Moves(t, o)
  BY DEF InvalidateTail
<1> HIDE DEF o
<1>8. InRange(o, table)
  BY <1>2, <1>4, <1>6 DEF InRange, RunIn, Deep
<1>9. op[t].pc = "idle" /\ lock # t /\ lock' = lock /\ table' = table /\ pool' = pool
  BY IdleState, CallFacts DEF InvalidateTail
<1>10. StoreTypeOK' /\ \A q \in mapped' : RunIn(q.start, q.n, Deep(table))
  <2> DEFINE kept == Region(r.start, from, r.pa)
  <2>1. kept \in [start : RemapPages, n : Nat, pa : Pages]
    BY <1>1, <1>2 DEF Region
  <2>2. RunIn(kept.start, kept.n, Deep(table))
    <3>1. \A k \in 0 .. from - 1 : k \in 0 .. r.n - 1
      BY <1>1, <1>2
    <3> QED BY <1>1, <3>1 DEF Region, RunIn
  <2> HIDE DEF kept
  <2>3. mapped' \subseteq mapped \cup {kept}
    BY DEF InvalidateTail, kept
  <2> QED BY <2>1, <2>2, <2>3, CallFacts DEF InvalidateTail, StoreTypeOK, RegionsDeep
<1> QED BY <1>6, <1>7, <1>8, <1>9, <1>10, StepKeepsTree

\* The entries a run may overwrite.
LEMMA WalkToRunInv ==
  ASSUME IInv, NEW t \in Threads, WalkToRun(t)
  PROVE  IInv'
<1> DEFINE w == Walk(Current(t), 1)
           rest == op[t].n - op[t].i
           room == FanOut - Index(Current(t), 1)
           end == op[t].i + (IF rest < room THEN rest ELSE room)
           o == [op[t] EXCEPT !.pc = "invalidate", !.slot = w.slot, !.end = end]
<1>1. /\ op[t] \in CallStates /\ InRange(op[t], table)
      /\ op[t].pc = "walk" /\ op[t].i < op[t].n /\ lock # t
  BY CallFacts DEF WalkToRun
<1>2. op[t].i \in Nat /\ op[t].n \in Nat
  BY <1>1 DEF CallStates
<1>3. PICK lev : TreeLevels(lev)
  BY DEF IInv
<1>4. /\ w.slot \in Slots /\ lev[w.slot[1]] = 1
      /\ w.slot[2] = Index(Current(t), 1) /\ w.slot[2] \in 0 .. FanOut - 1
  <2>1. Current(t) \in Pages /\ table \in Trees
    BY <1>1, PageInRange, CallFacts DEF StoreTypeOK
  <2>2. Current(t) \in Deep(table)
    BY <1>1, <1>2 DEF InRange, RunIn, Current
  <2>3. OnPath(lev, Current(t), w) /\ w.level = 1
    BY <1>3, <2>1, <2>2, WalkNow, WalkOnPath DEF TreeLevels, Deep
  <2> HIDE DEF w
  <2>4. w.slot \in Slots
    BY <2>3 DEF OnPath, Steps
  <2> QED BY <2>3, <2>4 DEF OnPath, Slots
<1>5. Moves(t, o)
  BY DEF WalkToRun
<1> HIDE DEF w
<1>6. /\ end \in Nat /\ op[t].i < end /\ end <= op[t].n
      /\ w.slot[2] + (end - op[t].i) <= FanOut
  <2>1. FanOut \in Nat /\ Index(Current(t), 1) \in 0 .. FanOut - 1
    BY <1>4, FanOutFacts
  <2> QED BY <1>1, <1>2, <1>4, <2>1
<1> HIDE DEF end
<1>7. /\ o \in CallStates /\ o.pc = "invalidate" /\ o.start = op[t].start
      /\ o.n = op[t].n /\ o.i = op[t].i /\ o.end = end /\ o.slot = w.slot
  BY <1>1, <1>4, <1>6 DEF CallStates
<1> HIDE DEF o
<1>8. InRange(o, table)
  BY <1>1, <1>6, <1>7 DEF InRange
<1>9. StoreTypeOK' /\ \A r \in mapped' : RunIn(r.start, r.n, Deep(table))
  BY CallFacts DEF WalkToRun, StoreTypeOK, RegionsDeep
<1>10. lock' = lock /\ table' = table /\ pool' = pool
  BY DEF WalkToRun
<1>11. Levelled(lev, table', pool') /\ \A p \in Pages : WalkIn(table', p) = WalkIn(table, p)
  BY <1>3, <1>10 DEF TreeLevels
<1> QED BY <1>1, <1>3, <1>4, <1>5, <1>7, <1>8, <1>9, <1>10, <1>11, StepKeepsWalks

LEMMA InvalidateEntryInv ==
  ASSUME IInv, NEW t \in Threads, InvalidateEntry(t)
  PROVE  IInv'
<1> DEFINE o == AfterEntry(t)
           slot == op[t].slot
<1>1. /\ op[t] \in CallStates /\ InRange(op[t], table)
      /\ op[t].pc = "invalidate" /\ lock # t
  BY CallFacts DEF InvalidateEntry
<1>2. /\ op[t].i \in Nat /\ op[t].n \in Nat /\ op[t].end \in Nat /\ slot \in Slots
      /\ op[t].i < op[t].end /\ op[t].end <= op[t].n
      /\ slot[2] + (op[t].end - op[t].i) <= FanOut
  BY <1>1 DEF CallStates, InRange
<1>3. slot[1] \in Frames /\ slot[2] \in 0 .. FanOut - 1
  BY <1>2 DEF Slots
<1>4. PICK lev : TreeLevels(lev)
  BY DEF IInv
<1>5. lev[slot[1]] = 1 /\ Levelled(lev, table, pool)
  BY <1>1, <1>4 DEF TreeLevels
<1>6. /\ o \in CallStates /\ InRange(o, table)
      /\ o.pc \in {"walk", "invalidate"}
      /\ o.pc = "invalidate" => lev[o.slot[1]] = 1
  <2>1. CASE op[t].i + 1 < op[t].end
    <3> DEFINE more == [op[t] EXCEPT !.i = @ + 1, !.slot = <<@[1], @[2] + 1>>]
    <3>1. op[t].i + 1 \in Nat /\ slot[2] + 1 \in 0 .. FanOut - 1
      BY <1>2, <1>3, <2>1, FanOutFacts
    <3>2. <<slot[1], slot[2] + 1>> \in Slots
      BY <1>3, <3>1 DEF Slots
    <3>3. /\ more \in CallStates /\ more.pc = "invalidate" /\ more.start = op[t].start
          /\ more.n = op[t].n /\ more.i = op[t].i + 1 /\ more.end = op[t].end
          /\ more.slot = <<slot[1], slot[2] + 1>>
      BY <1>1, <3>1, <3>2 DEF CallStates
    <3>4. o = more
      BY <2>1 DEF AfterEntry
    <3> HIDE DEF more, o
    <3>5. more.slot[1] = slot[1] /\ more.slot[2] + (more.end - more.i) <= FanOut
      BY <1>2, <1>3, <3>3, FanOutFacts
    <3>6. more.i < more.end /\ more.end <= more.n /\ more.i <= more.n
      BY <1>2, <2>1, <3>3
    <3>7. InRange(more, table)
      BY <1>1, <3>3, <3>5, <3>6 DEF InRange
    <3> QED BY <1>5, <3>3, <3>4, <3>5, <3>7
  <2>2. CASE ~(op[t].i + 1 < op[t].end)
    <3> DEFINE done == [op[t] EXCEPT !.pc = "walk", !.i = @ + 1, !.end = 0, !.slot = NoSlot]
    <3>1. op[t].i + 1 \in Nat /\ op[t].i + 1 <= op[t].n
      BY <1>2
    <3>2. /\ done \in CallStates /\ done.pc = "walk" /\ done.start = op[t].start
          /\ done.n = op[t].n /\ done.i = op[t].i + 1
      BY <1>1, <3>1, NoSlotType DEF CallStates
    <3>3. o = done
      BY <2>2 DEF AfterEntry
    <3> HIDE DEF done, o
    <3>4. InRange(done, table)
      BY <1>1, <3>1, <3>2 DEF InRange
    <3> QED BY <3>2, <3>3, <3>4
  <2> QED BY <2>1, <2>2
<1>7. Moves(t, o) /\ Set(slot, Marker) /\ Flush(t, Current(t)) /\ pool' = pool
  BY DEF InvalidateEntry
<1> HIDE DEF o, slot
<1>8. /\ table' \in Trees /\ Levelled(lev, table', pool')
      /\ \A p \in Pages : WalkIn(table', p) = WalkIn(table, p)
      /\ tlb' \in [Threads -> SUBSET (Pages \X Nat)]
  BY <1>2, <1>5, <1>7, CallFacts, EntryKinds, LeafWrite, FlushType DEF StoreTypeOK
<1>9. StoreTypeOK' /\ \A r \in mapped' : RunIn(r.start, r.n, Deep(table))
  BY <1>8, CallFacts DEF InvalidateEntry, StoreTypeOK, RegionsDeep
<1>10. lock' = lock
  BY DEF InvalidateEntry
<1> QED BY <1>1, <1>4, <1>6, <1>7, <1>8, <1>9, <1>10, StepKeepsWalks

LEMMA InvalidatedInv ==
  ASSUME IInv, NEW t \in Threads, Invalidated(t)
  PROVE  IInv'
<1>1. op[t].pc = "walk" /\ lock # t
  BY CallFacts DEF Invalidated
<1>2. StoreTypeOK' /\ \A r \in mapped' : RunIn(r.start, r.n, Deep(table))
  BY CallFacts DEF Invalidated, StoreTypeOK, RegionsDeep
<1>3. Moves(t, Idle) /\ lock' = lock /\ table' = table /\ pool' = pool
  BY DEF Invalidated, Returns
<1> QED BY <1>1, <1>2, <1>3, IdleState, IdleInRange, StepKeepsTree

-----------------------------------------------------------------------------
(* The first invariant holds, and what it says of the runs. *)

LEMMA FillTlbInv ==
  ASSUME IInv, NEW t \in Threads, NEW p \in CachedPages, FillTlb(t, p)
  PROVE  IInv'
<1> DEFINE w == Walk(p, 1)
           e == Entry(w.slot)
<1>1. PICK lev : TreeLevels(lev)
  BY DEF IInv
<1>2. p \in Pages /\ table \in Trees
  BY CallFacts, TreeAssumption DEF StoreTypeOK
<1>3. w.level \in 1 .. Levels /\ w.slot \in Slots
  <2>1. w \in Steps
    BY <1>1, <1>2, WalkNow, WalkOnPath DEF TreeLevels, OnPath
  <2> HIDE DEF w
  <2> QED BY <2>1 DEF Steps
<1>4. e \in Entries /\ e.kind = "page"
  BY <1>2, <1>3, EntryInType DEF FillTlb, Leaf, Entry, EntryIn
<1>5. Resolve(p) = e.page + (p % Mapped(w.level))
  BY <1>4 DEF Resolve
<1>6. e.page \in Pages
  <2> HIDE DEF e
  <2> QED BY <1>4, PageEntry
<1> HIDE DEF w, e
<1>7. Resolve(p) \in Nat
  <2>1. Mapped(w.level) \in Nat \ {0} /\ Pages \subseteq Nat
    BY <1>3, MappedType, FanOutFacts DEF Pages
  <2>2. \A m \in Nat \ {0} : p % m \in Nat
    BY <1>2, <2>1
  <2>3. e.page \in Nat /\ p % Mapped(w.level) \in Nat
    BY <1>6, <2>1, <2>2
  <2> QED BY <1>5, <2>3
<1>8. tlb' \in [Threads -> SUBSET (Pages \X Nat)]
  BY <1>2, <1>7, CallFacts DEF FillTlb, StoreTypeOK
<1>9. StoreTypeOK' /\ \A r \in mapped' : RunIn(r.start, r.n, Deep(table))
  BY <1>8, CallFacts DEF FillTlb, StoreTypeOK, RegionsDeep
<1>10. /\ op[t] \in CallStates /\ InRange(op[t], table)
       /\ lock = t <=> op[t].pc = "level"
  BY CallFacts
<1>11. Moves(t, op[t])
  BY DEF FillTlb, Moves, IInv, TypeOK
<1>12. lock' = lock /\ table' = table /\ pool' = pool
  BY DEF FillTlb
<1>13. /\ Levelled(lev, table', pool') /\ \A q \in Pages : WalkIn(table', q) = WalkIn(table, q)
       /\ op[t].pc = "invalidate" => lev[op[t].slot[1]] = 1
  BY <1>1, <1>12 DEF TreeLevels
<1> QED BY <1>1, <1>9, <1>10, <1>11, <1>12, <1>13, StepKeepsWalks

LEMMA InitInv == Init => IInv
<1> SUFFICES ASSUME Init PROVE IInv
  OBVIOUS
<1> DEFINE lev == [f \in Frames |-> IF f = Root THEN Levels ELSE IF f = Low THEN 3 ELSE 0]
<1>1. /\ Root \in Frames /\ Low \in Frames /\ Root # Low
      /\ PoolFrames \subseteq Frames /\ Root \notin PoolFrames /\ Low \notin PoolFrames
  BY TreeAssumption DEF Root, Low, Frames, PoolFrames
<1>2. \A f \in Frames, i \in 0 .. FanOut - 1 : table[f][i] = InitialEntry(f, i)
  BY DEF Init
<1>3. ASSUME NEW i \in 0 .. FanOut - 1
      PROVE  i * Mapped(3) \in Pages
  <2>1. \A a \in Nat : i * a \in Nat /\ i * a <= (FanOut - 1) * a
    BY FanOutFacts
  <2>2. /\ i * (FanOut * FanOut) \in Nat
        /\ i * (FanOut * FanOut) <= (FanOut - 1) * (FanOut * FanOut)
    BY <2>1, FanOutFacts
  <2>3. (FanOut - 1) * (FanOut * FanOut) = FanOut * FanOut * FanOut - FanOut * FanOut
    BY FanOutFacts
  <2>4. i * (FanOut * FanOut) \in 0 .. FanOut * FanOut * FanOut * FanOut - 1
    BY <2>2, <2>3, FanOutFacts
  <2> QED BY <2>4 DEF Mapped, Pages
<1>4. ASSUME NEW f \in Frames, NEW i \in 0 .. FanOut - 1
      PROVE  /\ InitialEntry(f, i) \in Entries
             /\ InitialEntry(f, i).kind = "table" => f = Root /\ InitialEntry(f, i).frame = Low
  <2>1. Table(Low) \in Entries /\ Table(Low).frame = Low /\ Table(Low).kind = "table"
    BY <1>1 DEF Table, Entries
  <2>2. Garbage \in Entries /\ Garbage.kind # "table"
    BY DEF Garbage, Entries
  <2>3. i * Mapped(3) \in Pages
    BY <1>3
  <2>4. CASE f = Root
    BY <2>1, <2>4, EntryKinds DEF InitialEntry
  <2>5. CASE f = Low
    BY <1>1, <2>3, <2>5, EntryKinds DEF InitialEntry
  <2>6. CASE f # Root /\ f # Low
    BY <2>2, <2>6 DEF InitialEntry
  <2> QED BY <2>4, <2>5, <2>6
<1>5. table \in Trees
  <2>1. table = [f \in Frames |-> [i \in 0 .. FanOut - 1 |-> table[f][i]]]
    BY DEF Init
  <2>2. \A f \in Frames, i \in 0 .. FanOut - 1 : table[f][i] \in Entries
    BY <1>2, <1>4
  <2> QED BY <2>1, <2>2 DEF Trees
<1>6. Levelled(lev, table, pool)
  <2>1. lev \in [Frames -> 0 .. Levels] /\ lev[Root] = Levels /\ lev[Low] = 3
    BY <1>1 DEF Levels
  <2>2. /\ \A f \in pool : lev[f] = 0
        /\ \A f \in Frames \ pool : lev[f] > 0
    <3>1. \A f \in Frames \ pool : f = Root \/ f = Low
      BY TreeAssumption DEF Init, Frames, PoolFrames, Root, Low
    <3> QED BY <1>1, <3>1 DEF Init, Levels
  <2>3. ASSUME NEW s \in Slots, EntryIn(table, s).kind = "table"
        PROVE  s[1] = Root /\ EntryIn(table, s).frame = Low
    BY <1>2, <1>4, <2>3 DEF EntryIn, Slots
  <2> HIDE DEF lev
  <2> QED BY <2>1, <2>2, <2>3 DEF Levelled, Levels
<1> HIDE DEF lev
<1>7. \A t \in Threads : op[t] = Idle
  BY DEF Init
<1>8. TreeLevels(lev)
  BY <1>6, <1>7, IdleState DEF TreeLevels
<1>9. MutexReleased
  BY <1>7, IdleState, TreeAssumption DEF Init, MutexReleased
<1>10. TypeOK
  BY <1>5, IdleState, TypeParts DEF Init, StoreTypeOK
<1>11. RegionsDeep(table)
  BY DEF Init, RegionsDeep
<1> QED BY <1>7, <1>8, <1>9, <1>10, <1>11, IdleInRange DEF IInv

LEMMA NextInv == IInv /\ [Next]_vars => IInv'
<1> SUFFICES ASSUME IInv, [Next]_vars PROVE IInv'
  OBVIOUS
<1>1. CASE UNCHANGED vars
  BY <1>1 DEF vars, IInv, TypeOK, MutexReleased, RegionsDeep, TreeLevels
<1>2. ASSUME NEW t \in Threads, Call(t)
      PROVE  IInv'
  BY <1>2, MapRegionInv, InvalidateTailInv DEF Call
<1>3. ASSUME NEW t \in Threads, Step(t)
      PROVE  IInv'
  BY <1>3, LockAndWalkInv, CreateLevelInv, CreateLevelFailsInv, WriteEntryInv,
     RegionMappedInv, UnmapPageInv, RegionFailedInv, WalkToRunInv,
     InvalidateEntryInv, InvalidatedInv DEF Step
<1>4. ASSUME NEW t \in Threads, NEW p \in CachedPages, FillTlb(t, p)
      PROVE  IInv'
  BY <1>4, FillTlbInv
<1> QED BY <1>1, <1>2, <1>3, <1>4 DEF Next

\* The invariant holds in every reachable state.
LEMMA InvariantHolds == Spec => []IInv
BY InitInv, NextInv, PTL DEF Spec

\* Whatever the threads do, the state keeps its types.  Every slot that a call
\* holds, and so every entry that is written, lies in a table: the run of entries
\* that virtual_invalidate overwrites never leaves its table.
THEOREM TypeCorrect == Spec => []TypeOK
<1>1. IInv => TypeOK
  BY DEF IInv
<1> QED BY <1>1, InvariantHolds, PTL

\* g_pt_mapping_mutex is held by the thread that creates tables or writes an
\* entry, for as long as it does, and by nobody else; pt_map_page releases it
\* when it runs out of frames, too.
THEOREM MutexHeldWhileMapping == Spec => []MutexReleased
<1>1. IInv => MutexReleased
  BY DEF IInv
<1> QED BY <1>1, InvariantHolds, PTL

\* A mapping never replaces a table, though it walks the tables before threads
\* without the mutex write to them, and virtual_invalidate, which takes no mutex,
\* finds a table of the lowest level for every page (ASSERT0(level == PT_L1)).
THEOREM WalksFindTables == Spec => []TablesFound
<1>1. ASSUME IInv
      PROVE  TablesFound
  <2>1. PICK lev : Levelled(lev, table, pool)
    BY <1>1 DEF IInv, TreeLevels
  <2>2. ASSUME NEW t \in Threads, op[t].pc = "level"
        PROVE  Entry(op[t].slot).kind # "table"
    BY <1>1, <2>1, <2>2, AtLevel DEF Entry, EntryIn
  <2>3. ASSUME NEW t \in Threads, op[t].pc = "walk", op[t].i < op[t].n
        PROVE  Walk(Current(t), 1).level = 1
    <3>1. op[t] \in CallStates /\ InRange(op[t], table) /\ table \in Trees
      BY <1>1, CallFacts DEF StoreTypeOK
    <3>2. Current(t) \in Deep(table)
      BY <2>3, <3>1 DEF InRange, RunIn, Current, CallStates
    <3> QED BY <3>1, <3>2, WalkNow, TreeAssumption DEF Deep
  <2> QED BY <2>2, <2>3 DEF TablesFound
<1> QED BY <1>1, InvariantHolds, PTL

-----------------------------------------------------------------------------
(* The second invariant: the tables form a tree, so that each page has an  *)
(* entry of its own, and that entry holds what the page's owner left there. *)

LeafIn(T, page) == EntryIn(T, WalkIn(T, page).slot)

\* At most one entry of the tables in use leads to a frame, and to each frame but
\* the root there is one.
LinkedOnce(T, P) ==
  /\ \A r, s \in Slots :
       /\ r[1] \notin P /\ EntryIn(T, r).kind = "table"
       /\ s[1] \notin P /\ EntryIn(T, s).kind = "table"
       /\ EntryIn(T, r).frame = EntryIn(T, s).frame
       => r = s
  /\ \A f \in Frames \ (P \cup {Root}) :
       \E s \in Slots : s[1] \notin P /\ EntryIn(T, s) = Table(f)

\* The tables that Dune has set up for the program.
ProgramMapped(T) ==
  /\ EntryIn(T, <<Root, 0>>) = Table(Low)
  /\ \A i \in 0 .. FanOut - 1 : EntryIn(T, <<Low, i>>) = Page(i * Mapped(3))

\* A page that has no entry of its own shares one that is zero.
SharedZero(T) ==
  \A p \in Pages \ ProgramPages : WalkIn(T, p).level > 1 => LeafIn(T, p) = Zero

TreeOK(T, P) == LinkedOnce(T, P) /\ ProgramMapped(T) /\ SharedZero(T)

\* The pages that a call has.
PagesOf(o) ==
  IF o.pc = "idle" THEN {}
  ELSE o.start .. o.start + (IF o.pc = "unmap" THEN o.end ELSE o.n) - 1

\* What a call has made of the entry e of its page p so far.
Progress(o, p, e) ==
  CASE o.pc \in {"map", "level"} ->
         e = IF p < o.start + o.i THEN Page(o.pa + p - o.start) ELSE Zero
    [] o.pc = "unmap" ->
         e = IF o.start + o.i <= p /\ p < o.start + o.n THEN Page(o.pa + p - o.start) ELSE Zero
    [] o.pc \in {"walk", "invalidate"} ->
         IF p < o.start + o.i THEN e = Marker ELSE e.kind = "page"
    [] OTHER -> FALSE

\* The run of entries that virtual_invalidate is at is that of the next pages.
RunFound(o, T) ==
  o.pc = "invalidate" =>
    \A k \in o.i .. o.end - 1 :
      WalkIn(T, o.start + k) = [level |-> 1, slot |-> <<o.slot[1], o.slot[2] + k - o.i>>]

\* A page has one owner.
OwnersApart ==
  /\ \A r, s \in mapped : r # s => RegionPages(r) \cap RegionPages(s) = {}
  /\ \A r \in mapped : RegionPages(r) \cap fresh = {}
  /\ \A r \in mapped, t \in Threads : RegionPages(r) \cap PagesOf(op[t]) = {}
  /\ \A t \in Threads : PagesOf(op[t]) \cap fresh = {}
  /\ \A t, u \in Threads : t # u => PagesOf(op[t]) \cap PagesOf(op[u]) = {}

\* A page that belongs to nobody and is not fresh was freed.
Freed(p) ==
  /\ p \in RemapPages \ fresh
  /\ \A r \in mapped : p \notin RegionPages(r)
  /\ \A t \in Threads : p \notin PagesOf(op[t])

\* The entries hold what the owners of the pages say.
EntriesTold ==
  /\ \A p \in (Pages \ (ProgramPages \cup RemapPages)) \cup fresh : LeafIn(table, p) = Zero
  /\ \A r \in mapped : \A p \in RegionPages(r) :
       LeafIn(table, p) = Page(r.pa + p - r.start)
  /\ \A t \in Threads : \A p \in PagesOf(op[t]) : Progress(op[t], p, LeafIn(table, p))
  /\ \A p \in RemapPages : Freed(p) => LeafIn(table, p) = Marker

CallShape(o) ==
  /\ o.pc = "idle" => o = Idle
  /\ o.pc = "unmap" => o.n <= o.end

OwnerInv ==
  /\ OwnersApart
  /\ EntriesTold
  /\ \A t \in Threads : RunFound(op[t], table) /\ CallShape(op[t])

TreeInv == TreeOK(table, pool) /\ OwnerInv

-----------------------------------------------------------------------------
(* The indices of a page at the four levels are its digits. *)

LEMMA Division ==
  ASSUME NEW a \in Int, NEW s \in Nat \ {0}
  PROVE  /\ a \div s \in Int /\ a % s \in Int
         /\ a = s * (a \div s) + (a % s)
         /\ 0 <= a % s /\ a % s < s
BY SMT

LEMMA Quotient ==
  ASSUME NEW a \in Int, NEW s \in Nat \ {0}, NEW q \in Int, s * q <= a, a < s * q + s
  PROVE  a \div s = q /\ a % s = a - s * q
<1>1. PICK d \in Int : d = a \div s /\ a = s * d + (a % s) /\ 0 <= a % s /\ a % s < s
                       /\ a % s \in Int
  BY Division
<1>2. s * (d - q) < s /\ s * (q - d) < s
  BY <1>1, SMT
<1>3. d - q < 1
  BY <1>2, SMT
<1>4. q - d < 1
  BY <1>2, SMT
<1> QED BY <1>1, <1>3, <1>4, SMT

LEMMA Quotients ==
  ASSUME NEW m \in Nat, NEW n \in Nat, NEW d \in Int, NEW e \in Int, 0 <= e, e <= n - 1
  PROVE  /\ m * (n * d + e) = (m * n) * d + m * e
         /\ 0 <= m * e /\ m * e <= m * n - m
<1>1. m * (n - 1 - e) = m * n - m - m * e
  BY SMT
<1>2. \A a, b \in Nat : a * b \in Nat
  BY SMT
<1>3. m * (n - 1 - e) \in Nat /\ e \in Nat
  <2>1. n - 1 - e \in Nat /\ e \in Nat
    BY SMT
  <2> QED BY <1>2, <2>1
<1>4. m * e \in Nat
  BY <1>2, <1>3
<1>5. m * (n * d + e) = (m * n) * d + m * e
  BY SMT
<1> QED BY <1>1, <1>3, <1>4, <1>5, SMT

LEMMA DivideTwice ==
  ASSUME NEW a \in Nat, NEW m \in Nat \ {0}, NEW n \in Nat \ {0}
  PROVE  (a \div m) \div n = a \div (m * n)
<1>1. PICK q \in Int, r \in Int : q = a \div m /\ a = m * q + r /\ 0 <= r /\ r < m
  BY Division
<1>2. PICK d \in Int, e \in Int : d = q \div n /\ q = n * d + e /\ 0 <= e /\ e <= n - 1
  <2>1. q \div n \in Int /\ q % n \in Int /\ q = n * (q \div n) + (q % n)
        /\ 0 <= q % n /\ q % n < n
    BY Division
  <2> QED BY <2>1
<1>3. m * n \in Nat \ {0}
  BY SMT
<1>4. PICK x \in Int, y \in Int, z \in Int : x = (m * n) * d /\ y = m * e /\ z = m * n
  BY <1>2, <1>3
<1>5. m * (n * d + e) = x + y /\ 0 <= y /\ y <= z - m
  BY <1>2, <1>4, Quotients
<1>6. m * q = x + y
  BY <1>2, <1>5
<1>7. x <= a /\ a < x + z
  BY ONLY a \in Nat, m \in Nat, r \in Int, x \in Int, y \in Int, z \in Int,
     <1>1, <1>5, <1>6, SMT
<1>8. (m * n) * d <= a /\ a < (m * n) * d + m * n
  BY <1>4, <1>7
<1>9. a \div (m * n) = d
  BY ONLY <1>2, <1>3, <1>8, a \in Int, Quotient, Zenon
<1> QED BY <1>1, <1>2, <1>9

LEMMA DivideThrice ==
  ASSUME NEW a \in Nat, NEW n \in Nat \ {0}
  PROVE  /\ (a \div n) \div n = a \div (n * n)
         /\ ((a \div n) \div n) \div n = a \div (n * n * n)
<1>1. (a \div n) \div n = a \div (n * n)
  BY DivideTwice
<1>2. PICK m \in Nat \ {0} : m = n * n
  <2>1. n * n \in Nat \ {0}
    BY SMT
  <2> QED BY <2>1
<1>3. (a \div m) \div n = a \div (m * n)
  BY DivideTwice
<1> QED BY <1>1, <1>2, <1>3

\* pt_level_offset takes the digits one by one.
LEMMA Digits ==
  ASSUME NEW page \in Pages
  PROVE  /\ Index(page, 1) = page % FanOut
         /\ Index(page, 2) = (page \div FanOut) % FanOut
         /\ Index(page, 3) = ((page \div FanOut) \div FanOut) % FanOut
         /\ Index(page, 4) = ((page \div FanOut) \div FanOut) \div FanOut
         /\ page \div FanOut \in Nat
         /\ (page \div FanOut) \div FanOut \in Nat
<1>1. /\ page \in Nat /\ FanOut \in Nat \ {0} /\ FanOut * FanOut \in Nat \ {0}
      /\ FanOut * FanOut * FanOut \in Nat \ {0}
      /\ page < FanOut * FanOut * FanOut * FanOut
  BY FanOutFacts DEF Pages
<1>2. \A a \in Nat, n \in Nat \ {0} : a \div n \in Nat
  BY SMT
<1>3. PICK q1 \in Nat, q2 \in Nat, q3 \in Nat :
        q1 = page \div FanOut /\ q2 = q1 \div FanOut /\ q3 = q2 \div FanOut
  BY <1>1, <1>2
<1>4. q2 = page \div (FanOut * FanOut)
  BY <1>1, <1>3, DivideTwice
<1>5. q3 = page \div (FanOut * FanOut * FanOut)
  BY <1>1, <1>3, DivideThrice
<1>6. q3 \in 0 .. FanOut - 1
  <2>1. PICK c \in Nat : c = FanOut * FanOut * FanOut /\ c > 0 /\ page < c * FanOut
    BY <1>1
  <2>2. q3 = page \div c
    BY <1>5, <2>1
  <2>3. c * q3 <= page
    BY <1>1, <2>1, <2>2, Division
  <2>4. c * q3 < c * FanOut
    BY <1>1, <2>1, <2>3
  <2>5. PICK n \in Nat : n = FanOut
    BY <1>1
  <2>6. c * q3 < c * n
    BY <2>4, <2>5
  <2>7. ~(q3 >= n)
    <3>1. \A x, y \in Nat : x >= y => c * x >= c * y
      BY SMT
    <3>2. q3 >= n => c * q3 >= c * n
      BY <3>1
    <3>3. PICK x \in Nat, y \in Nat : x = c * q3 /\ y = c * n
      BY SMT
    <3> QED BY <2>6, <3>2, <3>3
  <2> QED BY <1>1, <2>5, <2>7
<1>7. q3 % FanOut = q3
  BY <1>1, <1>6, SMT
<1>8. /\ Mapped(1) = 1 /\ Mapped(2) = FanOut /\ Mapped(3) = FanOut * FanOut
      /\ Mapped(4) = FanOut * FanOut * FanOut
  BY DEF Mapped
<1>9. page \div 1 = page
  BY <1>1
<1> QED BY <1>1, <1>3, <1>4, <1>5, <1>7, <1>8, <1>9 DEF Index

\* No two pages have the same indices.
LEMMA IndicesDetermine ==
  ASSUME NEW p \in Pages, NEW q \in Pages,
         \A level \in 1 .. Levels : Index(p, level) = Index(q, level)
  PROVE  p = q
<1>1. /\ Index(p, 1) = Index(q, 1) /\ Index(p, 2) = Index(q, 2)
      /\ Index(p, 3) = Index(q, 3) /\ Index(p, 4) = Index(q, 4)
  BY DEF Levels
<1>2. p \in Nat /\ q \in Nat /\ FanOut \in Nat \ {0}
  BY FanOutFacts DEF Pages
<1>3. \A a \in Nat : a = FanOut * (a \div FanOut) + (a % FanOut)
  BY <1>2, Division
<1>4. (p \div FanOut) \div FanOut = (q \div FanOut) \div FanOut
  BY <1>1, <1>3, Digits
<1>5. p \div FanOut = q \div FanOut
  BY <1>1, <1>3, <1>4, Digits
<1> QED BY <1>1, <1>2, <1>3, <1>5, Digits

\* The entries of neighbouring pages are neighbours, unless the table ends.
LEMMA Neighbours ==
  ASSUME NEW p \in Pages, NEW q \in Pages, NEW k \in Nat, q = p + k,
         Index(p, 1) + k < FanOut
  PROVE  /\ Index(q, 1) = Index(p, 1) + k
         /\ \A level \in 2 .. Levels : Index(q, level) = Index(p, level)
<1>1. p \in Nat /\ q \in Nat /\ FanOut \in Nat \ {0}
  BY FanOutFacts DEF Pages
<1>2. PICK d \in Int, r \in Int :
        /\ d = p \div FanOut /\ r = p % FanOut /\ p = FanOut * d + r
        /\ 0 <= r /\ r < FanOut
  BY <1>1, Division
<1>3. Index(p, 1) = r
  BY <1>2, Digits
<1>4. PICK x \in Int : x = FanOut * d
  BY <1>1, <1>2
<1>5. x <= q /\ q < x + FanOut /\ q - x = r + k
  <2>1. p = x + r
    BY <1>2, <1>4
  <2>2. r + k < FanOut
    BY <1>3
  <2> QED BY <1>1, <1>2, <2>1, <2>2
<1>6. q \div FanOut = d /\ q % FanOut = q - FanOut * d
  <2>1. FanOut * d <= q /\ q < FanOut * d + FanOut
    BY <1>4, <1>5
  <2>2. q \in Int
    BY <1>1
  <2> QED BY ONLY <1>1, <2>1, <2>2, d \in Int, Quotient, Zenon
<1>7. Index(q, 1) = Index(p, 1) + k
  BY <1>3, <1>4, <1>5, <1>6, Digits
<1>8. /\ Index(q, 2) = Index(p, 2) /\ Index(q, 3) = Index(p, 3)
      /\ Index(q, 4) = Index(p, 4)
  BY <1>2, <1>6, Digits
<1>9. \A level \in 2 .. Levels : level = 2 \/ level = 3 \/ level = 4
  BY DEF Levels
<1> QED BY <1>7, <1>8, <1>9

\* The program's pages are those below the first entry of the root.
LEMMA ProgramPagesFirst ==
  ASSUME NEW p \in Pages
  PROVE  /\ p \in ProgramPages <=> Index(p, 4) = 0
         /\ p \in ProgramPages => Index(p, 3) * Mapped(3) + (p % Mapped(3)) = p
<1>1. /\ p \in Nat /\ FanOut \in Nat \ {0} /\ FanOut * FanOut \in Nat \ {0}
      /\ FanOut * FanOut * FanOut \in Nat \ {0}
  BY FanOutFacts DEF Pages
<1>2. PICK q2 \in Nat, q3 \in Nat :
        /\ q2 = (p \div FanOut) \div FanOut /\ q3 = q2 \div FanOut
        /\ Index(p, 3) = q2 % FanOut /\ Index(p, 4) = q3
  <2>1. \A a \in Nat, n \in Nat \ {0} : a \div n \in Nat
    BY SMT
  <2> QED BY <1>1, <2>1, Digits
<1>3. q2 = p \div (FanOut * FanOut)
  BY <1>1, <1>2, DivideTwice
<1>4. q3 = p \div (FanOut * FanOut * FanOut)
  BY <1>1, <1>2, DivideThrice
<1>5. p < FanOut * FanOut * FanOut <=> q3 = 0
  <2>1. PICK c \in Nat : c = FanOut * FanOut * FanOut /\ c > 0
    BY <1>1
  <2>2. PICK r \in Int : q3 = p \div c /\ p = c * q3 + r /\ 0 <= r /\ r < c
    BY <1>1, <1>4, <2>1, Division
  <2>3. CASE q3 = 0
    BY <2>1, <2>2, <2>3
  <2>4. CASE q3 >= 1
    <3>1. \A x \in Nat : x >= 1 => c * x >= c
      BY <2>1, SMT
    <3>2. c * q3 >= c
      BY <2>4, <3>1
    <3>3. PICK y \in Nat : y = c * q3
      BY <1>2, <2>1
    <3>4. p >= c
      BY <1>1, <2>1, <2>2, <3>2, <3>3
    <3> QED BY <1>1, <2>1, <2>4, <3>4
  <2> QED BY <1>2, <2>3, <2>4
<1>6. p \in ProgramPages <=> p < FanOut * FanOut * FanOut
  BY <1>1 DEF ProgramPages, Mapped, Levels
<1>7. ASSUME p \in ProgramPages
      PROVE  Index(p, 3) * Mapped(3) + (p % Mapped(3)) = p
  <2>1. q3 = 0 /\ q2 \in Nat
    BY <1>5, <1>6, <1>7
  <2>2. q2 = FanOut * q3 + (q2 % FanOut) /\ q2 % FanOut \in Int
    BY <1>1, <1>2, Division
  <2>3. q2 = Index(p, 3)
    BY <1>1, <1>2, <2>1, <2>2
  <2>4. PICK m \in Nat : m = FanOut * FanOut /\ m > 0
    BY <1>1
  <2>5. p = m * q2 + (p % m)
    BY <1>1, <1>3, <2>4, Division
  <2>6. m * q2 = q2 * m
    BY ONLY m \in Nat, q2 \in Nat, SMT
  <2>7. Mapped(3) = m
    BY <2>4 DEF Mapped
  <2> QED BY <2>3, <2>5, <2>6, <2>7
<1> QED BY <1>2, <1>5, <1>6, <1>7

-----------------------------------------------------------------------------
(* Paths in a tree. *)

\* A page with an entry of its own is found three tables down.
LEMMA DeepPath ==
  ASSUME NEW T \in Trees, NEW P, NEW lev, Levelled(lev, T, P), NEW page \in Pages,
         WalkIn(T, page).level = 1
  PROVE  LET w0 == Start(page)
             w1 == Down(T, page, w0)
             w2 == Down(T, page, w1)
             w3 == WalkIn(T, page)
         IN  /\ OnPath(lev, page, w0) /\ w0.level = 4 /\ GoesDown(T, w0)
             /\ OnPath(lev, page, w1) /\ w1.level = 3 /\ GoesDown(T, w1)
             /\ OnPath(lev, page, w2) /\ w2.level = 2 /\ GoesDown(T, w2)
             /\ OnPath(lev, page, w3) /\ w3 = Down(T, page, w2)
<1> DEFINE w0 == Start(page)
           w1 == Down(T, page, w0)
           w2 == Down(T, page, w1)
           w3 == Down(T, page, w2)
<1>1. OnPath(lev, page, w0) /\ w0.level = 4
  BY StartOnPath DEF Levels
<1>2. /\ OnPath(lev, page, w1)
      /\ GoesDown(T, w0) => w1.level = w0.level - 1
      /\ ~GoesDown(T, w0) => w1 = w0
  BY <1>1, DownOnPath
<1>3. /\ OnPath(lev, page, w2)
      /\ GoesDown(T, w1) => w2.level = w1.level - 1
      /\ ~GoesDown(T, w1) => w2 = w1
  BY <1>2, DownOnPath
<1>4. /\ OnPath(lev, page, w3)
      /\ GoesDown(T, w2) => w3.level = w2.level - 1
      /\ ~GoesDown(T, w2) => w3 = w2
  BY <1>3, DownOnPath
<1>5. WalkIn(T, page) = w3
  BY DEF WalkIn
<1> HIDE DEF w0, w1, w2, w3
<1>6. GoesDown(T, w0) /\ GoesDown(T, w1) /\ GoesDown(T, w2)
  BY <1>1, <1>2, <1>3, <1>4, <1>5
<1>7. w1.level = 3 /\ w2.level = 2
  BY <1>1, <1>2, <1>3, <1>6
<1> QED BY <1>1, <1>2, <1>3, <1>4, <1>5, <1>6, <1>7 DEF w0, w1, w2, w3

\* A walk that meets no table where it used to end still ends there.
LEMMA WalkKept ==
  ASSUME NEW T \in Trees, NEW U \in Trees, NEW P, NEW lev, Levelled(lev, T, P),
         NEW page \in Pages,
         \A s \in Slots : lev[s[1]] > 0 /\ EntryIn(T, s).kind = "table" =>
           EntryIn(U, s) = EntryIn(T, s),
         EntryIn(U, WalkIn(T, page).slot).kind # "table"
  PROVE  WalkIn(U, page) = WalkIn(T, page)
<1> DEFINE w0 == Start(page)
           w1 == Down(T, page, w0)
           w2 == Down(T, page, w1)
           w3 == Down(T, page, w2)
<1>1. OnPath(lev, page, w0) /\ OnPath(lev, page, w1) /\ OnPath(lev, page, w2)
  BY StartOnPath, DownOnPath
<1>2. /\ ~GoesDown(T, w0) => w1 = w0
      /\ ~GoesDown(T, w1) => w2 = w1
      /\ ~GoesDown(T, w2) => w3 = w2
  BY DEF Down
<1>3. ASSUME NEW w, OnPath(lev, page, w), GoesDown(T, w)
      PROVE  Down(U, page, w) = Down(T, page, w)
  <2>1. w.slot \in Slots /\ lev[w.slot[1]] = w.level /\ w.level \in 1 .. Levels
    BY <1>3 DEF OnPath, Steps
  <2>2. EntryIn(U, w.slot) = EntryIn(T, w.slot)
    BY <1>3, <2>1 DEF GoesDown, Levels
  <2> QED BY <2>2 DEF Down, GoesDown
<1>4. /\ GoesDown(T, w0) => Down(U, page, w0) = w1
      /\ GoesDown(T, w1) => Down(U, page, w1) = w2
      /\ GoesDown(T, w2) => Down(U, page, w2) = w3
  BY <1>1, <1>3
<1>5. WalkIn(T, page) = w3
  BY DEF WalkIn
<1>6. WalkIn(U, page) = Down(U, page, Down(U, page, Down(U, page, w0)))
  BY DEF WalkIn
<1> HIDE DEF w0, w1, w2, w3
<1>7. Down(U, page, w3) = w3
  BY <1>5 DEF Down, GoesDown
<1>8. CASE GoesDown(T, w0) /\ GoesDown(T, w1) /\ GoesDown(T, w2)
  BY <1>4, <1>5, <1>6, <1>8
<1>9. CASE GoesDown(T, w0) /\ GoesDown(T, w1) /\ ~GoesDown(T, w2)
  BY <1>2, <1>4, <1>5, <1>6, <1>7, <1>9
<1>10. CASE GoesDown(T, w0) /\ ~GoesDown(T, w1)
  <2>1. w3 = w1
    BY <1>2, <1>10
  <2> QED BY <1>4, <1>5, <1>6, <1>7, <1>10, <2>1
<1>11. CASE ~GoesDown(T, w0)
  <2>1. w3 = w0
    BY <1>2, <1>11
  <2> QED BY <1>5, <1>6, <1>7, <2>1
<1> QED BY <1>8, <1>9, <1>10, <1>11

\* Two walks that come to the same entry came the same way, and so are for the
\* same page.
LEMMA SameWayUp ==
  ASSUME NEW T \in Trees, NEW P, NEW lev, Levelled(lev, T, P), LinkedOnce(T, P),
         NEW p \in Pages, NEW q \in Pages, NEW v, NEW w,
         OnPath(lev, p, v), OnPath(lev, q, w), GoesDown(T, v), GoesDown(T, w),
         v.level = w.level, Down(T, p, v).slot = Down(T, q, w).slot
  PROVE  v.slot = w.slot /\ Index(p, v.level) = Index(q, v.level)
<1>1. /\ v.slot \in Slots /\ lev[v.slot[1]] > 0 /\ v.slot[2] = Index(p, v.level)
      /\ w.slot \in Slots /\ lev[w.slot[1]] > 0 /\ w.slot[2] = Index(q, w.level)
  BY DEF OnPath, Steps, GoesDown
<1>2. v.slot[1] \notin P /\ w.slot[1] \notin P
  BY <1>1 DEF Levelled
<1>3. EntryIn(T, v.slot).kind = "table" /\ EntryIn(T, w.slot).kind = "table"
  BY DEF GoesDown
<1>4. EntryIn(T, v.slot).frame = EntryIn(T, w.slot).frame
  <2>1. \A page, f, level : At(page, f, level).slot[1] = f
    BY DEF At
  <2>2. /\ Down(T, p, v).slot[1] = EntryIn(T, v.slot).frame
        /\ Down(T, q, w).slot[1] = EntryIn(T, w.slot).frame
    BY <2>1 DEF Down
  <2> QED BY <2>2
<1>5. v.slot = w.slot
  BY <1>1, <1>2, <1>3, <1>4 DEF LinkedOnce
<1> QED BY <1>1, <1>5

LEMMA EntryOfOnePage ==
  ASSUME NEW T \in Trees, NEW P, NEW lev, Levelled(lev, T, P), LinkedOnce(T, P),
         NEW p \in Pages, NEW q \in Pages,
         WalkIn(T, p).level = 1, WalkIn(T, q).level = 1,
         WalkIn(T, p).slot = WalkIn(T, q).slot
  PROVE  p = q
<1> DEFINE v0 == Start(p)
           v1 == Down(T, p, v0)
           v2 == Down(T, p, v1)
           w0 == Start(q)
           w1 == Down(T, q, w0)
           w2 == Down(T, q, w1)
<1>1. /\ OnPath(lev, p, v0) /\ v0.level = 4 /\ GoesDown(T, v0)
      /\ OnPath(lev, p, v1) /\ v1.level = 3 /\ GoesDown(T, v1)
      /\ OnPath(lev, p, v2) /\ v2.level = 2 /\ GoesDown(T, v2)
      /\ OnPath(lev, p, WalkIn(T, p)) /\ WalkIn(T, p) = Down(T, p, v2)
  BY DeepPath
<1>2. /\ OnPath(lev, q, w0) /\ w0.level = 4 /\ GoesDown(T, w0)
      /\ OnPath(lev, q, w1) /\ w1.level = 3 /\ GoesDown(T, w1)
      /\ OnPath(lev, q, w2) /\ w2.level = 2 /\ GoesDown(T, w2)
      /\ OnPath(lev, q, WalkIn(T, q)) /\ WalkIn(T, q) = Down(T, q, w2)
  BY DeepPath
<1>3. Index(p, 1) = Index(q, 1)
  BY <1>1, <1>2 DEF OnPath
<1>4. v1 = Down(T, p, v0) /\ v2 = Down(T, p, v1) /\ w1 = Down(T, q, w0) /\ w2 = Down(T, q, w1)
  OBVIOUS
<1> HIDE DEF v0, v1, v2, w0, w1, w2
<1>5. v2.slot = w2.slot /\ Index(p, 2) = Index(q, 2)
  BY <1>1, <1>2, SameWayUp
<1>6. v1.slot = w1.slot /\ Index(p, 3) = Index(q, 3)
  BY <1>1, <1>2, <1>4, <1>5, SameWayUp
<1>7. v0.slot = w0.slot /\ Index(p, 4) = Index(q, 4)
  BY <1>1, <1>2, <1>4, <1>6, SameWayUp
<1>8. \A level \in 1 .. Levels : level = 1 \/ level = 2 \/ level = 3 \/ level = 4
  BY DEF Levels
<1> QED BY <1>3, <1>5, <1>6, <1>7, <1>8, IndicesDetermine

\* The walk for a page k further on, in the same table.
LEMMA NeighbourWalk ==
  ASSUME NEW T \in Trees, NEW P, NEW lev, Levelled(lev, T, P),
         NEW p \in Pages, NEW q \in Pages, NEW k \in Nat, q = p + k,
         WalkIn(T, p).level = 1, Index(p, 1) + k < FanOut
  PROVE  WalkIn(T, q) =
           [level |-> 1, slot |-> <<WalkIn(T, p).slot[1], WalkIn(T, p).slot[2] + k>>]
<1> DEFINE v0 == Start(p)
           v1 == Down(T, p, v0)
           v2 == Down(T, p, v1)
<1>1. /\ OnPath(lev, p, v0) /\ v0.level = 4 /\ GoesDown(T, v0)
      /\ OnPath(lev, p, v1) /\ v1.level = 3 /\ GoesDown(T, v1)
      /\ OnPath(lev, p, v2) /\ v2.level = 2 /\ GoesDown(T, v2)
      /\ OnPath(lev, p, WalkIn(T, p)) /\ WalkIn(T, p) = Down(T, p, v2)
  BY DeepPath
<1>2. /\ Index(q, 1) = Index(p, 1) + k /\ Index(q, 2) = Index(p, 2)
      /\ Index(q, 3) = Index(p, 3) /\ Index(q, 4) = Index(p, 4)
  BY Neighbours DEF Levels
<1>3. \A f : At(q, f, 2) = At(p, f, 2) /\ At(q, f, 3) = At(p, f, 3) /\ At(q, f, 4) = At(p, f, 4)
  BY <1>2 DEF At
<1>4. Start(q) = v0
  BY <1>3 DEF Start, Levels
<1>5. v1 = Down(T, p, v0) /\ v2 = Down(T, p, v1)
  OBVIOUS
<1> HIDE DEF v0, v1, v2
<1>6. ASSUME NEW w, GoesDown(T, w), w.level = 4 \/ w.level = 3
      PROVE  Down(T, q, w) = Down(T, p, w)
  <2>1. w.level - 1 = 3 \/ w.level - 1 = 2
    BY <1>6
  <2>2. At(q, EntryIn(T, w.slot).frame, w.level - 1) = At(p, EntryIn(T, w.slot).frame, w.level - 1)
    BY <1>3, <2>1
  <2> QED BY <1>6, <2>2 DEF Down
<1>7. WalkIn(T, q) = Down(T, q, v2)
  BY <1>1, <1>4, <1>5, <1>6 DEF WalkIn
<1>8. /\ Down(T, q, v2) = [level |-> 1, slot |-> <<EntryIn(T, v2.slot).frame, Index(q, 1)>>]
      /\ Down(T, p, v2) = [level |-> 1, slot |-> <<EntryIn(T, v2.slot).frame, Index(p, 1)>>]
  BY <1>1 DEF Down, At
<1> QED BY <1>1, <1>2, <1>7, <1>8

\* The program's pages are mapped one huge page each, at their own addresses.
LEMMA ProgramWalk ==
  ASSUME NEW T \in Trees, ProgramMapped(T), NEW p \in ProgramPages
  PROVE  /\ p \in Pages
         /\ WalkIn(T, p) = At(p, Low, 3)
         /\ LeafIn(T, p) = Page(Index(p, 3) * Mapped(3))
<1>1. p \in Pages
  BY FanOutFacts DEF ProgramPages, Pages, Mapped, Levels
<1>2. Index(p, 4) = 0 /\ Index(p, 3) \in 0 .. FanOut - 1
  BY <1>1, ProgramPagesFirst, IndexType DEF Levels
<1>3. Start(p) = [level |-> 4, slot |-> <<Root, 0>>]
  BY <1>2 DEF Start, At, Levels
<1>4. Down(T, p, Start(p)) = At(p, Low, 3)
  BY <1>3 DEF Down, GoesDown, ProgramMapped, Table
<1>5. EntryIn(T, At(p, Low, 3).slot) = Page(Index(p, 3) * Mapped(3))
  BY <1>2 DEF At, ProgramMapped
<1>6. Down(T, p, At(p, Low, 3)) = At(p, Low, 3)
  BY <1>5 DEF Down, GoesDown, Page
<1>7. WalkIn(T, p) = At(p, Low, 3)
  BY <1>4, <1>6 DEF WalkIn
<1> QED BY <1>1, <1>5, <1>7 DEF LeafIn

-----------------------------------------------------------------------------
(* What a write does to the tree and to the entries of the pages. *)

LEMMA LowLevel ==
  ASSUME NEW T \in Trees, NEW P, NEW lev, Levelled(lev, T, P), ProgramMapped(T)
  PROVE  lev[Root] = 4 /\ lev[Low] = 3
<1>1. <<Root, 0>> \in Slots
  BY NoSlotType DEF NoSlot
<1>2. EntryIn(T, <<Root, 0>>).kind = "table" /\ EntryIn(T, <<Root, 0>>).frame = Low
  BY DEF ProgramMapped, Table
<1>3. <<Root, 0>>[1] = Root
  OBVIOUS
<1>4. lev[Root] = 4
  BY DEF Levelled, Levels
<1> QED BY <1>1, <1>2, <1>3, <1>4 DEF Levelled

\* An entry of the lowest level that is written belongs to one page; no other
\* page notices.
LEMMA OneEntryWritten ==
  ASSUME NEW T \in Trees, NEW U \in Trees, NEW P, NEW lev, Levelled(lev, T, P),
         TreeOK(T, P), NEW q \in Pages, WalkIn(T, q).level = 1,
         NEW e, e.kind # "table",
         \A s \in Slots :
           EntryIn(U, s) = IF s = WalkIn(T, q).slot THEN e ELSE EntryIn(T, s)
  PROVE  /\ TreeOK(U, P)
         /\ \A p \in Pages : /\ WalkIn(U, p) = WalkIn(T, p)
                             /\ LeafIn(U, p) = IF p = q THEN e ELSE LeafIn(T, p)
<1> DEFINE slot == WalkIn(T, q).slot
<1>1. slot \in Slots /\ lev[slot[1]] = 1
  BY WalkOnPath DEF OnPath, Steps
<1>2. EntryIn(T, slot).kind # "table"
  BY <1>1 DEF Levelled
<1> HIDE DEF slot
<1>3. \A s \in Slots : EntryIn(U, s) = IF s = slot THEN e ELSE EntryIn(T, s)
  BY DEF slot
<1>4. ASSUME NEW p \in Pages
      PROVE  WalkIn(U, p) = WalkIn(T, p)
  <2>1. \A s \in Slots : lev[s[1]] > 1 => EntryIn(U, s) = EntryIn(T, s)
    BY <1>1, <1>3
  <2> QED BY <2>1, WalkUndisturbed
<1>5. ASSUME NEW p \in Pages
      PROVE  LeafIn(U, p) = IF p = q THEN e ELSE LeafIn(T, p)
  <2>1. WalkIn(T, p).slot \in Slots /\ lev[WalkIn(T, p).slot[1]] = WalkIn(T, p).level
    BY WalkOnPath DEF OnPath, Steps
  <2>2. WalkIn(T, p).slot = slot => p = q
    <3>1. WalkIn(T, p).slot = slot => WalkIn(T, p).level = 1
      BY <1>1, <2>1
    <3> QED BY <3>1, EntryOfOnePage DEF slot, TreeOK
  <2> QED BY <1>3, <1>4, <2>1, <2>2 DEF LeafIn, slot
<1>6. LinkedOnce(U, P)
  <2>1. \A s \in Slots : EntryIn(U, s).kind = "table" => EntryIn(U, s) = EntryIn(T, s)
    BY <1>3
  <2>2. ASSUME NEW r \in Slots, NEW s \in Slots,
               r[1] \notin P, EntryIn(U, r).kind = "table",
               s[1] \notin P, EntryIn(U, s).kind = "table",
               EntryIn(U, r).frame = EntryIn(U, s).frame
        PROVE  r = s
    <3>1. EntryIn(U, r) = EntryIn(T, r) /\ EntryIn(U, s) = EntryIn(T, s)
      BY <2>1, <2>2
    <3> QED BY <2>2, <3>1 DEF TreeOK, LinkedOnce
  <2>3. ASSUME NEW f \in Frames \ (P \cup {Root})
        PROVE  \E s \in Slots : s[1] \notin P /\ EntryIn(U, s) = Table(f)
    <3>1. PICK s \in Slots : s[1] \notin P /\ EntryIn(T, s) = Table(f)
      BY DEF TreeOK, LinkedOnce
    <3>2. EntryIn(U, s) = Table(f)
      BY <1>2, <1>3, <3>1 DEF Table
    <3> QED BY <3>1, <3>2
  <2> QED BY <2>2, <2>3 DEF LinkedOnce
<1>7. ProgramMapped(U)
  <2>1. lev[Root] = 4 /\ lev[Low] = 3
    BY LowLevel DEF TreeOK
  <2>2. \A i \in 0 .. FanOut - 1 : <<Root, i>> \in Slots /\ <<Low, i>> \in Slots
    BY TreeAssumption DEF Slots, Root, Low, Frames
  <2>3. \A f, i : lev[f] # 1 => <<f, i>> # slot
    <3>1. \A f, i : <<f, i>>[1] = f
      OBVIOUS
    <3> QED BY <1>1, <3>1
  <2>4. \A i \in 0 .. FanOut - 1 : /\ EntryIn(U, <<Root, i>>) = EntryIn(T, <<Root, i>>)
                                   /\ EntryIn(U, <<Low, i>>) = EntryIn(T, <<Low, i>>)
    <3>1. \A i \in 0 .. FanOut - 1 : <<Root, i>> # slot /\ <<Low, i>> # slot
      BY <2>1, <2>3
    <3> QED BY <1>3, <2>2, <3>1
  <2>5. 0 \in 0 .. FanOut - 1
    BY FanOutFacts
  <2> QED BY <2>4, <2>5 DEF TreeOK, ProgramMapped
<1>8. SharedZero(U)
  <2>1. ASSUME NEW p \in Pages \ ProgramPages, WalkIn(U, p).level > 1
        PROVE  LeafIn(U, p) = Zero
    <3>1. WalkIn(T, p).level > 1 /\ p # q
      BY <1>4, <2>1
    <3> QED BY <1>5, <3>1 DEF TreeOK, SharedZero
  <2> QED BY <2>1 DEF SharedZero
<1> QED BY <1>4, <1>5, <1>6, <1>7, <1>8 DEF TreeOK

\* A new table takes over the pages that shared the entry it is linked to.  All
\* of them had a zero there, and have one in the table.
LEMMA TableLinked ==
  ASSUME NEW T \in Trees, NEW U \in Trees, NEW P \in SUBSET Frames,
         NEW lev, Levelled(lev, T, P),
         TreeOK(T, P), NEW f \in P, NEW slot \in Slots, lev[slot[1]] > 1,
         EntryIn(T, slot) = Zero,
         \A s \in Slots :
           EntryIn(U, s) = IF s = slot THEN Table(f)
                           ELSE IF s[1] = f THEN Zero ELSE EntryIn(T, s)
  PROVE  /\ TreeOK(U, P \ {f})
         /\ \A p \in Pages : /\ WalkIn(T, p).level = 1 => WalkIn(U, p) = WalkIn(T, p)
                             /\ LeafIn(U, p) = LeafIn(T, p)
<1>1. f \in Frames /\ lev[f] = 0 /\ f # slot[1]
  BY DEF Levelled
<1>2. Table(f).kind = "table" /\ Table(f).frame = f /\ Zero.kind = "zero"
  BY DEF Table, Zero
<1>3. \A s \in Slots : s[1] \in P => lev[s[1]] = 0
  BY DEF Levelled
<1>4. \A s \in Slots : s[1] \notin P => lev[s[1]] > 0
  BY DEF Levelled, Slots
<1>5. \A s \in Slots : lev[s[1]] > 0 /\ EntryIn(T, s).kind = "table" =>
         EntryIn(U, s) = EntryIn(T, s)
  BY <1>1, <1>2
<1>6. ASSUME NEW p \in Pages
      PROVE  /\ WalkIn(T, p).level = 1 => WalkIn(U, p) = WalkIn(T, p)
             /\ LeafIn(U, p) = LeafIn(T, p)
             /\ WalkIn(U, p).level > 1 => WalkIn(T, p).level > 1
  <2> DEFINE end == WalkIn(T, p)
             next == At(p, f, end.level - 1)
  <2>1. /\ end \in Steps /\ end.slot \in Slots /\ end.level \in 1 .. Levels
        /\ lev[end.slot[1]] = end.level /\ ~GoesDown(T, end)
    BY WalkOnPath DEF OnPath, Steps
  <2>2. end.level = 1 => WalkIn(U, p) = end
    BY <1>5, WalkExtended
  <2>3. end.level > 1 /\ EntryIn(U, end.slot) = Table(f) /\ EntryIn(U, next.slot).kind # "table"
        => WalkIn(U, p) = next
    BY <1>1, <1>5, WalkExtended
  <2>4. EntryIn(U, end.slot).kind # "table" => WalkIn(U, p) = end
    BY <1>5, WalkKept
  <2>5. end.level > 1 => next.slot \in Slots /\ next.slot[1] = f /\ next \in Steps
    <3>1. end.level > 1 => end.level - 1 \in 1 .. Levels
      BY <2>1 DEF Levels
    <3> HIDE DEF end
    <3>2. end.level > 1 => next \in Steps
      BY <1>1, <3>1, AtType
    <3>3. next.slot[1] = f
      BY DEF At
    <3> QED BY <3>2, <3>3 DEF Steps
  <2> HIDE DEF end, next
  <2>6. CASE end.slot = slot
    <3>1. end.level > 1 /\ EntryIn(U, end.slot) = Table(f)
      BY <2>1, <2>6
    <3>2. EntryIn(U, next.slot) = Zero
      BY <1>1, <2>5, <3>1
    <3>3. WalkIn(U, p) = next
      BY <1>2, <2>3, <3>1, <3>2
    <3>4. LeafIn(U, p) = Zero
      BY <3>2, <3>3 DEF LeafIn
    <3>5. LeafIn(T, p) = Zero
      BY <2>6 DEF LeafIn, end
    <3> QED BY <3>1, <3>4, <3>5 DEF end
  <2>7. CASE end.slot # slot
    <3>1. end.slot[1] # f
      BY <1>1, <2>1
    <3>2. EntryIn(U, end.slot) = EntryIn(T, end.slot)
      BY <2>1, <2>7, <3>1
    <3>3. EntryIn(T, end.slot).kind = "table" => end.level = 1
      BY <2>1 DEF GoesDown, Levels
    <3>4. WalkIn(U, p) = end
      BY <2>2, <2>4, <3>2, <3>3
    <3> QED BY <3>2, <3>4 DEF LeafIn, end
  <2> QED BY <2>6, <2>7
<1>7. ASSUME NEW s \in Slots, s[1] \notin P \ {f}, EntryIn(U, s).kind = "table"
      PROVE  /\ s = slot => EntryIn(U, s) = Table(f)
             /\ s # slot => /\ s[1] \notin P /\ EntryIn(U, s) = EntryIn(T, s)
                            /\ EntryIn(T, s).frame # f
  <2>1. ASSUME s # slot
        PROVE  s[1] \notin P /\ EntryIn(U, s) = EntryIn(T, s)
    BY <1>2, <1>7, <2>1
  <2>2. ASSUME s # slot
        PROVE  EntryIn(T, s).frame # f
    <3>1. lev[EntryIn(T, s).frame] = lev[s[1]] - 1 /\ lev[s[1]] > 1 /\ s[1] \in Frames
      BY <1>4, <1>7, <2>1, <2>2 DEF Levelled, Slots
    <3>2. lev[s[1]] \in 0 .. Levels
      BY <3>1 DEF Levelled
    <3> QED BY <1>1, <3>1, <3>2
  <2> QED BY <2>1, <2>2
<1>8. LinkedOnce(U, P \ {f})
  <2>1. ASSUME NEW r \in Slots, NEW s \in Slots,
               r[1] \notin P \ {f}, EntryIn(U, r).kind = "table",
               s[1] \notin P \ {f}, EntryIn(U, s).kind = "table",
               EntryIn(U, r).frame = EntryIn(U, s).frame
        PROVE  r = s
    <3>1. CASE r = slot /\ s = slot
      BY <3>1
    <3>2. CASE r = slot /\ s # slot
      BY <1>2, <1>7, <2>1, <3>2
    <3>3. CASE r # slot /\ s = slot
      BY <1>2, <1>7, <2>1, <3>3
    <3>4. CASE r # slot /\ s # slot
      <4>1. /\ r[1] \notin P /\ EntryIn(U, r) = EntryIn(T, r)
            /\ s[1] \notin P /\ EntryIn(U, s) = EntryIn(T, s)
        BY <1>7, <2>1, <3>4
      <4> QED BY <2>1, <4>1 DEF TreeOK, LinkedOnce
    <3> QED BY <3>1, <3>2, <3>3, <3>4
  <2>2. ASSUME NEW g \in Frames \ ((P \ {f}) \cup {Root})
        PROVE  \E s \in Slots : s[1] \notin P \ {f} /\ EntryIn(U, s) = Table(g)
    <3>1. CASE g = f
      <4>1. slot[1] \notin P
        BY <1>3
      <4> QED BY <3>1, <4>1
    <3>2. CASE g # f
      <4>1. PICK s \in Slots : s[1] \notin P /\ EntryIn(T, s) = Table(g)
        BY <3>2 DEF TreeOK, LinkedOnce
      <4>2. EntryIn(U, s) = Table(g)
        BY <4>1 DEF Table, Zero
      <4> QED BY <4>1, <4>2
    <3> QED BY <3>1, <3>2
  <2> QED BY <2>1, <2>2 DEF LinkedOnce
<1>9. ProgramMapped(U)
  <2>1. lev[Root] = 4 /\ lev[Low] = 3
    BY LowLevel DEF TreeOK
  <2>2. \A i \in 0 .. FanOut - 1 : <<Root, i>> \in Slots /\ <<Low, i>> \in Slots
    BY TreeAssumption DEF Slots, Root, Low, Frames
  <2>3. ASSUME NEW s \in Slots, lev[s[1]] > 0, EntryIn(T, s) # Zero
        PROVE  EntryIn(U, s) = EntryIn(T, s)
    BY <1>1, <2>3
  <2>4. \A i \in 0 .. FanOut - 1 : EntryIn(U, <<Low, i>>) = Page(i * Mapped(3))
    <3>1. ASSUME NEW i \in 0 .. FanOut - 1
          PROVE  EntryIn(U, <<Low, i>>) = Page(i * Mapped(3))
      <4>1. EntryIn(T, <<Low, i>>) = Page(i * Mapped(3)) /\ <<Low, i>>[1] = Low
        BY DEF TreeOK, ProgramMapped
      <4>2. Page(i * Mapped(3)) # Zero
        BY DEF Page, Zero
      <4>3. PICK s \in Slots : s = <<Low, i>>
        BY <2>2
      <4>4. lev[s[1]] > 0 /\ EntryIn(T, s) # Zero
        BY <2>1, <4>1, <4>2, <4>3
      <4> QED BY <2>3, <4>1, <4>3, <4>4
    <3> QED BY <3>1
  <2>5. EntryIn(U, <<Root, 0>>) = Table(Low)
    <3>1. EntryIn(T, <<Root, 0>>) = Table(Low) /\ <<Root, 0>>[1] = Root
      BY DEF TreeOK, ProgramMapped
    <3>2. Table(Low) # Zero
      BY DEF Table, Zero
    <3>3. <<Root, 0>> \in Slots
      BY NoSlotType DEF NoSlot
    <3> QED BY <2>1, <2>3, <3>1, <3>2, <3>3
  <2> QED BY <2>4, <2>5 DEF ProgramMapped
<1>10. SharedZero(U)
  BY <1>6 DEF TreeOK, SharedZero
<1> QED BY <1>6, <1>8, <1>9, <1>10 DEF TreeOK

-----------------------------------------------------------------------------
(* The steps that write entries. *)

LEMMA StoreFacts ==
  ASSUME IInv
  PROVE  /\ table \in Trees /\ pool \subseteq Frames
         /\ \E lev : Levelled(lev, table, pool)
<1>1. table \in Trees /\ pool \subseteq PoolFrames
  BY TypeParts DEF IInv, StoreTypeOK
<1>2. PoolFrames \subseteq Frames
  BY TreeAssumption DEF PoolFrames, Frames
<1> QED BY <1>1, <1>2 DEF IInv, TreeLevels

\* What has become of the entries of the pages: one of them was written.
Written(q, e) ==
  \A p \in Pages : /\ WalkIn(table', p) = WalkIn(table, p)
                   /\ LeafIn(table', p) = IF p = q THEN e ELSE LeafIn(table, p)

LEMMA EntryWritten ==
  ASSUME IInv, IInv', TreeOK(table, pool), pool' = pool, NEW q \in Pages, NEW e,
         WalkIn(table, q).level = 1, Set(WalkIn(table, q).slot, e), e.kind # "table"
  PROVE  TreeOK(table', pool') /\ Written(q, e)
<1>1. table \in Trees /\ table' \in Trees
  BY StoreFacts, TypeParts DEF IInv, TypeOK, Trees
<1>2. PICK lev : Levelled(lev, table, pool)
  BY StoreFacts
<1>3. WalkIn(table, q).slot \in Slots
  BY <1>1, <1>2, WalkOnPath DEF OnPath, Steps
<1>4. \A s \in Slots :
        EntryIn(table', s) = IF s = WalkIn(table, q).slot THEN e ELSE EntryIn(table, s)
  BY <1>1, <1>3, SetEntry
<1>5. TreeOK(table', pool) /\ Written(q, e)
  BY <1>1, <1>2, <1>4, OneEntryWritten DEF Written
<1> QED BY <1>5

LEMMA WriteEntryWrites ==
  ASSUME IInv, IInv', TreeInv, NEW t \in Threads, WriteEntry(t)
  PROVE  /\ TreeOK(table', pool')
         /\ Current(t) \in Pages
         /\ Written(Current(t), Page(op[t].pa + op[t].i))
<1>1. PICK lev : Levelled(lev, table, pool)
  BY StoreFacts
<1>2. op[t].pc = "level" /\ op[t].level = 1
  BY DEF WriteEntry
<1>3. /\ Current(t) \in Pages
      /\ WalkIn(table, Current(t)) = [level |-> 1, slot |-> op[t].slot]
  BY <1>1, <1>2, AtLevel
<1>4. Set(WalkIn(table, Current(t)).slot, Page(op[t].pa + op[t].i)) /\ pool' = pool
  BY <1>3 DEF WriteEntry
<1>5. Page(op[t].pa + op[t].i).kind # "table"
  BY DEF Page
<1> QED BY <1>3, <1>4, <1>5, EntryWritten DEF TreeInv

LEMMA InvalidateEntryWrites ==
  ASSUME IInv, IInv', TreeInv, NEW t \in Threads, InvalidateEntry(t)
  PROVE  /\ TreeOK(table', pool')
         /\ Current(t) \in RemapPages
         /\ Written(Current(t), Marker)
<1>1. /\ op[t] \in CallStates /\ InRange(op[t], table) /\ op[t].pc = "invalidate"
      /\ RunFound(op[t], table)
  BY CallFacts DEF InvalidateEntry, TreeInv, OwnerInv
<1>2. /\ op[t].i \in Nat /\ op[t].end \in Nat /\ op[t].n \in Nat
      /\ op[t].i < op[t].end /\ op[t].end <= op[t].n
      /\ op[t].slot \in Slots
  BY <1>1 DEF InRange, CallStates
<1>3. Current(t) \in RemapPages /\ Current(t) \in Pages
  BY <1>2, PageInRange
<1>4. WalkIn(table, Current(t)).level = 1 /\ WalkIn(table, Current(t)).slot = op[t].slot
  <2>1. op[t].i \in op[t].i .. op[t].end - 1
    BY <1>2
  <2>2. WalkIn(table, op[t].start + op[t].i) =
          [level |-> 1, slot |-> <<op[t].slot[1], op[t].slot[2] + op[t].i - op[t].i>>]
    BY <1>1, <2>1 DEF RunFound
  <2>3. op[t].slot = <<op[t].slot[1], op[t].slot[2]>> /\ op[t].slot[2] \in Int
    BY <1>2 DEF Slots
  <2>4. op[t].slot[2] + op[t].i - op[t].i = op[t].slot[2]
    BY <1>2, <2>3
  <2> QED BY <2>2, <2>3, <2>4 DEF Current
<1>5. Set(WalkIn(table, Current(t)).slot, Marker) /\ pool' = pool
  BY <1>4 DEF InvalidateEntry
<1>6. Marker.kind # "table"
  BY DEF Marker
<1> QED BY <1>3, <1>4, <1>5, <1>6, EntryWritten DEF TreeInv

\* pt_unmap_page never finds a page without an entry here.
LEMMA UnmapPageWrites ==
  ASSUME IInv, IInv', TreeInv, NEW t \in Threads, UnmapPage(t)
  PROVE  /\ TreeOK(table', pool')
         /\ Current(t) \in RemapPages
         /\ Written(Current(t), Zero)
         /\ Flush(t, Current(t))
<1>1. /\ op[t] \in CallStates /\ InRange(op[t], table)
      /\ op[t].pc = "unmap" /\ op[t].i < op[t].n /\ op[t].n <= op[t].end
  BY CallFacts DEF UnmapPage, TreeInv, OwnerInv, CallShape
<1>2. /\ op[t].i \in Nat /\ op[t].end \in Nat /\ op[t].n \in Nat /\ op[t].start \in Nat
      /\ Current(t) = op[t].start + op[t].i
  BY <1>1, FanOutFacts DEF CallStates, Pages, Current
<1>3. Current(t) \in RemapPages /\ Current(t) \in Pages \ ProgramPages
  BY <1>1, PageInRange, TreeAssumption
<1>4. LeafIn(table, Current(t)).kind = "page"
  <2>1. Current(t) \in PagesOf(op[t])
    BY <1>1, <1>2 DEF PagesOf
  <2>2. Progress(op[t], Current(t), LeafIn(table, Current(t)))
    BY <2>1 DEF TreeInv, OwnerInv, EntriesTold
  <2>3. LeafIn(table, Current(t)) = Page(op[t].pa + Current(t) - op[t].start)
    BY <1>1, <1>2, <2>2 DEF Progress
  <2> QED BY <2>3 DEF Page
<1>5. PICK lev : Levelled(lev, table, pool)
  BY StoreFacts
<1>6. WalkIn(table, Current(t)).level = 1
  <2>1. WalkIn(table, Current(t)).level \in 1 .. Levels
    BY <1>3, <1>5, StoreFacts, WalkOnPath DEF OnPath, Steps
  <2>2. ~(WalkIn(table, Current(t)).level > 1)
    BY <1>3, <1>4 DEF TreeInv, TreeOK, SharedZero, Zero
  <2> QED BY <2>1, <2>2 DEF Levels
<1>7. Walk(Current(t), 1) = WalkIn(table, Current(t))
  BY <1>3, StoreFacts, WalkNow
<1>8. Set(WalkIn(table, Current(t)).slot, Zero) /\ Flush(t, Current(t)) /\ pool' = pool
  BY <1>6, <1>7 DEF UnmapPage
<1>9. Zero.kind # "table"
  BY DEF Zero
<1> QED BY <1>3, <1>6, <1>8, <1>9, EntryWritten DEF TreeInv

\* A table is made where the entry was zero, and no page's entry changes.
LEMMA CreateLevelWrites ==
  ASSUME IInv, IInv', TreeInv, NEW t \in Threads, CreateLevel(t)
  PROVE  /\ TreeOK(table', pool')
         /\ \A p \in Pages : /\ WalkIn(table, p).level = 1 => WalkIn(table', p) = WalkIn(table, p)
                             /\ LeafIn(table', p) = LeafIn(table, p)
<1>1. PICK f \in pool :
        /\ pool' = pool \ {f}
        /\ table' = [table EXCEPT ![f] = [i \in 0 .. FanOut - 1 |-> Zero],
                                  ![op[t].slot[1]][op[t].slot[2]] = Table(f)]
  BY DEF CreateLevel
<1>2. PICK lev : Levelled(lev, table, pool)
  BY StoreFacts
<1> DEFINE slot == op[t].slot
<1>3. op[t].pc = "level" /\ op[t].level > 1
  BY DEF CreateLevel
<1>4. /\ slot \in Slots /\ op[t].level \in 1 .. Levels /\ Current(t) \in Pages
      /\ WalkIn(table, Current(t)) = [level |-> op[t].level, slot |-> slot]
      /\ lev[slot[1]] = op[t].level
  BY <1>2, <1>3, AtLevel
<1>5. table \in Trees /\ pool \in SUBSET Frames /\ f \in Frames
  BY StoreFacts
<1>6. table' \in Trees
  BY TypeParts DEF IInv, TypeOK, Trees
<1>7. f # slot[1]
  BY <1>2, <1>3, <1>4 DEF Levelled
<1>8. \A s \in Slots :
        EntryIn(table', s) = IF s = slot THEN Table(f)
                             ELSE IF s[1] = f THEN Zero ELSE EntryIn(table, s)
  BY <1>1, <1>4, <1>5, <1>7, LinkEntry
<1>9. EntryIn(table, slot) = Zero
  <2>1. op[t] \in CallStates /\ InRange(op[t], table) /\ op[t].i < op[t].n
    BY <1>3, CallFacts DEF InRange
  <2>2. Current(t) \in Pages \ ProgramPages
    BY <2>1, PageInRange, TreeAssumption
  <2>3. LeafIn(table, Current(t)) = Zero
    BY <1>3, <1>4, <2>2 DEF TreeInv, TreeOK, SharedZero
  <2> QED BY <1>4, <2>3 DEF LeafIn
<1> HIDE DEF slot
<1>10. lev[slot[1]] > 1
  BY <1>3, <1>4
<1>11. /\ TreeOK(table', pool \ {f})
       /\ \A p \in Pages : /\ WalkIn(table, p).level = 1 => WalkIn(table', p) = WalkIn(table, p)
                           /\ LeafIn(table', p) = LeafIn(table, p)
  BY <1>2, <1>4, <1>5, <1>6, <1>8, <1>9, <1>10, TableLinked DEF TreeInv
<1> QED BY <1>1, <1>11

-----------------------------------------------------------------------------
(* The owners of the pages. *)

LEMMA RunPages ==
  ASSUME NEW start \in Nat, NEW n \in Nat, NEW set, RunIn(start, n, set)
  PROVE  start .. start + n - 1 \subseteq set
<1> SUFFICES ASSUME NEW p \in start .. start + n - 1
             PROVE  p \in set
  OBVIOUS
<1>1. p - start \in 0 .. n - 1 /\ start + (p - start) = p
  OBVIOUS
<1> QED BY <1>1 DEF RunIn

LEMMA PagesInRemap ==
  ASSUME IInv
  PROVE  /\ \A t \in Threads : PagesOf(op[t]) \subseteq RemapPages
         /\ \A r \in mapped : RegionPages(r) \subseteq RemapPages
         /\ fresh \subseteq RemapPages
         /\ RemapPages \subseteq Pages \ ProgramPages
<1>1. Pages \subseteq Nat
  BY FanOutFacts DEF Pages
<1>2. ASSUME NEW t \in Threads
      PROVE  PagesOf(op[t]) \subseteq RemapPages
  <2>1. op[t] \in CallStates /\ InRange(op[t], table)
    BY CallFacts
  <2>2. op[t].start \in Nat /\ op[t].n \in Nat /\ op[t].end \in Nat
    BY <1>1, <2>1 DEF CallStates
  <2>3. CASE op[t].pc = "unmap"
    <3>1. RunIn(op[t].start, op[t].end, RemapPages)
      BY <2>1, <2>3 DEF InRange
    <3>2. op[t].start .. op[t].start + op[t].end - 1 \subseteq RemapPages
      BY <2>2, <3>1, RunPages
    <3> QED BY <2>3, <3>2 DEF PagesOf
  <2>4. CASE op[t].pc # "unmap"
    <3>1. RunIn(op[t].start, op[t].n, RemapPages)
      BY <2>1 DEF InRange
    <3>2. op[t].start .. op[t].start + op[t].n - 1 \subseteq RemapPages
      BY <2>2, <3>1, RunPages
    <3> QED BY <2>4, <3>2 DEF PagesOf
  <2> QED BY <2>3, <2>4
<1>3. ASSUME NEW r \in mapped
      PROVE  RegionPages(r) \subseteq RemapPages
  <2>1. r.start \in Nat /\ r.n \in Nat
    BY <1>1, TypeParts, TreeAssumption DEF IInv, StoreTypeOK
  <2>2. RunIn(r.start, r.n, RemapPages)
    BY DEF IInv, RegionsDeep, RunIn, Deep
  <2> QED BY <2>1, <2>2, RunPages DEF RegionPages
<1> QED BY <1>2, <1>3, TypeParts, TreeAssumption DEF IInv, StoreTypeOK

\* A step of a call that changes nobody else's pages.
LEMMA OwnStep ==
  ASSUME IInv, OwnerInv, NEW t \in Threads, NEW o, Moves(t, o),
         mapped' = mapped, fresh' = fresh, PagesOf(o) = PagesOf(op[t]),
         \A p \in Pages \ PagesOf(op[t]) : LeafIn(table', p) = LeafIn(table, p),
         \A p \in PagesOf(o) : Progress(o, p, LeafIn(table', p)),
         \A p \in Pages : WalkIn(table, p).level = 1 => WalkIn(table', p) = WalkIn(table, p),
         RunFound(o, table'), CallShape(o)
  PROVE  OwnerInv'
<1>1. op'[t] = o /\ \A u \in Threads \ {t} : op'[u] = op[u]
  BY DEF Moves, IInv, TypeOK
<1>2. \A u \in Threads : PagesOf(op'[u]) = PagesOf(op[u])
  BY <1>1
<1>3. OwnersApart'
  BY <1>2 DEF OwnerInv, OwnersApart
<1>4. /\ \A r \in mapped : RegionPages(r) \subseteq Pages /\ RegionPages(r) \cap PagesOf(op[t]) = {}
      /\ fresh \subseteq Pages /\ fresh \cap PagesOf(op[t]) = {}
      /\ PagesOf(op[t]) \subseteq RemapPages /\ RemapPages \subseteq Pages
  BY PagesInRemap DEF OwnerInv, OwnersApart
<1>5. \A p \in (Pages \ (ProgramPages \cup RemapPages)) \cup fresh : LeafIn(table', p) = Zero
  <2>1. ASSUME NEW p \in (Pages \ (ProgramPages \cup RemapPages)) \cup fresh
        PROVE  LeafIn(table', p) = Zero
    <3>1. LeafIn(table, p) = Zero
      BY DEF OwnerInv, EntriesTold
    <3>2. p \in Pages \ PagesOf(op[t])
      BY <1>4
    <3> QED BY <3>1, <3>2
  <2> QED BY <2>1
<1>6. ASSUME NEW r \in mapped, NEW p \in RegionPages(r)
      PROVE  LeafIn(table', p) = Page(r.pa + p - r.start)
  <2>1. LeafIn(table, p) = Page(r.pa + p - r.start)
    BY DEF OwnerInv, EntriesTold
  <2>2. p \in Pages \ PagesOf(op[t])
    BY <1>4
  <2> QED BY <2>1, <2>2
<1>7. ASSUME NEW u \in Threads, NEW p \in PagesOf(op'[u])
      PROVE  Progress(op'[u], p, LeafIn(table', p))
  <2>1. CASE u = t
    BY <1>1, <1>7, <2>1
  <2>2. CASE u # t
    <3>1. op'[u] = op[u] /\ p \in PagesOf(op[u])
      BY <1>1, <1>7, <2>2
    <3>2. Progress(op[u], p, LeafIn(table, p))
      BY <3>1 DEF OwnerInv, EntriesTold
    <3>3. p \in Pages \ PagesOf(op[t])
      <4>1. PagesOf(op[u]) \cap PagesOf(op[t]) = {}
        BY <2>2 DEF OwnerInv, OwnersApart
      <4>2. p \in Pages
        BY <3>1, PagesInRemap
      <4> QED BY <3>1, <4>1, <4>2
    <3> QED BY <3>1, <3>2, <3>3
  <2> QED BY <2>1, <2>2
<1>8. ASSUME NEW p \in RemapPages, Freed(p)'
      PROVE  LeafIn(table', p) = Marker
  <2>1. Freed(p)
    BY <1>2, <1>8 DEF Freed
  <2>2. LeafIn(table, p) = Marker
    BY <2>1 DEF OwnerInv, EntriesTold
  <2>3. p \in Pages \ PagesOf(op[t])
    BY <1>4, <2>1 DEF Freed
  <2> QED BY <2>2, <2>3
<1>9. EntriesTold'
  BY <1>5, <1>6, <1>7, <1>8 DEF EntriesTold
<1>10. ASSUME NEW u \in Threads
       PROVE  RunFound(op'[u], table') /\ CallShape(op'[u])
  <2>1. CASE u = t
    BY <1>1, <2>1
  <2>2. CASE u # t
    <3>1. op'[u] = op[u] /\ CallShape(op[u]) /\ RunFound(op[u], table)
      BY <1>1, <2>2 DEF OwnerInv
    <3>2. ASSUME op[u].pc = "invalidate", NEW k \in op[u].i .. op[u].end - 1
          PROVE  WalkIn(table', op[u].start + k) = WalkIn(table, op[u].start + k)
      <4>1. op[u] \in CallStates /\ InRange(op[u], table)
        BY CallFacts
      <4>2. k \in 0 .. op[u].n - 1
        BY <3>2, <4>1 DEF CallStates, InRange
      <4>3. op[u].start + k \in Deep(table)
        BY <3>2, <4>1, <4>2 DEF InRange, RunIn
      <4> QED BY <1>4, <4>3 DEF Deep
    <3> QED BY <3>1, <3>2 DEF RunFound
  <2> QED BY <2>1, <2>2
<1> QED BY <1>3, <1>9, <1>10 DEF OwnerInv

\* The pages that a step takes from the free ones, from regions in use and from
\* the call of its thread.
Taken(t) ==
  {p \in RemapPages : \/ p \in PagesOf(op[t])
                      \/ p \in fresh \ fresh'
                      \/ \E r \in mapped \ mapped' : p \in RegionPages(r)}

\* A step that hands pages from one owner to another, and writes no entry.
LEMMA HandOver ==
  ASSUME IInv, OwnerInv, NEW t \in Threads, NEW o, Moves(t, o), table' = table,
         PagesOf(o) \subseteq Taken(t),
         fresh' \ fresh \subseteq Taken(t) \ PagesOf(o),
         \A r \in mapped' \ mapped : /\ RegionPages(r) \subseteq Taken(t) \ PagesOf(o)
                                     /\ RegionPages(r) \cap fresh' = {},
         \A r, s \in mapped' \ mapped : r = s,
         \A p \in PagesOf(o) : Progress(o, p, LeafIn(table, p)),
         \A p \in fresh' \ fresh : LeafIn(table, p) = Zero,
         \A r \in mapped' \ mapped : \A p \in RegionPages(r) :
           LeafIn(table, p) = Page(r.pa + p - r.start),
         \A p \in Taken(t) :
           \/ p \in PagesOf(o) \/ p \in fresh' \/ \E r \in mapped' : p \in RegionPages(r)
           \/ LeafIn(table, p) = Marker,
         RunFound(o, table), CallShape(o)
  PROVE  OwnerInv'
<1> DEFINE taken == Taken(t)
<1>1. op'[t] = o /\ \A u \in Threads \ {t} : op'[u] = op[u]
  BY DEF Moves, IInv, TypeOK
<1>2. \A p : p \in taken => \/ p \in PagesOf(op[t])
                            \/ p \in fresh \ fresh'
                            \/ \E r \in mapped \ mapped' : p \in RegionPages(r)
  BY DEF Taken
<1>3. \A p \in RemapPages : \/ p \in PagesOf(op[t])
                            \/ p \in fresh \ fresh'
                            \/ \E r \in mapped \ mapped' : p \in RegionPages(r)
                            => p \in taken
  BY DEF Taken
<1> HIDE DEF taken
<1>4. ASSUME NEW r \in mapped, r \in mapped'
      PROVE  RegionPages(r) \cap taken = {}
  <2>1. ASSUME NEW p \in RegionPages(r), p \in taken
        PROVE  FALSE
    <3>1. p \notin PagesOf(op[t]) /\ p \notin fresh
      BY <2>1 DEF OwnerInv, OwnersApart
    <3>2. PICK s \in mapped \ mapped' : p \in RegionPages(s)
      BY <1>2, <2>1, <3>1
    <3>3. s # r
      BY <1>4, <3>2
    <3> QED BY <1>4, <2>1, <3>2, <3>3 DEF OwnerInv, OwnersApart
  <2> QED BY <2>1
<1>5. ASSUME NEW u \in Threads \ {t}
      PROVE  PagesOf(op[u]) \cap taken = {}
  <2>1. ASSUME NEW p \in PagesOf(op[u]), p \in taken
        PROVE  FALSE
    <3>1. p \notin PagesOf(op[t]) /\ p \notin fresh
      BY <2>1 DEF OwnerInv, OwnersApart
    <3>2. PICK s \in mapped \ mapped' : p \in RegionPages(s)
      BY <1>2, <2>1, <3>1
    <3> QED BY <2>1, <3>2 DEF OwnerInv, OwnersApart
  <2> QED BY <2>1
<1>6. (fresh \cap fresh') \cap taken = {}
  <2>1. ASSUME NEW p \in fresh \cap fresh', p \in taken
        PROVE  FALSE
    <3>1. p \notin PagesOf(op[t])
      BY <2>1 DEF OwnerInv, OwnersApart
    <3>2. PICK s \in mapped \ mapped' : p \in RegionPages(s)
      BY <1>2, <2>1, <3>1
    <3> QED BY <2>1, <3>2 DEF OwnerInv, OwnersApart
  <2> QED BY <2>1
<1>7. /\ PagesOf(o) \subseteq taken
      /\ fresh' \ fresh \subseteq taken \ PagesOf(o)
      /\ \A r \in mapped' \ mapped : /\ RegionPages(r) \subseteq taken \ PagesOf(o)
                                     /\ RegionPages(r) \cap fresh' = {}
  BY DEF taken
<1>8. OwnersApart'
  <2>1. ASSUME NEW r \in mapped', NEW s \in mapped', r # s
        PROVE  RegionPages(r) \cap RegionPages(s) = {}
    <3>1. CASE r \in mapped /\ s \in mapped
      BY <2>1, <3>1 DEF OwnerInv, OwnersApart
    <3>2. CASE r \in mapped /\ s \notin mapped
      BY <1>4, <1>7, <3>2
    <3>3. CASE r \notin mapped /\ s \in mapped
      BY <1>4, <1>7, <3>3
    <3>4. CASE r \notin mapped /\ s \notin mapped
      BY <2>1, <3>4
    <3> QED BY <3>1, <3>2, <3>3, <3>4
  <2>2. ASSUME NEW r \in mapped'
        PROVE  RegionPages(r) \cap fresh' = {}
    <3>1. CASE r \in mapped
      <4>1. RegionPages(r) \cap fresh = {} /\ RegionPages(r) \cap taken = {}
        BY <1>4, <3>1 DEF OwnerInv, OwnersApart
      <4> QED BY <1>7, <4>1
    <3>2. CASE r \notin mapped
      BY <1>7, <3>2
    <3> QED BY <3>1, <3>2
  <2>3. ASSUME NEW r \in mapped', NEW u \in Threads
        PROVE  RegionPages(r) \cap PagesOf(op'[u]) = {}
    <3>1. CASE r \in mapped /\ u = t
      BY <1>1, <1>4, <1>7, <3>1
    <3>2. CASE r \in mapped /\ u # t
      BY <1>1, <3>2 DEF OwnerInv, OwnersApart
    <3>3. CASE r \notin mapped /\ u = t
      BY <1>1, <1>7, <3>3
    <3>4. CASE r \notin mapped /\ u # t
      <4>1. op'[u] = op[u] /\ PagesOf(op[u]) \cap taken = {}
        BY <1>1, <1>5, <3>4
      <4> QED BY <1>7, <3>4, <4>1
    <3> QED BY <3>1, <3>2, <3>3, <3>4
  <2>4. ASSUME NEW u \in Threads
        PROVE  PagesOf(op'[u]) \cap fresh' = {}
    <3>1. CASE u = t
      BY <1>1, <1>6, <1>7, <3>1
    <3>2. CASE u # t
      <4>1. op'[u] = op[u] /\ PagesOf(op[u]) \cap taken = {} /\ PagesOf(op[u]) \cap fresh = {}
        BY <1>1, <1>5, <3>2 DEF OwnerInv, OwnersApart
      <4> QED BY <1>7, <4>1
    <3> QED BY <3>1, <3>2
  <2>5. ASSUME NEW u \in Threads, NEW v \in Threads, u # v
        PROVE  PagesOf(op'[u]) \cap PagesOf(op'[v]) = {}
    <3>1. CASE u = t
      <4>1. op'[u] = o /\ op'[v] = op[v] /\ PagesOf(op[v]) \cap taken = {}
        BY <1>1, <1>5, <2>5, <3>1
      <4> QED BY <1>7, <4>1
    <3>2. CASE v = t
      <4>1. op'[v] = o /\ op'[u] = op[u] /\ PagesOf(op[u]) \cap taken = {}
        BY <1>1, <1>5, <2>5, <3>2
      <4> QED BY <1>7, <4>1
    <3>3. CASE u # t /\ v # t
      BY <1>1, <2>5, <3>3 DEF OwnerInv, OwnersApart
    <3> QED BY <3>1, <3>2, <3>3
  <2> QED BY <2>1, <2>2, <2>3, <2>4, <2>5 DEF OwnersApart
<1>9. \A p \in (Pages \ (ProgramPages \cup RemapPages)) \cup fresh' : LeafIn(table', p) = Zero
  <2>1. \A p \in (Pages \ (ProgramPages \cup RemapPages)) \cup fresh : LeafIn(table, p) = Zero
    BY DEF OwnerInv, EntriesTold
  <2> QED BY <2>1
<1>10. ASSUME NEW r \in mapped', NEW p \in RegionPages(r)
       PROVE  LeafIn(table', p) = Page(r.pa + p - r.start)
  <2>1. CASE r \in mapped
    BY <2>1 DEF OwnerInv, EntriesTold
  <2>2. CASE r \notin mapped
    BY <2>2
  <2> QED BY <2>1, <2>2
<1>11. ASSUME NEW u \in Threads, NEW p \in PagesOf(op'[u])
       PROVE  Progress(op'[u], p, LeafIn(table', p))
  <2>1. CASE u = t
    BY <1>1, <1>11, <2>1
  <2>2. CASE u # t
    <3>1. op'[u] = op[u] /\ p \in PagesOf(op[u])
      BY <1>1, <1>11, <2>2
    <3>2. Progress(op[u], p, LeafIn(table, p))
      BY <3>1 DEF OwnerInv, EntriesTold
    <3> QED BY <3>1, <3>2
  <2> QED BY <2>1, <2>2
<1>12. ASSUME NEW p \in RemapPages, Freed(p)'
       PROVE  LeafIn(table', p) = Marker
  <2>1. /\ p \notin fresh' /\ \A r \in mapped' : p \notin RegionPages(r)
        /\ \A u \in Threads : p \notin PagesOf(op'[u])
    BY <1>12 DEF Freed
  <2>2. p \notin PagesOf(o)
    BY <1>1, <2>1
  <2>3. CASE p \in taken
    BY <2>1, <2>2, <2>3 DEF taken
  <2>4. CASE p \notin taken
    <3>1. p \notin PagesOf(op[t]) /\ p \notin fresh
      BY <1>3, <2>1, <2>4
    <3>2. \A r \in mapped : p \notin RegionPages(r)
      BY <1>3, <2>1, <2>4
    <3>3. \A u \in Threads : p \notin PagesOf(op[u])
      BY <1>1, <2>1, <3>1
    <3>4. Freed(p)
      BY <3>1, <3>2, <3>3 DEF Freed
    <3> QED BY <3>4 DEF OwnerInv, EntriesTold
  <2> QED BY <2>3, <2>4
<1>13. EntriesTold'
  BY <1>9, <1>10, <1>11, <1>12 DEF EntriesTold
<1>14. ASSUME NEW u \in Threads
       PROVE  RunFound(op'[u], table') /\ CallShape(op'[u])
  BY <1>1 DEF OwnerInv
<1> QED BY <1>8, <1>13, <1>14 DEF OwnerInv

-----------------------------------------------------------------------------
(* The steps keep the second invariant. *)

\* A step that writes no entry, of a call that keeps its pages.
LEMMA OwnMove ==
  ASSUME IInv, OwnerInv, NEW t \in Threads, NEW o, Moves(t, o), table' = table,
         mapped' = mapped, fresh' = fresh, PagesOf(o) = PagesOf(op[t]),
         \A p \in PagesOf(o) : \A e : Progress(op[t], p, e) => Progress(o, p, e),
         RunFound(o, table), CallShape(o)
  PROVE  OwnerInv'
<1>1. \A p \in PagesOf(o) : Progress(o, p, LeafIn(table', p))
  BY DEF OwnerInv, EntriesTold
<1> QED BY <1>1, OwnStep

\* A step that writes the entry of one of its call's pages.
LEMMA OwnWrite ==
  ASSUME IInv, OwnerInv, NEW t \in Threads, NEW o, Moves(t, o),
         mapped' = mapped, fresh' = fresh, PagesOf(o) = PagesOf(op[t]),
         NEW q \in PagesOf(o), NEW e, Written(q, e), Progress(o, q, e),
         \A p \in PagesOf(o) \ {q} : \A x : Progress(op[t], p, x) => Progress(o, p, x),
         RunFound(o, table'), CallShape(o)
  PROVE  OwnerInv'
<1>1. PagesOf(o) \subseteq Pages
  BY PagesInRemap
<1>2. \A p \in Pages \ PagesOf(op[t]) : LeafIn(table', p) = LeafIn(table, p)
  BY DEF Written
<1>3. ASSUME NEW p \in PagesOf(o)
      PROVE  Progress(o, p, LeafIn(table', p))
  <2>1. CASE p = q
    BY <1>1, <2>1 DEF Written
  <2>2. CASE p # q
    <3>1. Progress(op[t], p, LeafIn(table, p))
      BY DEF OwnerInv, EntriesTold
    <3>2. LeafIn(table', p) = LeafIn(table, p)
      BY <1>1, <2>2 DEF Written
    <3> QED BY <2>2, <3>1, <3>2
  <2> QED BY <2>1, <2>2
<1>4. \A p \in Pages : WalkIn(table, p).level = 1 => WalkIn(table', p) = WalkIn(table, p)
  BY DEF Written
<1> QED BY <1>2, <1>3, <1>4, OwnStep

\* The numbers of a call.
LEMMA CallNumbers ==
  ASSUME NEW o \in CallStates
  PROVE  /\ o.start \in Nat /\ o.n \in Nat /\ o.end \in Nat /\ o.i \in Nat
         /\ o.pa \in Nat
<1>1. Pages \subseteq Nat
  BY FanOutFacts DEF Pages
<1> QED BY <1>1 DEF CallStates

LEMMA LockAndWalkOwners ==
  ASSUME IInv, OwnerInv, NEW t \in Threads, LockAndWalk(t)
  PROVE  OwnerInv'
<1> DEFINE w == Walk(Current(t), 1)
           o == [op[t] EXCEPT !.pc = "level", !.level = w.level, !.slot = w.slot]
<1>1. op[t] \in CallStates /\ op[t].pc = "map"
  BY CallFacts DEF LockAndWalk
<1>2. Moves(t, o) /\ table' = table /\ mapped' = mapped /\ fresh' = fresh
  BY DEF LockAndWalk
<1> HIDE DEF w
<1>3. /\ o.pc = "level" /\ o.start = op[t].start /\ o.n = op[t].n
      /\ o.pa = op[t].pa /\ o.i = op[t].i
  BY <1>1 DEF CallStates
<1> HIDE DEF o
<1>4. PagesOf(o) = PagesOf(op[t])
  BY <1>1, <1>3 DEF PagesOf
<1>5. \A p, e : Progress(op[t], p, e) => Progress(o, p, e)
  BY <1>1, <1>3 DEF Progress
<1>6. RunFound(o, table) /\ CallShape(o)
  BY <1>3 DEF RunFound, CallShape
<1> QED BY <1>2, <1>4, <1>5, <1>6, OwnMove

LEMMA CreateLevelOwners ==
  ASSUME IInv, IInv', TreeInv, NEW t \in Threads, CreateLevel(t)
  PROVE  OwnerInv'
<1>1. PICK f \in pool :
        Moves(t, [op[t] EXCEPT !.level = @ - 1,
                    !.slot = <<f, Index(Current(t), op[t].level - 1)>>])
  BY DEF CreateLevel
<1> DEFINE o == [op[t] EXCEPT !.level = @ - 1,
                   !.slot = <<f, Index(Current(t), op[t].level - 1)>>]
<1>2. op[t] \in CallStates /\ op[t].pc = "level"
  BY CallFacts DEF CreateLevel
<1>3. Moves(t, o) /\ mapped' = mapped /\ fresh' = fresh
  BY <1>1 DEF CreateLevel
<1>4. /\ o.pc = "level" /\ o.start = op[t].start /\ o.n = op[t].n
      /\ o.pa = op[t].pa /\ o.i = op[t].i
  BY <1>2 DEF CallStates
<1> HIDE DEF o
<1>5. PagesOf(o) = PagesOf(op[t])
  BY <1>2, <1>4 DEF PagesOf
<1>6. \A p, e : Progress(op[t], p, e) => Progress(o, p, e)
  BY <1>2, <1>4 DEF Progress
<1>7. \A p \in Pages : /\ WalkIn(table, p).level = 1 => WalkIn(table', p) = WalkIn(table, p)
                       /\ LeafIn(table', p) = LeafIn(table, p)
  BY CreateLevelWrites
<1>8. \A p \in PagesOf(o) : Progress(o, p, LeafIn(table', p))
  <2>1. \A p \in PagesOf(op[t]) : p \in Pages /\ Progress(op[t], p, LeafIn(table, p))
    BY PagesInRemap DEF TreeInv, OwnerInv, EntriesTold
  <2> QED BY <1>5, <1>6, <1>7, <2>1
<1>9. RunFound(o, table') /\ CallShape(o)
  BY <1>4 DEF RunFound, CallShape
<1> QED BY <1>3, <1>5, <1>7, <1>8, <1>9, OwnStep DEF TreeInv

LEMMA CreateLevelFailsOwners ==
  ASSUME IInv, OwnerInv, NEW t \in Threads, CreateLevelFails(t)
  PROVE  OwnerInv'
<1> DEFINE o == [op[t] EXCEPT !.pc = "unmap", !.n = op[t].i, !.i = 0,
                    !.level = Levels, !.slot = NoSlot, !.end = op[t].n]
<1>1. op[t] \in CallStates /\ op[t].pc = "level" /\ op[t].i <= op[t].n
  BY CallFacts DEF CreateLevelFails, InRange
<1>2. Moves(t, o) /\ table' = table /\ mapped' = mapped /\ fresh' = fresh
  BY DEF CreateLevelFails
<1>3. /\ o.pc = "unmap" /\ o.start = op[t].start /\ o.n = op[t].i
      /\ o.pa = op[t].pa /\ o.i = 0 /\ o.end = op[t].n
  BY <1>1 DEF CallStates
<1> HIDE DEF o
<1>4. PagesOf(o) = PagesOf(op[t])
  BY <1>1, <1>3 DEF PagesOf
<1>5. ASSUME NEW p \in PagesOf(o), NEW e, Progress(op[t], p, e)
      PROVE  Progress(o, p, e)
  <2>1. op[t].start \in Nat /\ op[t].start <= p
    BY <1>1, <1>3, <1>5, CallNumbers DEF PagesOf
  <2> QED BY <1>1, <1>3, <1>5, <2>1 DEF Progress
<1>6. RunFound(o, table) /\ CallShape(o)
  BY <1>1, <1>3 DEF RunFound, CallShape
<1> QED BY <1>2, <1>4, <1>5, <1>6, OwnMove

LEMMA WriteEntryOwners ==
  ASSUME IInv, IInv', TreeInv, NEW t \in Threads, WriteEntry(t)
  PROVE  OwnerInv'
<1> DEFINE o == [op[t] EXCEPT !.pc = "map", !.i = @ + 1, !.level = Levels, !.slot = NoSlot]
<1>1. op[t] \in CallStates /\ op[t].pc = "level" /\ op[t].i < op[t].n
  BY CallFacts DEF WriteEntry, InRange
<1>2. Moves(t, o) /\ mapped' = mapped /\ fresh' = fresh
  BY DEF WriteEntry
<1>3. /\ o.pc = "map" /\ o.start = op[t].start /\ o.n = op[t].n
      /\ o.pa = op[t].pa /\ o.i = op[t].i + 1
  BY <1>1 DEF CallStates
<1> HIDE DEF o
<1>4. PagesOf(o) = PagesOf(op[t])
  BY <1>1, <1>3 DEF PagesOf
<1>5. /\ op[t].start \in Nat /\ op[t].n \in Nat /\ op[t].i \in Nat /\ op[t].pa \in Nat
  BY <1>1, CallNumbers
<1>6. PICK q : q = op[t].start + op[t].i
  OBVIOUS
<1>7. q \in PagesOf(o) /\ op[t].pa + op[t].i = op[t].pa + q - op[t].start
  BY <1>1, <1>3, <1>5, <1>6 DEF PagesOf
<1>8. Written(q, Page(op[t].pa + op[t].i))
  BY <1>6, WriteEntryWrites DEF Current
<1>9. Progress(o, q, Page(op[t].pa + op[t].i))
  BY <1>3, <1>5, <1>6, <1>7 DEF Progress
<1>10. ASSUME NEW p \in PagesOf(o) \ {q}, NEW e, Progress(op[t], p, e)
       PROVE  Progress(o, p, e)
  <2>1. p \in Int
    BY <1>3, <1>5 DEF PagesOf
  <2>2. p < o.start + o.i <=> p < op[t].start + op[t].i
    BY <1>3, <1>5, <1>6, <1>10, <2>1
  <2> QED BY <1>1, <1>3, <1>10, <2>2 DEF Progress
<1>11. RunFound(o, table') /\ CallShape(o)
  BY <1>3 DEF RunFound, CallShape
<1> QED BY <1>2, <1>4, <1>7, <1>8, <1>9, <1>10, <1>11, OwnWrite DEF TreeInv

LEMMA UnmapPageOwners ==
  ASSUME IInv, IInv', TreeInv, NEW t \in Threads, UnmapPage(t)
  PROVE  OwnerInv'
<1> DEFINE o == [op[t] EXCEPT !.i = @ + 1]
<1>1. /\ op[t] \in CallStates /\ op[t].pc = "unmap"
      /\ op[t].i < op[t].n /\ op[t].n <= op[t].end
  BY CallFacts DEF UnmapPage, TreeInv, OwnerInv, CallShape
<1>2. Moves(t, o) /\ mapped' = mapped /\ fresh' = fresh
  BY DEF UnmapPage
<1>3. /\ o.pc = "unmap" /\ o.start = op[t].start /\ o.n = op[t].n
      /\ o.pa = op[t].pa /\ o.i = op[t].i + 1 /\ o.end = op[t].end
  BY <1>1 DEF CallStates
<1> HIDE DEF o
<1>4. PagesOf(o) = PagesOf(op[t])
  BY <1>1, <1>3 DEF PagesOf
<1>5. /\ op[t].start \in Nat /\ op[t].n \in Nat /\ op[t].i \in Nat /\ op[t].end \in Nat
  BY <1>1, CallNumbers
<1>6. PICK q : q = op[t].start + op[t].i
  OBVIOUS
<1>7. q \in PagesOf(o)
  BY <1>1, <1>3, <1>5, <1>6 DEF PagesOf
<1>8. Written(q, Zero)
  BY <1>6, UnmapPageWrites DEF Current
<1>9. Progress(o, q, Zero)
  BY <1>3, <1>5, <1>6 DEF Progress
<1>10. ASSUME NEW p \in PagesOf(o) \ {q}, NEW e, Progress(op[t], p, e)
       PROVE  Progress(o, p, e)
  <2>1. p \in Int
    BY <1>3, <1>5 DEF PagesOf
  <2>2. o.start + o.i = q + 1 /\ q \in Int /\ p # q
    BY <1>3, <1>5, <1>6, <1>10
  <2>3. o.start + o.i <= p <=> op[t].start + op[t].i <= p
    BY <1>6, <2>1, <2>2
  <2> QED BY <1>1, <1>3, <1>10, <2>3 DEF Progress
<1>11. RunFound(o, table') /\ CallShape(o)
  BY <1>1, <1>3, IdleState DEF RunFound, CallShape
<1> QED BY <1>2, <1>4, <1>7, <1>8, <1>9, <1>10, <1>11, OwnWrite DEF TreeInv

LEMMA InvalidateEntryOwners ==
  ASSUME IInv, IInv', TreeInv, NEW t \in Threads, InvalidateEntry(t)
  PROVE  OwnerInv'
<1> DEFINE o == AfterEntry(t)
<1>1. /\ op[t] \in CallStates /\ InRange(op[t], table) /\ op[t].pc = "invalidate"
      /\ RunFound(op[t], table)
  BY CallFacts DEF InvalidateEntry, TreeInv, OwnerInv
<1>2. /\ op[t].i \in Nat /\ op[t].end \in Nat /\ op[t].n \in Nat /\ op[t].start \in Nat
      /\ op[t].i < op[t].end /\ op[t].end <= op[t].n
      /\ op[t].slot \in Slots /\ op[t].slot[2] \in Int
  BY <1>1, CallNumbers DEF InRange, CallStates, Slots
<1>3. Moves(t, o) /\ mapped' = mapped /\ fresh' = fresh
  BY DEF InvalidateEntry
<1>4. PICK q : q = op[t].start + op[t].i
  OBVIOUS
<1>5. Written(q, Marker)
  BY <1>4, InvalidateEntryWrites DEF Current
<1>6. /\ o.pc \in {"walk", "invalidate"} /\ o.start = op[t].start
      /\ o.n = op[t].n /\ o.i = op[t].i + 1
      /\ o.pc = "invalidate" => /\ o.end = op[t].end
                                /\ o.slot[1] = op[t].slot[1]
                                /\ o.slot[2] = op[t].slot[2] + 1
  <2>1. CASE op[t].i + 1 < op[t].end
    <3>1. o = [op[t] EXCEPT !.i = @ + 1, !.slot = <<@[1], @[2] + 1>>]
      BY <2>1 DEF AfterEntry
    <3> QED BY <1>1, <3>1 DEF CallStates
  <2>2. CASE ~(op[t].i + 1 < op[t].end)
    <3>1. o = [op[t] EXCEPT !.pc = "walk", !.i = @ + 1, !.end = 0, !.slot = NoSlot]
      BY <2>2 DEF AfterEntry
    <3> QED BY <1>1, <3>1 DEF CallStates
  <2> QED BY <2>1, <2>2
<1> HIDE DEF o
<1>7. PagesOf(o) = PagesOf(op[t]) /\ q \in PagesOf(o)
  <2>1. PagesOf(op[t]) = op[t].start .. op[t].start + op[t].n - 1
    BY <1>1 DEF PagesOf
  <2>2. PagesOf(o) = op[t].start .. op[t].start + op[t].n - 1
    BY <1>6 DEF PagesOf
  <2>3. q \in op[t].start .. op[t].start + op[t].n - 1
    BY <1>2, <1>4
  <2> QED BY <2>1, <2>2, <2>3
<1>8. Progress(o, q, Marker)
  BY <1>2, <1>4, <1>6 DEF Progress
<1>9. ASSUME NEW p \in PagesOf(o) \ {q}, NEW e, Progress(op[t], p, e)
      PROVE  Progress(o, p, e)
  <2>1. p \in Int
    BY <1>2, <1>6 DEF PagesOf
  <2>2. p < o.start + o.i <=> p < op[t].start + op[t].i
    BY <1>2, <1>4, <1>6, <1>9, <2>1
  <2> QED BY <1>1, <1>6, <1>9, <2>2 DEF Progress
<1>10. RunFound(o, table')
  <2>1. ASSUME o.pc = "invalidate", NEW k \in o.i .. o.end - 1
        PROVE  WalkIn(table', o.start + k)
                 = [level |-> 1, slot |-> <<o.slot[1], o.slot[2] + k - o.i>>]
    <3>1. k \in op[t].i .. op[t].end - 1 /\ k \in 0 .. op[t].n - 1
      BY <1>2, <1>6, <2>1
    <3>2. WalkIn(table, op[t].start + k)
            = [level |-> 1, slot |-> <<op[t].slot[1], op[t].slot[2] + k - op[t].i>>]
      BY <1>1, <3>1 DEF RunFound
    <3>3. o.slot[2] + k - o.i = op[t].slot[2] + k - op[t].i
      BY <1>2, <1>6, <2>1, <3>1
    <3>4. op[t].start + k \in Pages
      BY <1>1, <3>1, TreeAssumption DEF InRange, RunIn
    <3>5. WalkIn(table', op[t].start + k) = WalkIn(table, op[t].start + k)
      BY <1>5, <3>4 DEF Written
    <3> QED BY <1>6, <2>1, <3>2, <3>3, <3>5
  <2> QED BY <2>1 DEF RunFound
<1>11. CallShape(o)
  BY <1>6 DEF CallShape
<1> QED BY <1>3, <1>5, <1>7, <1>8, <1>9, <1>10, <1>11, OwnWrite DEF TreeInv

\* The entries of the run are those of the pages that follow, for a table holds
\* the entries of neighbouring pages side by side.
LEMMA WalkToRunOwners ==
  ASSUME IInv, OwnerInv, NEW t \in Threads, WalkToRun(t)
  PROVE  OwnerInv'
<1> DEFINE w == Walk(Current(t), 1)
           rest == op[t].n - op[t].i
           room == FanOut - Index(Current(t), 1)
           end == op[t].i + (IF rest < room THEN rest ELSE room)
           o == [op[t] EXCEPT !.pc = "invalidate", !.slot = w.slot, !.end = end]
<1>1. /\ op[t] \in CallStates /\ InRange(op[t], table)
      /\ op[t].pc = "walk" /\ op[t].i < op[t].n
  BY CallFacts DEF WalkToRun
<1>2. op[t].i \in Nat /\ op[t].n \in Nat /\ op[t].start \in Nat
  BY <1>1, CallNumbers
<1>3. PICK lev : Levelled(lev, table, pool)
  BY StoreFacts
<1>4. PICK q : q = op[t].start + op[t].i
  OBVIOUS
<1>5. table \in Trees /\ q \in Pages /\ Current(t) = q
  BY <1>1, <1>4, PageInRange, StoreFacts DEF Current
<1>6. w = WalkIn(table, q)
  BY <1>5, WalkNow
<1>7. Moves(t, o) /\ table' = table /\ mapped' = mapped /\ fresh' = fresh
  BY DEF WalkToRun
<1> HIDE DEF w
<1>8. Index(q, 1) \in Nat
  <2>1. 1 \in 1 .. Levels
    BY DEF Levels
  <2> QED BY <1>5, <2>1, IndexType
<1>9. end \in Nat /\ end <= op[t].n /\ end - op[t].i <= FanOut - Index(q, 1)
  <2>1. PICK k : k = Index(q, 1) /\ k = Index(Current(t), 1)
    BY <1>5
  <2>2. k \in Nat /\ room = FanOut - k
    BY <1>8, <2>1
  <2>3. end \in Nat /\ end <= op[t].n /\ end - op[t].i <= FanOut - k
    <3> HIDE DEF room
    <3>1. k < FanOut /\ room \in Nat
      <4>1. 1 \in 1 .. Levels
        BY DEF Levels
      <4> QED BY <1>5, <2>1, <2>2, <4>1, IndexType, FanOutFacts
    <3> QED BY <1>1, <1>2, <2>2, <3>1, FanOutFacts
  <2> QED BY <2>1, <2>3
<1> HIDE DEF end
<1>10. /\ o.pc = "invalidate" /\ o.start = op[t].start
       /\ o.n = op[t].n /\ o.i = op[t].i /\ o.end = end /\ o.slot = w.slot
  BY <1>1 DEF CallStates
<1> HIDE DEF o
<1>11. PagesOf(o) = PagesOf(op[t])
  BY <1>1, <1>10 DEF PagesOf
<1>12. \A p, e : Progress(op[t], p, e) => Progress(o, p, e)
  BY <1>1, <1>10 DEF Progress
<1>13. ASSUME NEW j \in 0 .. op[t].n - 1
       PROVE  op[t].start + j \in Pages /\ WalkIn(table, op[t].start + j).level = 1
  <2>1. op[t].start + j \in Deep(table)
    BY <1>1, <1>13 DEF InRange, RunIn
  <2> QED BY <2>1, TreeAssumption DEF Deep
<1>14. WalkIn(table, q).level = 1 /\ w.slot[2] \in Int
  <2>1. WalkIn(table, q).level = 1
    BY <1>1, <1>2, <1>4, <1>13
  <2>2. w.slot \in Slots
    BY <1>3, <1>5, <1>6, WalkOnPath DEF OnPath, Steps
  <2> QED BY <2>1, <2>2 DEF Slots
<1>15. RunFound(o, table)
  <2>1. ASSUME NEW k \in o.i .. o.end - 1
        PROVE  WalkIn(table, o.start + k)
                 = [level |-> 1, slot |-> <<o.slot[1], o.slot[2] + k - o.i>>]
    <3>1. k \in op[t].i .. end - 1 /\ k \in 0 .. op[t].n - 1 /\ k - op[t].i \in Nat
      BY <1>2, <1>9, <1>10
    <3>2. PICK p : p = op[t].start + k
      OBVIOUS
    <3>3. PICK d : d = k - op[t].i
      OBVIOUS
    <3>4. p \in Pages /\ d \in Nat /\ p = q + d /\ Index(q, 1) + d < FanOut
      BY <1>2, <1>4, <1>8, <1>9, <1>13, <3>1, <3>2, <3>3, FanOutFacts
    <3>5. WalkIn(table, p) = [level |-> 1, slot |-> <<w.slot[1], w.slot[2] + d>>]
      BY <1>3, <1>5, <1>6, <1>14, <3>4, NeighbourWalk
    <3>6. o.slot[2] + k - o.i = w.slot[2] + d
      BY <1>2, <1>10, <1>14, <3>1, <3>3
    <3> QED BY <1>10, <3>2, <3>5, <3>6
  <2> QED BY <2>1 DEF RunFound
<1>16. CallShape(o)
  BY <1>10 DEF CallShape
<1> QED BY <1>7, <1>11, <1>12, <1>15, <1>16, OwnMove

LEMMA IdleOwns ==
  PagesOf(Idle) = {} /\ CallShape(Idle) /\ \A T : RunFound(Idle, T)
BY IdleState DEF PagesOf, CallShape, RunFound

LEMMA MapRegionOwners ==
  ASSUME IInv, OwnerInv, NEW t \in Threads, NEW start \in RemapPages,
         NEW n \in 1 .. Cardinality(RemapPages), NEW pa \in PhysStarts,
         MapRegion(t, start, n, pa)
  PROVE  OwnerInv'
<1> DEFINE o == [Idle EXCEPT !.pc = "map", !.start = start, !.n = n, !.pa = pa]
           pages == start .. start + n - 1
<1>1. /\ Moves(t, o) /\ op[t] = Idle /\ table' = table /\ mapped' = mapped
      /\ pages \subseteq fresh /\ fresh' = fresh \ pages
  BY DEF MapRegion, RegionPages, Region
<1>2. /\ o.pc = "map" /\ o.start = start /\ o.n = n /\ o.pa = pa /\ o.i = 0
  BY IdleState DEF CallStates
<1> HIDE DEF o
<1>3. PagesOf(o) = pages /\ start \in Nat
  BY <1>2, TreeAssumption, FanOutFacts DEF PagesOf, Pages
<1>4. Taken(t) = pages
  BY <1>1, IdleOwns, PagesInRemap DEF Taken
<1>5. \A p \in pages : LeafIn(table, p) = Zero
  BY <1>1 DEF OwnerInv, EntriesTold
<1>6. \A p \in pages : Progress(o, p, Zero)
  BY <1>2, <1>3 DEF Progress
<1> HIDE DEF pages
<1>7. RunFound(o, table) /\ CallShape(o)
  BY <1>2 DEF RunFound, CallShape
<1> QED BY <1>1, <1>3, <1>4, <1>5, <1>6, <1>7, HandOver

LEMMA RegionMappedOwners ==
  ASSUME IInv, OwnerInv, NEW t \in Threads, RegionMapped(t)
  PROVE  OwnerInv'
<1> DEFINE r == Region(op[t].start, op[t].n, op[t].pa)
<1>1. op[t] \in CallStates /\ op[t].pc = "map" /\ op[t].i = op[t].n
  BY CallFacts DEF RegionMapped
<1>2. Moves(t, Idle) /\ table' = table /\ fresh' = fresh /\ mapped' = mapped \cup {r}
  BY DEF RegionMapped, Returns
<1>3. RegionPages(r) = PagesOf(op[t]) /\ r.pa = op[t].pa /\ r.start = op[t].start
  BY <1>1 DEF RegionPages, Region, PagesOf
<1> HIDE DEF r
<1>4. Taken(t) = PagesOf(op[t])
  BY <1>2, PagesInRemap DEF Taken
<1>5. RegionPages(r) \cap fresh = {}
  BY <1>3 DEF OwnerInv, OwnersApart
<1>6. ASSUME NEW p \in RegionPages(r)
      PROVE  LeafIn(table, p) = Page(r.pa + p - r.start)
  <2>1. Progress(op[t], p, LeafIn(table, p))
    BY <1>3 DEF OwnerInv, EntriesTold
  <2>2. p < op[t].start + op[t].i
    BY <1>1, <1>3, CallNumbers DEF PagesOf
  <2> QED BY <1>1, <1>3, <2>1, <2>2 DEF Progress
<1>7. mapped' \ mapped \subseteq {r} /\ r \in mapped'
  BY <1>2
<1> QED BY <1>2, <1>3, <1>4, <1>5, <1>6, <1>7, IdleOwns, HandOver

LEMMA RegionFailedOwners ==
  ASSUME IInv, OwnerInv, NEW t \in Threads, RegionFailed(t)
  PROVE  OwnerInv'
<1>1. op[t] \in CallStates /\ op[t].pc = "unmap" /\ op[t].i = op[t].n
  BY CallFacts DEF RegionFailed
<1>2. /\ Moves(t, Idle) /\ table' = table /\ mapped' = mapped
      /\ fresh' = fresh \cup PagesOf(op[t])
  BY <1>1 DEF RegionFailed, Returns, RegionPages, Region, PagesOf
<1>3. Taken(t) = PagesOf(op[t])
  BY <1>2, PagesInRemap DEF Taken
<1>4. ASSUME NEW p \in PagesOf(op[t])
      PROVE  LeafIn(table, p) = Zero
  <2>1. Progress(op[t], p, LeafIn(table, p))
    BY DEF OwnerInv, EntriesTold
  <2>2. p \in Int /\ op[t].start \in Nat /\ op[t].i \in Nat
    BY <1>1, CallNumbers DEF PagesOf
  <2> QED BY <1>1, <2>1, <2>2 DEF Progress
<1> QED BY <1>2, <1>3, <1>4, IdleOwns, HandOver

LEMMA InvalidateTailOwners ==
  ASSUME IInv, OwnerInv, NEW t \in Threads, NEW r \in mapped, NEW from \in 0 .. r.n - 1,
         InvalidateTail(t, r, from)
  PROVE  OwnerInv'
<1> DEFINE o == [Idle EXCEPT !.pc = "walk", !.start = r.start + from, !.n = r.n - from]
           kept == Region(r.start, from, r.pa)
           head == r.start .. r.start + from - 1
<1>1. /\ Moves(t, o) /\ op[t] = Idle /\ table' = table /\ fresh' = fresh
      /\ mapped' = (mapped \ {r}) \cup (IF from = 0 THEN {} ELSE {kept})
  BY DEF InvalidateTail
<1>2. r.start \in Nat /\ r.n \in Nat /\ from \in Nat /\ from < r.n
  <2>1. r.start \in Pages /\ r.n \in Nat
    BY TypeParts, TreeAssumption DEF IInv, StoreTypeOK
  <2> QED BY <2>1, FanOutFacts DEF Pages
<1>3. /\ o.pc = "walk" /\ o.start = r.start + from /\ o.n = r.n - from /\ o.i = 0
  BY IdleState DEF CallStates
<1> HIDE DEF o
<1>4. PagesOf(o) = r.start + from .. r.start + r.n - 1
  BY <1>2, <1>3 DEF PagesOf
<1>5. /\ kept.n = from /\ kept.pa = r.pa /\ kept.start = r.start
      /\ RegionPages(kept) = head
  BY DEF Region, RegionPages
<1> HIDE DEF kept
<1>6. r \notin mapped' /\ mapped' \ mapped \subseteq {kept}
  BY <1>1, <1>2, <1>5
<1>7. Taken(t) = RegionPages(r)
  <2>1. mapped \ mapped' = {r}
    BY <1>1, <1>6
  <2> QED BY <1>1, <2>1, IdleOwns, PagesInRemap DEF Taken
<1>8. /\ PagesOf(o) \subseteq RegionPages(r) /\ head \subseteq RegionPages(r)
      /\ head \cap PagesOf(o) = {}
      /\ RegionPages(r) \subseteq head \cup PagesOf(o)
  BY <1>2, <1>4 DEF RegionPages
<1>9. from = 0 => head = {}
  BY <1>2
<1> HIDE DEF head
<1>10. \A p \in RegionPages(r) : LeafIn(table, p) = Page(r.pa + p - r.start)
  BY DEF OwnerInv, EntriesTold
<1>11. \A p \in PagesOf(o) : Progress(o, p, LeafIn(table, p))
  <2>1. \A p \in PagesOf(o) : LeafIn(table, p).kind = "page" /\ ~(p < o.start + o.i)
    BY <1>2, <1>3, <1>4, <1>8, <1>10 DEF Page
  <2> QED BY <1>3, <2>1 DEF Progress
<1>12. RegionPages(r) \cap fresh = {}
  BY DEF OwnerInv, OwnersApart
<1>13. \A s \in mapped' \ mapped : /\ RegionPages(s) \subseteq Taken(t) \ PagesOf(o)
                                   /\ RegionPages(s) \cap fresh' = {}
  BY <1>1, <1>5, <1>6, <1>7, <1>8, <1>12
<1>14. \A s \in mapped' \ mapped : \A p \in RegionPages(s) :
         LeafIn(table, p) = Page(s.pa + p - s.start)
  BY <1>5, <1>6, <1>8, <1>10
<1>15. \A p \in Taken(t) : p \in PagesOf(o) \/ \E s \in mapped' : p \in RegionPages(s)
  BY <1>1, <1>5, <1>7, <1>8, <1>9
<1>16. RunFound(o, table) /\ CallShape(o)
  BY <1>3 DEF RunFound, CallShape
<1> QED BY <1>1, <1>6, <1>7, <1>8, <1>11, <1>13, <1>14, <1>15, <1>16, HandOver

LEMMA InvalidatedOwners ==
  ASSUME IInv, OwnerInv, NEW t \in Threads, Invalidated(t)
  PROVE  OwnerInv'
<1>1. op[t] \in CallStates /\ op[t].pc = "walk" /\ op[t].i = op[t].n
  BY CallFacts DEF Invalidated
<1>2. Moves(t, Idle) /\ table' = table /\ mapped' = mapped /\ fresh' = fresh
  BY DEF Invalidated, Returns
<1>3. Taken(t) = PagesOf(op[t])
  BY <1>2, PagesInRemap DEF Taken
<1>4. ASSUME NEW p \in PagesOf(op[t])
      PROVE  LeafIn(table, p) = Marker
  <2>1. Progress(op[t], p, LeafIn(table, p))
    BY DEF OwnerInv, EntriesTold
  <2>2. p < op[t].start + op[t].i
    BY <1>1, CallNumbers DEF PagesOf
  <2> QED BY <1>1, <2>1, <2>2 DEF Progress
<1> QED BY <1>2, <1>3, <1>4, IdleOwns, HandOver

LEMMA NextTree == IInv /\ IInv' /\ TreeInv /\ [Next]_vars => TreeInv'
<1> SUFFICES ASSUME IInv, IInv', TreeInv, [Next]_vars PROVE TreeInv'
  OBVIOUS
<1>1. OwnerInv /\ TreeOK(table, pool)
  BY DEF TreeInv
<1>2. CASE UNCHANGED <<table, pool, fresh, mapped, op>>
  <2>1. OwnerInv'
    BY <1>1, <1>2 DEF OwnerInv, OwnersApart, EntriesTold, Freed
  <2> QED BY <1>1, <1>2, <2>1 DEF TreeInv
<1>3. ASSUME NEW t \in Threads, Call(t)
      PROVE  TreeInv'
  <2>1. OwnerInv'
    BY <1>1, <1>3, MapRegionOwners, InvalidateTailOwners DEF Call
  <2>2. table' = table /\ pool' = pool
    BY <1>3 DEF Call, MapRegion, InvalidateTail
  <2> QED BY <1>1, <2>1, <2>2 DEF TreeInv
<1>4. ASSUME NEW t \in Threads, Step(t)
      PROVE  TreeInv'
  <2>1. CASE CreateLevel(t) \/ WriteEntry(t) \/ UnmapPage(t) \/ InvalidateEntry(t)
    <3>1. OwnerInv'
      BY <2>1, CreateLevelOwners, WriteEntryOwners, UnmapPageOwners, InvalidateEntryOwners
    <3>2. TreeOK(table', pool')
      BY <2>1, CreateLevelWrites, WriteEntryWrites, UnmapPageWrites, InvalidateEntryWrites
    <3> QED BY <3>1, <3>2 DEF TreeInv
  <2>2. CASE \/ LockAndWalk(t) \/ CreateLevelFails(t) \/ RegionMapped(t)
             \/ RegionFailed(t) \/ WalkToRun(t) \/ Invalidated(t)
    <3>1. OwnerInv'
      BY <1>1, <2>2, LockAndWalkOwners, CreateLevelFailsOwners, RegionMappedOwners,
         RegionFailedOwners, WalkToRunOwners, InvalidatedOwners
    <3>2. table' = table /\ pool' = pool
      BY <2>2 DEF LockAndWalk, CreateLevelFails, RegionMapped, RegionFailed, WalkToRun,
         Invalidated
    <3> QED BY <1>1, <3>1, <3>2 DEF TreeInv
  <2> QED BY <1>4, <2>1, <2>2 DEF Step
<1>5. ASSUME NEW t \in Threads, NEW p \in CachedPages, FillTlb(t, p)
      PROVE  TreeInv'
  BY <1>2, <1>5 DEF FillTlb
<1>6. CASE UNCHANGED vars
  BY <1>2, <1>6 DEF vars
<1> QED BY <1>3, <1>4, <1>5, <1>6 DEF Next

LEMMA InitTree == Init => TreeInv
<1> SUFFICES ASSUME Init PROVE TreeInv
  OBVIOUS
<1>1. IInv
  BY InitInv
<1>2. table \in Trees
  BY <1>1, StoreFacts
<1>3. /\ Root \in Frames /\ Low \in Frames /\ Root # Low
      /\ Frames \ pool = {Root, Low}
      /\ Root \notin pool /\ Low \notin pool
      /\ 0 \in 0 .. FanOut - 1
  BY TreeAssumption, FanOutFacts DEF Init, Root, Low, Frames, PoolFrames
<1>4. \A s \in Slots : /\ s[1] \in Frames /\ s[2] \in 0 .. FanOut - 1 /\ s = <<s[1], s[2]>>
                       /\ EntryIn(table, s) = InitialEntry(s[1], s[2])
  BY DEF Init, EntryIn, Slots
<1>5. ProgramMapped(table)
  <2>1. EntryIn(table, <<Root, 0>>) = table[Root][0]
    BY DEF EntryIn
  <2>2. \A i : EntryIn(table, <<Low, i>>) = table[Low][i]
    BY DEF EntryIn
  <2> QED BY <1>3, <2>1, <2>2 DEF Init, InitialEntry, ProgramMapped
<1>6. ASSUME NEW s \in Slots, s[1] \notin pool, EntryIn(table, s).kind = "table"
      PROVE  s = <<Root, 0>>
  <2>1. s[1] = Root \/ s[1] = Low
    BY <1>3, <1>4, <1>6
  <2>2. s[1] = Root /\ s[2] = 0
    BY <1>3, <1>4, <1>6, <2>1 DEF InitialEntry, Page, Zero
  <2> QED BY <1>4, <2>2
<1>7. LinkedOnce(table, pool)
  <2>1. <<Root, 0>> \in Slots
    BY <1>3 DEF Slots
  <2>2. EntryIn(table, <<Root, 0>>) = Table(Low)
    BY <1>5 DEF ProgramMapped
  <2>3. PICK s : s = <<Root, 0>>
    OBVIOUS
  <2>4. s[1] = Root
    BY <2>3
  <2>5. \A f \in Frames \ (pool \cup {Root}) : f = Low
    BY <1>3
  <2> QED BY <1>3, <1>6, <2>1, <2>2, <2>3, <2>4, <2>5 DEF LinkedOnce
<1>8. ASSUME NEW p \in Pages \ ProgramPages
      PROVE  LeafIn(table, p) = Zero
  <2>1. Index(p, Levels) \in 0 .. FanOut - 1 /\ Index(p, Levels) # 0
    <3>1. Levels \in 1 .. Levels
      BY DEF Levels
    <3> QED BY <3>1, IndexType, ProgramPagesFirst DEF Levels
  <2>2. PICK i : i = Index(p, Levels)
    OBVIOUS
  <2>3. Start(p) = [level |-> Levels, slot |-> <<Root, i>>]
    BY <2>2 DEF Start, At
  <2>4. table[Root][i] = Zero
    BY <1>3, <2>1, <2>2 DEF Init, InitialEntry
  <2>5. EntryIn(table, Start(p).slot) = Zero
    BY <2>3, <2>4 DEF EntryIn
  <2>6. WalkIn(table, p) = Start(p)
    BY <2>5 DEF WalkIn, Down, GoesDown, Zero
  <2> QED BY <2>5, <2>6 DEF LeafIn
<1>9. TreeOK(table, pool)
  BY <1>5, <1>7, <1>8 DEF TreeOK, SharedZero
<1>10. mapped = {} /\ fresh = RemapPages /\ \A t \in Threads : op[t] = Idle
  BY DEF Init
<1>11. OwnersApart
  BY <1>10, IdleOwns DEF OwnersApart
<1>12. EntriesTold
  <2>1. RemapPages \subseteq Pages \ ProgramPages
    BY TreeAssumption
  <2> QED BY <1>8, <1>10, <2>1, IdleOwns DEF EntriesTold, Freed
<1> QED BY <1>9, <1>10, <1>11, <1>12, IdleOwns DEF TreeInv, OwnerInv

LEMMA TreeHolds == Spec => [](IInv /\ TreeInv)
<1>1. Init => TreeInv
  BY InitTree
<1>2. IInv /\ IInv' /\ TreeInv /\ [Next]_vars => TreeInv'
  BY NextTree
<1>3. Spec => []IInv
  BY InvariantHolds
<1> QED BY <1>1, <1>2, <1>3, PTL DEF Spec

-----------------------------------------------------------------------------
(* What the tables tell about a page. *)

\* pt_resolve, from the entry of a page that is not the program's.
Meaning(e) ==
  CASE e.kind = "page" -> e.page
    [] e.kind = "marker" -> -2
    [] e.kind = "zero" -> -1
    [] OTHER -> -3

LEMMA MeaningType ==
  ASSUME IInv, NEW p \in Pages
  PROVE  /\ Meaning(LeafIn(table, p)) \in Int
         /\ LeafIn(table, p).kind = "page" => Meaning(LeafIn(table, p)) \in Nat
<1>1. PICK lev : Levelled(lev, table, pool)
  BY StoreFacts
<1>2. LeafIn(table, p) \in Entries
  <2>1. WalkIn(table, p).slot \in Slots
    BY <1>1, StoreFacts, WalkOnPath DEF OnPath, Steps
  <2> QED BY <2>1, StoreFacts, EntryInType DEF LeafIn
<1>3. LeafIn(table, p).kind = "page" => LeafIn(table, p).page \in Nat
  BY <1>2, PageEntry, FanOutFacts DEF Pages
<1> QED BY <1>3 DEF Meaning

\* The page of such an entry is exact: it is of the lowest level.
LEMMA PageIsSmall ==
  ASSUME NEW T \in Trees, NEW P, NEW lev, Levelled(lev, T, P), SharedZero(T),
         NEW p \in Pages \ ProgramPages, LeafIn(T, p).kind = "page"
  PROVE  LeafIn(T, p).page + (p % Mapped(WalkIn(T, p).level)) = LeafIn(T, p).page
<1>1. WalkIn(T, p).level \in 1 .. Levels /\ WalkIn(T, p).slot \in Slots
  BY WalkOnPath DEF OnPath, Steps
<1>2. ~(WalkIn(T, p).level > 1)
  BY DEF SharedZero, Zero
<1>3. Mapped(WalkIn(T, p).level) = 1
  BY <1>1, <1>2 DEF Mapped, Levels
<1>4. LeafIn(T, p).page \in Pages
  BY <1>1, EntryInType, PageEntry DEF LeafIn
<1>5. p % 1 = 0 /\ LeafIn(T, p).page \in Nat
  BY <1>4, FanOutFacts DEF Pages
<1>6. PICK m : m = Mapped(WalkIn(T, p).level)
  OBVIOUS
<1>7. PICK x : x = LeafIn(T, p).page
  OBVIOUS
<1>8. x \in Nat /\ p % m = 0 /\ x + (p % m) = x
  BY <1>3, <1>5, <1>6, <1>7
<1> QED BY <1>6, <1>7, <1>8

LEMMA ResolveNow ==
  ASSUME IInv, TreeOK(table, pool), NEW p \in Pages \ ProgramPages
  PROVE  Resolve(p) = Meaning(LeafIn(table, p)) /\ Leaf(p) = LeafIn(table, p)
<1>1. PICK lev : Levelled(lev, table, pool)
  BY StoreFacts
<1>2. Walk(p, 1) = WalkIn(table, p) /\ table \in Trees
  BY StoreFacts, WalkNow
<1>3. Entry(WalkIn(table, p).slot) = LeafIn(table, p)
  BY DEF Entry, LeafIn, EntryIn
<1>4. LeafIn(table, p).kind = "page" =>
        LeafIn(table, p).page + (p % Mapped(WalkIn(table, p).level)) = LeafIn(table, p).page
  BY <1>1, <1>2, PageIsSmall DEF TreeOK
<1>5. Resolve(p) = Meaning(LeafIn(table, p))
  BY <1>2, <1>3, <1>4 DEF Resolve, Meaning
<1> QED BY <1>2, <1>3, <1>5 DEF Leaf

LEMMA ResolveNext ==
  ASSUME IInv', TreeOK(table', pool'), NEW p \in Pages \ ProgramPages
  PROVE  Resolve(p)' = Meaning(LeafIn(table', p))
<1>1. table' \in Trees
  BY TypeParts DEF IInv, TypeOK, Trees
<1>2. PICK lev : Levelled(lev, table', pool')
  BY DEF IInv, TreeLevels
<1>3. Walk(p, 1)' = WalkIn(table', p)
  BY <1>1, WalkNext
<1>4. LeafIn(table', p).kind = "page" =>
        LeafIn(table', p).page + (p % Mapped(WalkIn(table', p).level)) = LeafIn(table', p).page
  BY <1>1, <1>2, PageIsSmall DEF TreeOK
<1> QED BY <1>3, <1>4 DEF Resolve, Meaning, Entry, LeafIn, EntryIn

\* The tables form a tree, and no frame is lost: a frame is with the page
\* allocator, or one entry leads to it, also after mappings that failed half-way.
THEOREM TablesStayTree == Spec => []TablesFormTree
<1>1. ASSUME IInv, TreeInv
      PROVE  TablesFormTree
  <2>1. PICK lev : Levelled(lev, table, pool)
    BY <1>1, StoreFacts
  <2>2. /\ Root \in Frames /\ Low \in Frames /\ Low # Root /\ Root \notin PoolFrames
        /\ PoolFrames \subseteq Frames /\ pool \subseteq PoolFrames
    BY <1>1, TypeParts, TreeAssumption DEF Root, Low, Frames, PoolFrames, IInv, StoreTypeOK
  <2>3. \A s : Entry(s) = EntryIn(table, s)
    BY DEF Entry, EntryIn
  <2>4. \A f : Table(f).kind = "table" /\ Table(f).frame = f
    BY DEF Table
  \* An entry that leads to a frame gives it a level.
  <2>5. ASSUME NEW f, NEW s \in LinksTo(f)
        PROVE  /\ s \in Slots /\ s[1] \notin pool /\ EntryIn(table, s) = Table(f)
               /\ lev[f] \in 1 .. Levels - 1
    <3>1. s \in Slots /\ s[1] \notin pool /\ EntryIn(table, s) = Table(f)
      BY <2>3, <2>5 DEF LinksTo
    <3>2. s[1] \in Frames
      BY <3>1 DEF Slots
    <3>3. lev[s[1]] \in 1 .. Levels
      BY <2>1, <3>1, <3>2 DEF Levelled, Levels
    <3>4. lev[s[1]] > 1 /\ lev[f] = lev[s[1]] - 1
      BY <2>1, <2>4, <3>1, <3>3 DEF Levelled, Levels
    <3> QED BY <3>1, <3>3, <3>4 DEF Levels
  <2>6. LinksTo(Root) = {}
    BY <2>1, <2>5 DEF Levelled, Levels
  <2>7. ASSUME NEW f \in Frames \ (pool \cup {Root})
        PROVE  Cardinality(LinksTo(f)) = 1
    <3>1. PICK s \in Slots : s[1] \notin pool /\ EntryIn(table, s) = Table(f)
      BY <1>1 DEF TreeInv, TreeOK, LinkedOnce
    <3>2. s \in LinksTo(f)
      BY <2>3, <3>1 DEF LinksTo
    <3>3. \A r \in LinksTo(f) : r = s
      BY <1>1, <2>4, <2>5, <3>1 DEF TreeInv, TreeOK, LinkedOnce
    <3>4. LinksTo(f) = {s}
      BY <3>2, <3>3
    <3> QED BY <3>4, FS_Singleton
  <2>8. ASSUME NEW f \in pool
        PROVE  Cardinality(LinksTo(f)) = 0
    <3>1. LinksTo(f) = {}
      BY <2>1, <2>5 DEF Levelled, Levels
    <3> QED BY <3>1, FS_EmptySet
  <2>9. Low \notin pool
    BY <2>2 DEF Low, PoolFrames
  <2> QED BY <2>2, <2>6, <2>7, <2>8, <2>9 DEF TablesFormTree
<1> QED BY <1>1, TreeHolds, PTL

\* What pt_map_page and virtual_invalidate assert: a mapping finds neither a table
\* nor a page where it writes, although the other threads map, unmap and invalidate
\* pages of the same tables meanwhile, and virtual_invalidate finds every page
\* still mapped by an entry of the lowest level.
THEOREM AssertionsNeverFail == Spec => []AssertionsHold
<1>1. ASSUME IInv, TreeInv, TablesFound
      PROVE  AssertionsHold
  <2>1. PICK lev : Levelled(lev, table, pool)
    BY <1>1, StoreFacts
  <2>2. ASSUME NEW t \in Threads, op[t].i < op[t].n, op[t].pc \in {"level", "walk"}
        PROVE  /\ Current(t) \in Pages \ ProgramPages
               /\ Progress(op[t], Current(t), LeafIn(table, Current(t)))
               /\ ~(Current(t) < op[t].start + op[t].i)
    <3>1. Current(t) \in Pages \ ProgramPages
      BY <1>1, <2>2, PageInRange, TreeAssumption
    <3>2. op[t].start \in Nat /\ op[t].i \in Nat /\ op[t].n \in Nat
      BY <1>1, CallFacts, CallNumbers
    <3>3. Current(t) \in PagesOf(op[t])
      BY <2>2, <3>2 DEF Current, PagesOf
    <3> QED BY <1>1, <3>1, <3>2, <3>3 DEF TreeInv, OwnerInv, EntriesTold, Current
  <2>3. ASSUME NEW t \in Threads, op[t].pc = "level"
        PROVE  Entry(op[t].slot).kind # "page"
    <3>1. op[t].i < op[t].n
      BY <1>1, <2>3, CallFacts DEF InRange
    <3>2. LeafIn(table, Current(t)) = Zero
      BY <2>2, <2>3, <3>1 DEF Progress
    <3>3. WalkIn(table, Current(t)).slot = op[t].slot
      BY <1>1, <2>1, <2>3, AtLevel
    <3> QED BY <3>2, <3>3 DEF LeafIn, EntryIn, Entry, Zero
  <2>4. ASSUME NEW t \in Threads, op[t].pc = "walk", op[t].i < op[t].n
        PROVE  Leaf(Current(t)).kind = "page"
    <3>1. LeafIn(table, Current(t)).kind = "page" /\ Current(t) \in Pages \ ProgramPages
      BY <2>2, <2>4 DEF Progress
    <3> QED BY <1>1, <3>1, ResolveNow DEF TreeInv
  <2> QED BY <1>1, <2>3, <2>4 DEF AssertionsHold
<1> QED BY <1>1, TreeHolds, WalksFindTables, PTL

\* A page that no call has at hand is what its history says: memory of the chunk
\* it was mapped to, a dangling pointer that the page-fault handler reports, or
\* nothing of dangless's; and the program's own pages stay as they were.
THEOREM AccessesStayRight == Spec => []AccessesJudgedRight
<1>1. ASSUME IInv, TreeInv
      PROVE  AccessesJudgedRight
  <2> SUFFICES ASSUME NEW p \in Pages, ~InCall(p)
               PROVE  \/ p \in ProgramPages /\ Resolve(p) = p
                      \/ /\ p \notin RemapPages \ fresh /\ p \notin ProgramPages
                         /\ Resolve(p) = -1 /\ ~ReportsDangling(p)
                      \/ \E r \in mapped : p \in RegionPages(r) /\ Resolve(p) = r.pa + p - r.start
                      \/ /\ p \in RemapPages \ fresh /\ \A r \in mapped : p \notin RegionPages(r)
                         /\ ReportsDangling(p)
    BY DEF AccessesJudgedRight
  <2>1. \A t \in Threads : p \notin PagesOf(op[t])
    BY DEF InCall, PagesOf
  <2>2. OwnerInv /\ TreeOK(table, pool) /\ EntriesTold
    BY <1>1 DEF TreeInv, OwnerInv
  <2>3. CASE p \in ProgramPages
    <3>1. ProgramMapped(table) /\ table \in Trees
      BY <1>1, <2>2, StoreFacts DEF TreeOK
    <3>2. Walk(p, 1) = WalkIn(table, p)
      BY <3>1, WalkNow
    <3>3. WalkIn(table, p) = At(p, Low, 3) /\ LeafIn(table, p) = Page(Index(p, 3) * Mapped(3))
      BY <2>3, <3>1, ProgramWalk
    <3>4. Entry(WalkIn(table, p).slot) = LeafIn(table, p)
      BY DEF Entry, LeafIn, EntryIn
    <3>5. WalkIn(table, p).level = 3
      BY <3>3 DEF At
    <3>6. \A x : Page(x).kind = "page" /\ Page(x).page = x
      BY DEF Page
    <3>7. Resolve(p) = Index(p, 3) * Mapped(3) + (p % Mapped(3))
      BY <3>2, <3>3, <3>4, <3>5, <3>6 DEF Resolve
    <3> QED BY <2>3, <3>7, ProgramPagesFirst
  <2>4. CASE p \notin ProgramPages
    <3>1. Resolve(p) = Meaning(LeafIn(table, p)) /\ Leaf(p) = LeafIn(table, p)
      BY <1>1, <2>2, <2>4, ResolveNow
    <3>2. CASE p \notin RemapPages \ fresh
      <4>1. LeafIn(table, p) = Zero
        BY <2>2, <2>4, <3>2 DEF EntriesTold
      <4> QED BY <2>4, <3>1, <3>2, <4>1 DEF Meaning, Zero, Marker, ReportsDangling
    <3>3. ASSUME NEW r \in mapped, p \in RegionPages(r)
          PROVE  Resolve(p) = r.pa + p - r.start
      <4>1. LeafIn(table, p) = Page(r.pa + p - r.start)
        BY <2>2, <3>3 DEF EntriesTold
      <4> QED BY <3>1, <4>1 DEF Meaning, Page
    <3>4. CASE p \in RemapPages \ fresh /\ \A r \in mapped : p \notin RegionPages(r)
      <4>1. LeafIn(table, p) = Marker
        BY <2>1, <2>2, <3>4 DEF EntriesTold, Freed
      <4> QED BY <3>1, <3>4, <4>1 DEF ReportsDangling
    <3> QED BY <3>2, <3>3, <3>4
  <2> QED BY <2>3, <2>4
<1> QED BY <1>1, TreeHolds, PTL

\* A thread that takes a page's translation away does not reach the page through
\* the TLB of its own processor afterwards: whatever else is in the tables that
\* unmapping and invalidating write to, they flush the page whose entry they write.
THEOREM FlushesOwnTlb == Spec => FlushesWhatItChanges
<1> DEFINE Flushes ==
      \A t \in Threads : op'[t] # op[t] =>
        \A p \in RemapPages :
          Resolve(p) >= 0 /\ Resolve(p)' < 0 => \A e \in tlb'[t] : e[1] # p
<1>1. ASSUME IInv, IInv', TreeInv, TreeInv', [Next]_vars
      PROVE  Flushes
  <2> SUFFICES ASSUME NEW t \in Threads, op'[t] # op[t], NEW p \in RemapPages,
                      Resolve(p) >= 0, Resolve(p)' < 0
               PROVE  \A e \in tlb'[t] : e[1] # p
    OBVIOUS
  <2>1. p \in Pages \ ProgramPages
    BY TreeAssumption
  <2>2. Resolve(p) = Meaning(LeafIn(table, p)) /\ Resolve(p)' = Meaning(LeafIn(table', p))
    BY <1>1, <2>1, ResolveNow, ResolveNext DEF TreeInv
  <2>3. LeafIn(table', p) # LeafIn(table, p)
    <3>1. SUFFICES ASSUME LeafIn(table', p) = LeafIn(table, p)
                   PROVE  FALSE
      OBVIOUS
    <3>2. Resolve(p) = Resolve(p)'
      BY <2>2, <3>1
    <3>3. PICK a : a = Resolve(p)
      OBVIOUS
    <3>4. a >= 0 /\ a < 0
      BY <3>2, <3>3
    <3>5. a \in Int
      BY <1>1, <2>1, <2>2, <3>3, MeaningType
    <3> QED BY <3>4, <3>5
  <2>4. PICK u \in Threads : CreateLevel(u) \/ WriteEntry(u) \/ UnmapPage(u) \/ InvalidateEntry(u)
    <3>1. table' # table
      BY <2>3
    <3> QED BY <1>1, <3>1 DEF Next, Call, Step, MapRegion, InvalidateTail, LockAndWalk,
          CreateLevelFails, RegionMapped, RegionFailed, WalkToRun, Invalidated, FillTlb, vars
  <2>5. u = t
    <3>1. \E o : Moves(u, o)
      BY <2>4 DEF CreateLevel, WriteEntry, UnmapPage, InvalidateEntry
    <3> QED BY <1>1, <3>1 DEF Moves, IInv, TypeOK
  <2>6. ~CreateLevel(t)
    BY <1>1, <2>1, <2>3, CreateLevelWrites
  <2>7. ~WriteEntry(t)
    <3>1. SUFFICES ASSUME WriteEntry(t) PROVE FALSE
      OBVIOUS
    <3>2. LeafIn(table', p) = Page(op[t].pa + op[t].i)
      BY <1>1, <2>1, <2>3, <3>1, WriteEntryWrites DEF Written
    <3>3. op[t].pa + op[t].i \in Nat
      BY <1>1, CallFacts, CallNumbers
    <3>4. Meaning(LeafIn(table', p)) = op[t].pa + op[t].i
      BY <3>2 DEF Meaning, Page
    <3> QED BY <2>2, <3>3, <3>4
  <2>8. p = Current(t) /\ Flush(t, Current(t))
    <3>1. CASE UnmapPage(t)
      BY <1>1, <2>1, <2>3, <3>1, UnmapPageWrites DEF Written
    <3>2. CASE InvalidateEntry(t)
      <4>1. Written(Current(t), Marker)
        BY <1>1, <3>2, InvalidateEntryWrites
      <4> QED BY <2>1, <2>3, <3>2, <4>1 DEF Written, InvalidateEntry
    <3> QED BY <2>4, <2>5, <2>6, <2>7, <3>1, <3>2
  <2>9. tlb'[t] = {e \in tlb[t] : e[1] # p}
    BY <1>1, <2>8 DEF Flush, IInv, TypeOK
  <2> QED BY <2>9
<1>2. IInv /\ IInv' /\ TreeInv /\ TreeInv' /\ [Next]_vars => Flushes
  BY <1>1
<1>3. [](IInv /\ TreeInv) /\ [][Next]_vars => [][Flushes]_vars
  BY <1>2, PTL
<1> QED BY <1>3, TreeHolds, PTL DEF Spec, FlushesWhatItChanges

-----------------------------------------------------------------------------
(* The tables implement the flat address space. *)

SpaceNow == [p \in RemapPages |-> Resolve(p)]
CallsNow == [t \in Threads |-> CallOf(t)]

\* What the flat address space sees of a call.
CallIn(o) ==
  [kind |-> CASE o.pc = "idle" -> "none"
              [] o.pc \in {"map", "level"} -> "map"
              [] o.pc = "unmap" -> "undo"
              [] OTHER -> "invalidate",
   start |-> o.start, pa |-> o.pa, n |-> IF o.pc = "unmap" THEN o.end ELSE o.n]

LEMMA IdleCall == CallIn(Idle) = Flat!NoCall
<1>1. Idle.pa = 0
  BY DEF Idle
<1> QED BY <1>1, IdleState DEF CallIn, Flat!NoCall

LEMMA CallsAre ==
  ASSUME OwnerInv
  PROVE  \A t \in Threads : /\ CallsNow[t] = CallIn(op[t])
                            /\ Flat!CallPages(CallsNow[t]) = PagesOf(op[t])
<1> SUFFICES ASSUME NEW t \in Threads
             PROVE  CallsNow[t] = CallIn(op[t]) /\ Flat!CallPages(CallsNow[t]) = PagesOf(op[t])
  OBVIOUS
<1>1. CallsNow[t] = CallIn(op[t])
  BY DEF CallsNow, CallOf, CallIn
<1>2. CASE op[t].pc = "idle"
  <2>1. CallIn(op[t]).start = 0 /\ CallIn(op[t]).n = 0
    BY <1>2, IdleState DEF OwnerInv, CallShape, CallIn
  <2>2. Flat!CallPages(CallIn(op[t])) = {}
    BY <2>1 DEF Flat!CallPages
  <2> QED BY <1>1, <1>2, <2>2 DEF PagesOf
<1>3. CASE op[t].pc # "idle"
  <2>1. CallIn(op[t]).start = op[t].start
    BY DEF CallIn
  <2>2. CallIn(op[t]).n = IF op[t].pc = "unmap" THEN op[t].end ELSE op[t].n
    BY DEF CallIn
  <2> QED BY <1>1, <1>3, <2>1, <2>2 DEF Flat!CallPages, PagesOf
<1> QED BY <1>1, <1>2, <1>3

LEMMA CallStep ==
  ASSUME IInv, NEW t \in Threads, NEW o, Moves(t, o)
  PROVE  CallsNow' = [CallsNow EXCEPT ![t] = CallIn(o)]
<1>1. op'[t] = o /\ \A u \in Threads \ {t} : op'[u] = op[u]
  BY DEF Moves, IInv, TypeOK
<1>2. CallsNow' = [u \in Threads |-> CallIn(op'[u])]
  BY DEF CallsNow, CallOf, CallIn
<1>3. CallsNow = [u \in Threads |-> CallIn(op[u])]
  BY DEF CallsNow, CallOf, CallIn
<1> QED BY <1>1, <1>2, <1>3

LEMMA SpaceIs ==
  ASSUME IInv, TreeInv
  PROVE  \A p \in RemapPages : SpaceNow[p] = Meaning(LeafIn(table, p))
BY ResolveNow, TreeAssumption DEF SpaceNow, TreeInv

\* One page at most is another one after a step.
LEMMA SpaceStep ==
  ASSUME IInv, IInv', TreeInv, TreeInv', NEW q \in RemapPages, NEW v,
         \A p \in RemapPages :
           Meaning(LeafIn(table', p)) = IF p = q THEN v ELSE Meaning(LeafIn(table, p))
  PROVE  SpaceNow' = [SpaceNow EXCEPT ![q] = v]
<1>1. RemapPages \subseteq Pages \ ProgramPages
  BY TreeAssumption
<1>2. \A p \in RemapPages : Resolve(p)' = Meaning(LeafIn(table', p))
  BY <1>1, ResolveNext DEF TreeInv
<1>3. \A p \in RemapPages : Resolve(p) = Meaning(LeafIn(table, p))
  BY <1>1, ResolveNow DEF TreeInv
<1>4. SpaceNow' = [p \in RemapPages |-> Resolve(p)']
  BY DEF SpaceNow
<1>5. SpaceNow = [p \in RemapPages |-> Resolve(p)]
  BY DEF SpaceNow
<1> QED BY <1>2, <1>3, <1>4, <1>5

LEMMA SpaceKept ==
  ASSUME IInv, IInv', TreeInv, TreeInv',
         \A p \in RemapPages : LeafIn(table', p) = LeafIn(table, p)
  PROVE  SpaceNow' = SpaceNow
<1>1. RemapPages \subseteq Pages \ ProgramPages
  BY TreeAssumption
<1>2. \A p \in RemapPages : Resolve(p)' = Resolve(p)
  BY <1>1, ResolveNow, ResolveNext DEF TreeInv
<1> QED BY <1>2 DEF SpaceNow

\* A call about a run of pages that dangless may map.
LEMMA RunIsCall ==
  ASSUME NEW start \in Nat, NEW n \in Nat \ {0}, start .. start + n - 1 \subseteq RemapPages
  PROVE  /\ \A pa \in PhysStarts :
              [kind |-> "map", start |-> start, n |-> n, pa |-> pa] \in Flat!Calls
         /\ [kind |-> "invalidate", start |-> start, n |-> n, pa |-> 0] \in Flat!Calls
<1>1. n <= Cardinality(RemapPages) /\ Cardinality(RemapPages) \in Nat
  <2>1. Cardinality(start .. start + n - 1) = n
    <3>1. start + n - 1 \in Int /\ ~(start > start + n - 1)
          /\ (start + n - 1) - start + 1 = n
      OBVIOUS
    <3> QED BY <3>1, FS_Interval
  <2>2. IsFiniteSet(RemapPages)
    BY TreeAssumption
  <2> QED BY <2>1, <2>2, FS_Subset, FS_CardinalityType
<1>2. PICK r : r = <<start, n>>
  OBVIOUS
<1>3. r \in RemapPages \X (1 .. Cardinality(RemapPages)) /\ r[1] = start /\ r[2] = n
  BY <1>1, <1>2
<1>4. r[1] .. r[1] + r[2] - 1 \subseteq RemapPages
  BY <1>3
<1>5. Flat!Cardinality(RemapPages) = Cardinality(RemapPages)
  BY DEF Flat!Cardinality, Cardinality
<1> QED BY <1>3, <1>4, <1>5 DEF Flat!Calls

LEMMA MapRegionFlat ==
  ASSUME IInv, IInv', TreeInv, TreeInv', NEW t \in Threads, NEW start \in RemapPages,
         NEW n \in 1 .. Cardinality(RemapPages), NEW pa \in PhysStarts,
         MapRegion(t, start, n, pa)
  PROVE  Flat!Begin(t)
<1> DEFINE o == [Idle EXCEPT !.pc = "map", !.start = start, !.n = n, !.pa = pa]
           c == [kind |-> "map", start |-> start, n |-> n, pa |-> pa]
           pages == start .. start + n - 1
<1>1. Moves(t, o) /\ op[t] = Idle /\ pages \subseteq fresh /\ table' = table
  BY DEF MapRegion, RegionPages, Region
<1>2. start \in Nat /\ n \in Nat \ {0}
  BY TreeAssumption, FanOutFacts, FS_CardinalityType DEF Pages
<1>3. c \in Flat!Calls
  <2>1. pages \subseteq RemapPages
    BY <1>1, PagesInRemap
  <2> QED BY <1>2, <2>1, RunIsCall
<1>4. CallIn(o) = c
  <2>1. o.pc = "map" /\ o.start = start /\ o.n = n /\ o.pa = pa
    BY IdleState DEF CallStates
  <2> HIDE DEF o
  <2> QED BY <2>1 DEF CallIn
<1>5. CallsNow[t] = Flat!NoCall
  BY <1>1, CallsAre, IdleCall DEF TreeInv
<1>6. c.kind = "map" /\ Flat!CallPages(c) = pages
  BY DEF Flat!CallPages
<1> HIDE DEF o, c, pages
<1>7. CallsNow' = [CallsNow EXCEPT ![t] = c]
  BY <1>1, <1>4, CallStep
<1>8. \A u \in Threads : Flat!CallPages(CallsNow[u]) \cap Flat!CallPages(c) = {}
  <2>1. \A u \in Threads : PagesOf(op[u]) \cap fresh = {}
    BY DEF TreeInv, OwnerInv, OwnersApart
  <2> QED BY <1>1, <1>6, <2>1, CallsAre DEF TreeInv
<1>9. \A p \in pages : SpaceNow[p] = Flat!Unmapped
  <2>1. \A p \in pages : p \in RemapPages /\ LeafIn(table, p) = Zero
    BY <1>1, PagesInRemap DEF TreeInv, OwnerInv, EntriesTold
  <2>2. Meaning(Zero) = Flat!Unmapped
    BY DEF Meaning, Zero, Flat!Unmapped
  <2> QED BY <2>1, <2>2, SpaceIs
<1>10. SpaceNow' = SpaceNow
  BY <1>1, SpaceKept
<1> QED BY <1>3, <1>5, <1>6, <1>7, <1>8, <1>9, <1>10 DEF Flat!Begin, SpaceNow, CallsNow

LEMMA InvalidateTailFlat ==
  ASSUME IInv, IInv', TreeInv, TreeInv', NEW t \in Threads, NEW r \in mapped,
         NEW from \in 0 .. r.n - 1, InvalidateTail(t, r, from)
  PROVE  Flat!Begin(t)
<1> DEFINE o == [Idle EXCEPT !.pc = "walk", !.start = r.start + from, !.n = r.n - from]
           start == r.start + from
           n == r.n - from
           c == [kind |-> "invalidate", start |-> start, n |-> n, pa |-> 0]
           pages == start .. start + n - 1
<1>1. Moves(t, o) /\ op[t] = Idle /\ table' = table
  BY DEF InvalidateTail
<1>2. r.start \in Nat /\ r.n \in Nat /\ start \in Nat /\ n \in Nat \ {0}
  <2>1. r.start \in Pages /\ r.n \in Nat
    BY TypeParts, TreeAssumption DEF IInv, StoreTypeOK
  <2>2. r.start \in Nat
    BY <2>1, FanOutFacts DEF Pages
  <2> QED BY <2>1, <2>2
<1>3. pages \subseteq RegionPages(r)
  BY <1>2 DEF RegionPages
<1>4. CallIn(o) = c
  <2>1. o.pc = "walk" /\ o.start = start /\ o.n = n /\ o.pa = 0
    BY IdleState DEF CallStates, Idle
  <2> HIDE DEF o
  <2> QED BY <2>1 DEF CallIn
<1>5. CallsNow[t] = Flat!NoCall
  BY <1>1, CallsAre, IdleCall DEF TreeInv
<1>6. c.kind = "invalidate" /\ Flat!CallPages(c) = pages
  BY DEF Flat!CallPages
<1>7. c \in Flat!Calls
  <2>1. pages \subseteq RemapPages
    BY <1>3, PagesInRemap
  <2> HIDE DEF start, n
  <2> QED BY <1>2, <2>1, RunIsCall
<1> HIDE DEF o, c, start, n, pages
<1>8. CallsNow' = [CallsNow EXCEPT ![t] = c]
  BY <1>1, <1>4, CallStep
<1>9. \A u \in Threads : Flat!CallPages(CallsNow[u]) \cap Flat!CallPages(c) = {}
  <2>1. \A u \in Threads : RegionPages(r) \cap PagesOf(op[u]) = {}
    BY DEF TreeInv, OwnerInv, OwnersApart
  <2> QED BY <1>3, <1>6, <2>1, CallsAre DEF TreeInv
<1>10. ASSUME NEW p \in pages
       PROVE  SpaceNow[p] \in Nat
  <2>1. p \in RegionPages(r) /\ p \in RemapPages /\ p \in Pages
    BY <1>3, PagesInRemap
  <2>2. LeafIn(table, p) = Page(r.pa + p - r.start)
    BY <2>1 DEF TreeInv, OwnerInv, EntriesTold
  <2>3. LeafIn(table, p).kind = "page"
    BY <2>2 DEF Page
  <2> QED BY <2>1, <2>3, MeaningType, SpaceIs
<1>11. SpaceNow' = SpaceNow
  BY <1>1, SpaceKept
<1> QED BY <1>5, <1>6, <1>7, <1>8, <1>9, <1>10, <1>11 DEF Flat!Begin, SpaceNow, CallsNow

\* A step that writes the entry of one of the call's pages.
LEMMA WriteFlat ==
  ASSUME IInv, IInv', TreeInv, TreeInv', NEW t \in Threads, NEW o, Moves(t, o),
         CallIn(o) = CallIn(op[t]), NEW q \in PagesOf(op[t]), NEW e, Written(q, e),
         Meaning(e) = Flat!Target(CallIn(op[t]), q)
  PROVE  Flat!Change(t)
<1>1. q \in RemapPages /\ RemapPages \subseteq Pages
  BY PagesInRemap
<1>2. CallsNow[t] = CallIn(op[t]) /\ Flat!CallPages(CallsNow[t]) = PagesOf(op[t])
  BY CallsAre DEF TreeInv
<1>3. CallsNow' = CallsNow
  <2>1. CallsNow' = [CallsNow EXCEPT ![t] = CallsNow[t]]
    BY <1>2, CallStep
  <2> QED BY <2>1 DEF CallsNow
<1>4. SpaceNow' = [SpaceNow EXCEPT ![q] = Flat!Target(CallsNow[t], q)]
  <2>1. \A p \in RemapPages :
          Meaning(LeafIn(table', p)) = IF p = q THEN Meaning(e) ELSE Meaning(LeafIn(table, p))
    BY <1>1 DEF Written
  <2>2. SpaceNow' = [SpaceNow EXCEPT ![q] = Meaning(e)]
    BY <1>1, <2>1, SpaceStep
  <2> QED BY <1>2, <2>2
<1> QED BY <1>2, <1>3, <1>4 DEF Flat!Change, SpaceNow, CallsNow

LEMMA WriteEntryFlat ==
  ASSUME IInv, IInv', TreeInv, TreeInv', NEW t \in Threads, WriteEntry(t)
  PROVE  Flat!Change(t)
<1> DEFINE o == [op[t] EXCEPT !.pc = "map", !.i = @ + 1, !.level = Levels, !.slot = NoSlot]
<1>1. op[t] \in CallStates /\ op[t].pc = "level" /\ op[t].i < op[t].n /\ Moves(t, o)
  BY CallFacts DEF WriteEntry, InRange
<1>2. o.pc = "map" /\ o.start = op[t].start /\ o.n = op[t].n /\ o.pa = op[t].pa
  BY <1>1 DEF CallStates
<1> HIDE DEF o
<1>3. CallIn(o) = CallIn(op[t])
  BY <1>1, <1>2 DEF CallIn
<1>4. /\ op[t].start \in Nat /\ op[t].n \in Nat /\ op[t].i \in Nat /\ op[t].pa \in Nat
  BY <1>1, CallNumbers
<1>5. Current(t) \in PagesOf(op[t])
  BY <1>1, <1>4 DEF Current, PagesOf
<1>6. Written(Current(t), Page(op[t].pa + op[t].i))
  BY WriteEntryWrites
<1>7. Meaning(Page(op[t].pa + op[t].i)) = Flat!Target(CallIn(op[t]), Current(t))
  <2>1. Meaning(Page(op[t].pa + op[t].i)) = op[t].pa + op[t].i
    BY DEF Meaning, Page
  <2>2. /\ CallIn(op[t]).kind = "map" /\ CallIn(op[t]).pa = op[t].pa
        /\ CallIn(op[t]).start = op[t].start
    BY <1>1 DEF CallIn
  <2>3. Flat!Target(CallIn(op[t]), Current(t)) = op[t].pa + Current(t) - op[t].start
    BY <2>2 DEF Flat!Target
  <2>4. op[t].pa + Current(t) - op[t].start = op[t].pa + op[t].i
    BY <1>4 DEF Current
  <2> QED BY <2>1, <2>3, <2>4
<1> QED BY <1>1, <1>3, <1>5, <1>6, <1>7, WriteFlat

LEMMA UnmapPageFlat ==
  ASSUME IInv, IInv', TreeInv, TreeInv', NEW t \in Threads, UnmapPage(t)
  PROVE  Flat!Change(t)
<1> DEFINE o == [op[t] EXCEPT !.i = @ + 1]
<1>1. /\ op[t] \in CallStates /\ op[t].pc = "unmap" /\ Moves(t, o)
      /\ op[t].i < op[t].n /\ op[t].n <= op[t].end
  BY CallFacts DEF UnmapPage, TreeInv, OwnerInv, CallShape
<1>2. o.pc = "unmap" /\ o.start = op[t].start /\ o.end = op[t].end /\ o.pa = op[t].pa
  BY <1>1 DEF CallStates
<1> HIDE DEF o
<1>3. CallIn(o) = CallIn(op[t])
  BY <1>1, <1>2 DEF CallIn
<1>4. /\ op[t].start \in Nat /\ op[t].n \in Nat /\ op[t].i \in Nat /\ op[t].end \in Nat
  BY <1>1, CallNumbers
<1>5. Current(t) \in PagesOf(op[t])
  BY <1>1, <1>4 DEF Current, PagesOf
<1>6. Written(Current(t), Zero)
  BY UnmapPageWrites
<1>7. Meaning(Zero) = Flat!Target(CallIn(op[t]), Current(t))
  <2>1. CallIn(op[t]).kind = "undo"
    BY <1>1 DEF CallIn
  <2> QED BY <2>1 DEF Flat!Target, Flat!Unmapped, Meaning, Zero
<1> QED BY <1>1, <1>3, <1>5, <1>6, <1>7, WriteFlat

LEMMA InvalidateEntryFlat ==
  ASSUME IInv, IInv', TreeInv, TreeInv', NEW t \in Threads, InvalidateEntry(t)
  PROVE  Flat!Change(t)
<1> DEFINE o == AfterEntry(t)
<1>1. /\ op[t] \in CallStates /\ op[t].pc = "invalidate" /\ Moves(t, o)
      /\ op[t].i < op[t].n
  <2>1. op[t] \in CallStates /\ op[t].pc = "invalidate" /\ InRange(op[t], table)
    BY CallFacts DEF InvalidateEntry
  <2>2. op[t].i \in Nat /\ op[t].n \in Nat /\ op[t].end \in Nat
    BY <2>1, CallNumbers
  <2> QED BY <2>1, <2>2 DEF InvalidateEntry, InRange
<1>2. /\ o.pc \in {"walk", "invalidate"} /\ o.start = op[t].start
      /\ o.n = op[t].n /\ o.pa = op[t].pa
  <2>1. CASE op[t].i + 1 < op[t].end
    <3>1. o = [op[t] EXCEPT !.i = @ + 1, !.slot = <<@[1], @[2] + 1>>]
      BY <2>1 DEF AfterEntry
    <3> QED BY <1>1, <3>1 DEF CallStates
  <2>2. CASE ~(op[t].i + 1 < op[t].end)
    <3>1. o = [op[t] EXCEPT !.pc = "walk", !.i = @ + 1, !.end = 0, !.slot = NoSlot]
      BY <2>2 DEF AfterEntry
    <3> QED BY <1>1, <3>1 DEF CallStates
  <2> QED BY <2>1, <2>2
<1> HIDE DEF o
<1>3. CallIn(o) = CallIn(op[t])
  BY <1>1, <1>2 DEF CallIn
<1>4. /\ op[t].start \in Nat /\ op[t].n \in Nat /\ op[t].i \in Nat
  BY <1>1, CallNumbers
<1>5. Current(t) \in PagesOf(op[t])
  BY <1>1, <1>4 DEF Current, PagesOf
<1>6. Written(Current(t), Marker)
  BY InvalidateEntryWrites
<1>7. Meaning(Marker) = Flat!Target(CallIn(op[t]), Current(t))
  <2>1. CallIn(op[t]).kind = "invalidate"
    BY <1>1 DEF CallIn
  <2> QED BY <2>1 DEF Flat!Target, Flat!Invalidated, Meaning, Marker
<1> QED BY <1>1, <1>3, <1>5, <1>6, <1>7, WriteFlat

\* A step that returns, all pages of the call being as it promised.
LEMMA ReturnFlat ==
  ASSUME IInv, IInv', TreeInv, TreeInv', NEW t \in Threads, Moves(t, Idle), table' = table,
         op[t].pc # "idle",
         \A p \in PagesOf(op[t]) :
           Meaning(LeafIn(table, p)) = Flat!Target(CallIn(op[t]), p)
  PROVE  Flat!End(t)
<1>1. CallsNow[t] = CallIn(op[t]) /\ Flat!CallPages(CallsNow[t]) = PagesOf(op[t])
  BY CallsAre DEF TreeInv
<1>2. CallsNow[t] # Flat!NoCall
  <2>1. CallIn(op[t]).kind # "none"
    BY DEF CallIn
  <2>2. Flat!NoCall.kind = "none"
    BY DEF Flat!NoCall
  <2> QED BY <1>1, <2>1, <2>2
<1>3. CallsNow' = [CallsNow EXCEPT ![t] = Flat!NoCall]
  BY CallStep, IdleCall
<1>4. \A p \in PagesOf(op[t]) : SpaceNow[p] = Flat!Target(CallsNow[t], p)
  <2>1. PagesOf(op[t]) \subseteq RemapPages
    BY PagesInRemap
  <2> QED BY <1>1, <2>1, SpaceIs
<1>5. SpaceNow' = SpaceNow
  BY SpaceKept
<1>6. \A p \in PagesOf(op[t]) : SpaceNow'[p] = Flat!Target(CallsNow[t], p)
  BY <1>4, <1>5
<1> QED BY <1>1, <1>2, <1>3, <1>5, <1>6 DEF Flat!End, SpaceNow, CallsNow

LEMMA ReturnsFlat ==
  ASSUME IInv, IInv', TreeInv, TreeInv', NEW t \in Threads,
         RegionMapped(t) \/ RegionFailed(t) \/ Invalidated(t)
  PROVE  Flat!End(t)
<1>1. /\ Moves(t, Idle) /\ table' = table /\ op[t].i = op[t].n
      /\ op[t].pc \in {"map", "unmap", "walk"}
  BY DEF RegionMapped, RegionFailed, Invalidated, Returns
<1>2. /\ op[t].start \in Nat /\ op[t].i \in Nat /\ op[t].n \in Nat /\ op[t].end \in Nat
  BY CallFacts, CallNumbers
<1>3. ASSUME NEW p \in PagesOf(op[t])
      PROVE  Meaning(LeafIn(table, p)) = Flat!Target(CallIn(op[t]), p)
  <2>1. Progress(op[t], p, LeafIn(table, p))
    BY DEF TreeInv, OwnerInv, EntriesTold
  <2>2. CallIn(op[t]).start = op[t].start /\ CallIn(op[t]).pa = op[t].pa
    BY DEF CallIn
  <2>3. CASE op[t].pc = "map"
    <3>1. p < op[t].start + op[t].i /\ CallIn(op[t]).kind = "map"
      BY <1>1, <1>2, <2>3 DEF PagesOf, CallIn
    <3>2. LeafIn(table, p) = Page(op[t].pa + p - op[t].start)
      BY <2>1, <2>3, <3>1 DEF Progress
    <3> QED BY <2>2, <3>1, <3>2 DEF Meaning, Page, Flat!Target
  <2>4. CASE op[t].pc = "unmap"
    <3>1. p \in Int /\ ~(op[t].start + op[t].i <= p /\ p < op[t].start + op[t].n)
      BY <1>1, <1>2, <2>4 DEF PagesOf
    <3>2. LeafIn(table, p) = Zero
      BY <2>1, <2>4, <3>1 DEF Progress
    <3>3. CallIn(op[t]).kind = "undo"
      BY <2>4 DEF CallIn
    <3> QED BY <3>2, <3>3 DEF Meaning, Zero, Flat!Target, Flat!Unmapped
  <2>5. CASE op[t].pc = "walk"
    <3>1. p < op[t].start + op[t].i /\ CallIn(op[t]).kind = "invalidate"
      BY <1>1, <1>2, <2>5 DEF PagesOf, CallIn
    <3>2. LeafIn(table, p) = Marker
      BY <2>1, <2>5, <3>1 DEF Progress
    <3> QED BY <3>1, <3>2 DEF Meaning, Marker, Flat!Target, Flat!Invalidated
  <2> QED BY <1>1, <2>3, <2>4, <2>5
<1> QED BY <1>1, <1>3, ReturnFlat

LEMMA CreateLevelFailsFlat ==
  ASSUME IInv, IInv', TreeInv, TreeInv', NEW t \in Threads, CreateLevelFails(t)
  PROVE  Flat!GiveUp(t)
<1> DEFINE o == [op[t] EXCEPT !.pc = "unmap", !.n = op[t].i, !.i = 0,
                    !.level = Levels, !.slot = NoSlot, !.end = op[t].n]
<1>1. op[t] \in CallStates /\ op[t].pc = "level" /\ Moves(t, o) /\ table' = table
  BY CallFacts DEF CreateLevelFails
<1>2. o.pc = "unmap" /\ o.start = op[t].start /\ o.pa = op[t].pa /\ o.end = op[t].n
  BY <1>1 DEF CallStates
<1> HIDE DEF o
<1>3. CallsNow[t] = CallIn(op[t])
  BY CallsAre DEF TreeInv
<1>4. CallIn(op[t]) = [kind |-> "map", start |-> op[t].start, pa |-> op[t].pa, n |-> op[t].n]
  BY <1>1 DEF CallIn
<1>5. CallIn(o) = [kind |-> "undo", start |-> op[t].start, pa |-> op[t].pa, n |-> op[t].n]
  BY <1>2 DEF CallIn
<1>6. CallIn(o) = [CallsNow[t] EXCEPT !.kind = "undo"] /\ CallsNow[t].kind = "map"
  BY <1>3, <1>4, <1>5
<1>7. CallsNow' = [CallsNow EXCEPT ![t].kind = "undo"]
  BY <1>1, <1>6, CallStep
<1>8. SpaceNow' = SpaceNow
  BY <1>1, SpaceKept
<1> QED BY <1>6, <1>7, <1>8 DEF Flat!GiveUp, SpaceNow, CallsNow

\* Walking, making a table and filling the TLB change nothing that a caller sees.
LEMMA HiddenSteps ==
  ASSUME IInv, IInv', TreeInv, TreeInv', NEW t \in Threads,
         LockAndWalk(t) \/ CreateLevel(t) \/ WalkToRun(t)
  PROVE  SpaceNow' = SpaceNow /\ CallsNow' = CallsNow
<1>1. op[t] \in CallStates
  BY CallFacts
<1>2. PICK o : Moves(t, o) /\ CallIn(o) = CallIn(op[t])
  <2>1. CASE LockAndWalk(t)
    <3>1. PICK w : Moves(t, [op[t] EXCEPT !.pc = "level", !.level = w.level, !.slot = w.slot])
      BY <2>1 DEF LockAndWalk
    <3> DEFINE o == [op[t] EXCEPT !.pc = "level", !.level = w.level, !.slot = w.slot]
    <3>2. /\ op[t].pc = "map" /\ o.pc = "level" /\ o.start = op[t].start
          /\ o.pa = op[t].pa /\ o.n = op[t].n
      BY <1>1, <2>1 DEF LockAndWalk, CallStates
    <3> HIDE DEF o
    <3>3. CallIn(o) = CallIn(op[t])
      BY <3>2 DEF CallIn
    <3> QED BY <3>1, <3>3 DEF o
  <2>2. CASE CreateLevel(t)
    <3>1. PICK s : Moves(t, [op[t] EXCEPT !.level = @ - 1, !.slot = s])
      BY <2>2 DEF CreateLevel
    <3> DEFINE o == [op[t] EXCEPT !.level = @ - 1, !.slot = s]
    <3>2. o.pc = op[t].pc /\ o.start = op[t].start /\ o.pa = op[t].pa /\ o.n = op[t].n
          /\ o.end = op[t].end
      BY <1>1 DEF CallStates
    <3> HIDE DEF o
    <3>3. CallIn(o) = CallIn(op[t])
      BY <3>2 DEF CallIn
    <3> QED BY <3>1, <3>3 DEF o
  <2>3. CASE WalkToRun(t)
    <3>1. PICK s, e : Moves(t, [op[t] EXCEPT !.pc = "invalidate", !.slot = s, !.end = e])
      BY <2>3 DEF WalkToRun
    <3> DEFINE o == [op[t] EXCEPT !.pc = "invalidate", !.slot = s, !.end = e]
    <3>2. /\ op[t].pc = "walk" /\ o.pc = "invalidate" /\ o.start = op[t].start
          /\ o.pa = op[t].pa /\ o.n = op[t].n
      BY <1>1, <2>3 DEF WalkToRun, CallStates
    <3> HIDE DEF o
    <3>3. CallIn(o) = CallIn(op[t])
      BY <3>2 DEF CallIn
    <3> QED BY <3>1, <3>3 DEF o
  <2> QED BY <2>1, <2>2, <2>3
<1>3. CallsNow' = CallsNow
  <2>1. CallsNow' = [CallsNow EXCEPT ![t] = CallsNow[t]]
    BY <1>2, CallStep, CallsAre DEF TreeInv
  <2> QED BY <2>1 DEF CallsNow
<1>4. \A p \in RemapPages : LeafIn(table', p) = LeafIn(table, p)
  <2>1. CASE CreateLevel(t)
    BY <2>1, CreateLevelWrites, TreeAssumption
  <2>2. CASE LockAndWalk(t) \/ WalkToRun(t)
    BY <2>2 DEF LockAndWalk, WalkToRun
  <2> QED BY <2>1, <2>2
<1> QED BY <1>3, <1>4, SpaceKept

LEMMA FlatStep ==
  IInv /\ IInv' /\ TreeInv /\ TreeInv' /\ [Next]_vars => [Flat!Next]_Flat!vars
<1> SUFFICES ASSUME IInv, IInv', TreeInv, TreeInv', [Next]_vars
             PROVE  [Flat!Next]_Flat!vars
  OBVIOUS
<1>1. SpaceNow' = SpaceNow /\ CallsNow' = CallsNow => [Flat!Next]_Flat!vars
  BY DEF SpaceNow, CallsNow, Flat!vars
<1>2. \A t \in Threads : Flat!Begin(t) \/ Flat!Change(t) \/ Flat!GiveUp(t) \/ Flat!End(t)
        => [Flat!Next]_Flat!vars
  BY DEF Flat!Next
<1>3. CASE table' = table /\ op' = op
  <2>1. SpaceNow' = SpaceNow
    BY <1>3, SpaceKept
  <2>2. CallsNow' = CallsNow
    BY <1>3 DEF CallsNow, CallOf
  <2> QED BY <1>1, <2>1, <2>2
<1>4. ASSUME NEW t \in Threads, Call(t)
      PROVE  [Flat!Next]_Flat!vars
  <2>1. Flat!Begin(t)
    BY <1>4, MapRegionFlat, InvalidateTailFlat DEF Call
  <2> QED BY <1>2, <2>1
<1>5. ASSUME NEW t \in Threads, Step(t)
      PROVE  [Flat!Next]_Flat!vars
  <2>1. CASE LockAndWalk(t) \/ CreateLevel(t) \/ WalkToRun(t)
    BY <1>1, <2>1, HiddenSteps
  <2>2. CASE WriteEntry(t) \/ UnmapPage(t) \/ InvalidateEntry(t)
    <3>1. Flat!Change(t)
      BY <2>2, WriteEntryFlat, UnmapPageFlat, InvalidateEntryFlat
    <3> QED BY <1>2, <3>1
  <2>3. CASE CreateLevelFails(t)
    BY <1>2, <2>3, CreateLevelFailsFlat
  <2>4. CASE RegionMapped(t) \/ RegionFailed(t) \/ Invalidated(t)
    BY <1>2, <2>4, ReturnsFlat
  <2> QED BY <1>5, <2>1, <2>2, <2>3, <2>4 DEF Step
<1>6. ASSUME NEW t \in Threads, NEW p \in CachedPages, FillTlb(t, p)
      PROVE  [Flat!Next]_Flat!vars
  BY <1>3, <1>6 DEF FillTlb
<1>7. CASE UNCHANGED vars
  BY <1>3, <1>7 DEF vars
<1> QED BY <1>4, <1>5, <1>6, <1>7 DEF Next

LEMMA FlatInit == Init => Flat!Init
<1> SUFFICES ASSUME Init PROVE Flat!Init
  OBVIOUS
<1>1. IInv /\ TreeInv
  BY InitInv, InitTree
<1>2. \A p \in RemapPages : SpaceNow[p] = -1
  <2>1. \A p \in RemapPages : LeafIn(table, p) = Zero
    BY <1>1 DEF Init, TreeInv, OwnerInv, EntriesTold
  <2>2. Meaning(Zero) = -1
    BY DEF Meaning, Zero
  <2> QED BY <1>1, <2>1, <2>2, SpaceIs
<1>3. \A t \in Threads : CallsNow[t] = Flat!NoCall
  BY <1>1, CallsAre, IdleCall DEF Init, TreeInv
<1>4. SpaceNow = [p \in RemapPages |-> -1]
  BY <1>2 DEF SpaceNow
<1>5. CallsNow = [t \in Threads |-> Flat!NoCall]
  BY <1>3 DEF CallsNow
<1> QED BY <1>4, <1>5 DEF Flat!Init, Flat!Unmapped, SpaceNow, CallsNow

\* The tables implement a flat address space: whatever the callers do at the same
\* time, in tables they share, a call changes the pages of its own region only, one
\* at a time, and when it returns it has done all that it promised.
THEOREM TablesImplementFlatSpace == Spec => ImplementsAddressSpace
<1>1. Init => Flat!Init
  BY FlatInit
<1>2. IInv /\ IInv' /\ TreeInv /\ TreeInv' /\ [Next]_vars => [Flat!Next]_Flat!vars
  BY FlatStep
<1>3. Spec => [](IInv /\ TreeInv)
  BY TreeHolds
<1> QED BY <1>1, <1>2, <1>3, PTL DEF Spec, ImplementsAddressSpace, Flat!Spec

-----------------------------------------------------------------------------
(***************************************************************************)
(* dump_pt_summary: what its loop has printed is the runs that have ended. *)
(***************************************************************************)

\* A set of natural numbers has a least element.
LEMMA LeastNumber ==
  ASSUME NEW T \in SUBSET Nat, T # {}
  PROVE  \E m \in T : \A k \in T : m <= k
<1>1. T \subseteq Nat
  OBVIOUS
<1>2. PICK m \in T : \A k \in T : ~(<<k, m>> \in OpToRel(<, Nat))
  BY <1>1, NatLessThanWellFounded, WFMin
<1>3. m \in Nat /\ \A k \in T : k \in Nat
  BY <1>1
<1>4. \A k \in T : ~(k < m)
  BY <1>2, <1>3 DEF OpToRel
<1> QED BY <1>3, <1>4

RunLines == [used : BOOLEAN, from : Nat, to : Nat]

Counted == [used : BOOLEAN, count : Nat, lines : Seq(RunLines)]

NoneCounted == [used |-> FALSE, count |-> 0, lines |-> <<>>]

\* The states of the loop over the first n entries.
Counts(used, n, s) ==
  s = [i \in 0 .. n |-> IF i = 0 THEN NoneCounted ELSE SummaryStep(used, s[i - 1], i - 1)]

LEMMA CountsFacts ==
  ASSUME NEW used, NEW n \in Nat, NEW s, Counts(used, n, s)
  PROVE  /\ s[0] = NoneCounted
         /\ \A i \in 1 .. n : s[i] = SummaryStep(used, s[i - 1], i - 1)
<1>1. \A i \in 0 .. n :
        s[i] = IF i = 0 THEN NoneCounted ELSE SummaryStep(used, s[i - 1], i - 1)
  BY DEF Counts
<1>2. 0 \in 0 .. n /\ \A i \in 1 .. n : i \in 0 .. n /\ i # 0
  OBVIOUS
<1> QED BY <1>1, <1>2

LEMMA CountsExist ==
  ASSUME NEW used, NEW n \in Nat
  PROVE  \E s : Counts(used, n, s)
<1> DEFINE T == {k \in Nat : ~ \E s : Counts(used, k, s)}
<1> SUFFICES ASSUME T # {}
             PROVE  FALSE
  OBVIOUS
<1>1. T \in SUBSET Nat
  OBVIOUS
<1>2. PICK k \in T : \A j \in T : k <= j
  BY <1>1, LeastNumber
<1>3. k \in Nat /\ ~ \E s : Counts(used, k, s)
  OBVIOUS
<1>4. PICK g : k # 0 => Counts(used, k - 1, g)
  BY <1>2, <1>3
<1> DEFINE s == [i \in 0 .. k |-> IF i = 0 THEN NoneCounted
                                  ELSE SummaryStep(used, g[i - 1], i - 1)]
<1>5. \A i \in 0 .. k - 1 : s[i] = g[i]
  <2>1. CASE k = 0
    BY <2>1
  <2>2. CASE k # 0
    <3>1. k - 1 \in Nat
      BY <1>3, <2>2
    <3>2. g[0] = NoneCounted /\ \A i \in 1 .. k - 1 : g[i] = SummaryStep(used, g[i - 1], i - 1)
      BY <1>4, <2>2, <3>1, CountsFacts
    <3>3. \A i \in 0 .. k - 1 : i \in 0 .. k /\ (i # 0 => i \in 1 .. k - 1)
      BY <1>3
    <3> QED BY <3>2, <3>3
  <2> QED BY <2>1, <2>2
<1>6. \A i \in 0 .. k : i # 0 => i - 1 \in 0 .. k - 1
  BY <1>3
<1>7. s = [i \in 0 .. k |-> IF i = 0 THEN NoneCounted ELSE SummaryStep(used, s[i - 1], i - 1)]
  BY <1>5, <1>6
<1>8. Counts(used, k, s)
  BY <1>7 DEF Counts
<1> QED BY <1>3, <1>8

\* A longest run of entries of one kind, that ended where another kind began.
EndedRun(used, a, b) ==
  /\ a \in Nat /\ b \in Nat /\ a < b
  /\ \A k \in a .. b - 1 : used[k] = used[a]
  /\ a > 0 => used[a - 1] # used[a]
  /\ used[b] # used[a]

\* A run that ended before the entry m or with it.
RunUntil(used, m, x) ==
  \E a, b \in Nat : EndedRun(used, a, b) /\ b <= m /\ x = Run(used[a], a, b)

Listed(lines, x) == \E k \in DOMAIN lines : lines[k] = x

\* The lines are these runs.
ListsRuns(used, m, lines) == \A x : Listed(lines, x) <=> RunUntil(used, m, x)

Distinct(lines) == \A k, l \in DOMAIN lines : lines[k] = lines[l] => k = l

\* What is known after i entries, when the run in progress began with the entry m.
CountedFrom(used, i, m, r) ==
  /\ r \in Counted
  /\ r.used = used[i - 1]
  /\ r.count = i - m
  /\ \A k \in m .. i - 1 : used[k] = r.used
  /\ m > 0 => used[m - 1] # r.used
  /\ ListsRuns(used, m, r.lines)
  /\ Distinct(r.lines)

CountedInv(used, i, r) ==
  IF i = 0 THEN r = NoneCounted ELSE \E m \in 0 .. i - 1 : CountedFrom(used, i, m, r)

\* The run in progress is the only one that may end at the next entry.
LEMMA RunEnds ==
  ASSUME NEW used, NEW i \in Nat \ {0}, NEW m \in 0 .. i - 1,
         \A k \in m .. i - 1 : used[k] = used[i - 1],
         m > 0 => used[m - 1] # used[i - 1],
         NEW a \in Nat, NEW b \in Nat, a < b, m < b, b <= i,
         \A k \in a .. b - 1 : used[k] = used[a],
         a > 0 => used[a - 1] # used[a],
         b < i => used[b] # used[a]
  PROVE  a = m /\ b = i
<1>1. b = i
  <2> SUFFICES ASSUME b < i
               PROVE  FALSE
    OBVIOUS
  <2>1. b - 1 \in m .. i - 1 /\ b \in m .. i - 1 /\ b - 1 \in a .. b - 1
    OBVIOUS
  <2> QED BY <2>1
<1>2. used[a] = used[i - 1]
  <2>1. i - 1 \in a .. b - 1
    BY <1>1
  <2> QED BY <2>1
<1>3. ~ (a < m)
  <2> SUFFICES ASSUME a < m
               PROVE  FALSE
    OBVIOUS
  <2>1. m - 1 \in a .. b - 1 /\ m > 0
    OBVIOUS
  <2> QED BY <1>2, <2>1
<1>4. ~ (m < a)
  <2> SUFFICES ASSUME m < a
               PROVE  FALSE
    OBVIOUS
  <2>1. a - 1 \in m .. i - 1 /\ a > 0
    BY <1>1
  <2> QED BY <1>2, <2>1
<1> QED BY <1>1, <1>3, <1>4

Adds(lines, line, more) == \A x : Listed(more, x) <=> Listed(lines, x) \/ x = line

\* One line more.
LEMMA AppendLists ==
  ASSUME NEW S, NEW lines \in Seq(S), NEW line \in S, NEW more, more = Append(lines, line)
  PROVE  more \in Seq(S) /\ Adds(lines, line, more)
<1>1. more \in Seq(S) /\ Len(more) = Len(lines) + 1 /\ Len(lines) \in Nat
  OBVIOUS
<1>2. DOMAIN more = 1 .. Len(lines) + 1 /\ DOMAIN lines = 1 .. Len(lines)
  OBVIOUS
<1>3. \A k \in DOMAIN lines : more[k] = lines[k] /\ k \in DOMAIN more
  OBVIOUS
<1>4. more[Len(lines) + 1] = line /\ Len(lines) + 1 \in DOMAIN more
  OBVIOUS
<1>5. \A k \in DOMAIN more : k \in DOMAIN lines \/ k = Len(lines) + 1
  BY <1>1, <1>2
<1>6. ASSUME NEW x
      PROVE  Listed(more, x) <=> Listed(lines, x) \/ x = line
  BY <1>3, <1>4, <1>5 DEF Listed
<1> QED BY <1>1, <1>6 DEF Adds

LEMMA OneLineMore ==
  ASSUME NEW S, NEW lines \in Seq(S), NEW line \in S,
         ~ Listed(lines, line), Distinct(lines),
         NEW more, more = Append(lines, line)
  PROVE  more \in Seq(S) /\ Adds(lines, line, more) /\ Distinct(more)
<1>1. more \in Seq(S) /\ Adds(lines, line, more)
  BY AppendLists
<1>2. \A k \in DOMAIN lines : more[k] = lines[k]
  OBVIOUS
<1>3. more[Len(lines) + 1] = line
  OBVIOUS
<1>4. \A k \in DOMAIN more : k \in DOMAIN lines \/ k = Len(lines) + 1
  OBVIOUS
<1>5. \A k \in DOMAIN lines : lines[k] # line
  BY DEF Listed
<1>6. Distinct(more)
  BY <1>2, <1>3, <1>4, <1>5 DEF Distinct
<1> QED BY <1>1, <1>6

LEMMA CountedFromNext ==
  ASSUME NEW used, NEW i \in Nat, NEW m, NEW q \in Counted,
         q.used = used[i], q.count = (i + 1) - m,
         \A k \in m .. i : used[k] = q.used,
         m > 0 => used[m - 1] # q.used,
         ListsRuns(used, m, q.lines),
         Distinct(q.lines)
  PROVE  CountedFrom(used, i + 1, m, q)
<1>1. (i + 1) - 1 = i
  OBVIOUS
<1>2. q.used = used[(i + 1) - 1] /\ \A k \in m .. (i + 1) - 1 : used[k] = q.used
  BY <1>1
<1> QED BY <1>2 DEF CountedFrom

\* The step that begins the first run.
LEMMA FirstCounted ==
  ASSUME NEW used, used[0] \in BOOLEAN
  PROVE  CountedInv(used, 1, SummaryStep(used, NoneCounted, 0))
<1> DEFINE r == SummaryStep(used, NoneCounted, 0)
<1>1. r = [used |-> used[0], count |-> 1, lines |-> <<>>]
  BY DEF SummaryStep, NoneCounted, AppendIf
<1>2. <<>> \in Seq(RunLines)
  OBVIOUS
<1>3. r \in Counted /\ r.used = used[0] /\ r.count = 1 /\ r.lines = <<>>
  <2>1. PICK none \in Seq(RunLines) : none = <<>>
    BY <1>2
  <2>2. PICK u \in BOOLEAN : u = used[0]
    OBVIOUS
  <2>3. r = [used |-> u, count |-> 1, lines |-> none]
    BY <1>1, <2>1, <2>2
  <2>4. r \in Counted
    BY <2>3 DEF Counted
  <2> QED BY <1>1, <2>4
<1> HIDE DEF r
<1>4. DOMAIN <<>> = {}
  OBVIOUS
<1>5. Distinct(r.lines) /\ \A x : ~ Listed(r.lines, x)
  BY <1>3, <1>4 DEF Distinct, Listed
<1>6. ASSUME NEW x
      PROVE  ~ RunUntil(used, 0, x)
  BY DEF RunUntil, EndedRun
<1>7. PICK i \in Nat : i = 0
  OBVIOUS
<1>8. i + 1 = 1 /\ r.count = (i + 1) - i /\ i \in 0 .. 1 - 1 /\ ~ (i > 0) /\ 1 # 0
  BY <1>3, <1>7
<1>9. \A k \in i .. i : used[k] = r.used
  BY <1>3, <1>7
<1>10. ListsRuns(used, i, r.lines)
  BY <1>5, <1>6, <1>7 DEF ListsRuns
<1>11. CountedFrom(used, i + 1, i, r)
  BY <1>3, <1>5, <1>7, <1>8, <1>9, <1>10, CountedFromNext
<1>12. CountedFrom(used, 1, i, r)
  BY <1>8, <1>11
<1>13. \E l \in 0 .. 1 - 1 : CountedFrom(used, 1, l, r)
  BY ONLY <1>8, <1>12
<1> QED BY ONLY <1>8, <1>13 DEF CountedInv, r

\* The run in progress goes on.
LEMMA RunGoesOn ==
  ASSUME NEW used, NEW i \in Nat \ {0}, used[i] \in BOOLEAN, NEW m \in 0 .. i - 1,
         NEW r, CountedFrom(used, i, m, r), used[i] = r.used
  PROVE  CountedFrom(used, i + 1, m, SummaryStep(used, r, i))
<1>1. r \in Counted /\ r.count = i - m
  BY DEF CountedFrom
<1>2. r.count \in Nat /\ r.count > 0
  BY <1>1
<1> DEFINE q == SummaryStep(used, r, i)
<1>3. q = [used |-> used[i], count |-> r.count + 1, lines |-> r.lines]
  BY DEF SummaryStep, AppendIf
<1>4. q \in Counted /\ q.used = used[i] /\ q.count = r.count + 1 /\ q.lines = r.lines
  BY <1>1, <1>2, <1>3 DEF Counted
<1> HIDE DEF q
<1>5. q.count = (i + 1) - m
  BY <1>1, <1>4
<1>6. \A k \in m .. i : used[k] = q.used
  <2>1. \A k \in m .. i : k \in m .. i - 1 \/ k = i
    OBVIOUS
  <2> QED BY <1>4, <2>1 DEF CountedFrom
<1>7. /\ m > 0 => used[m - 1] # q.used
      /\ ListsRuns(used, m, q.lines)
      /\ Distinct(q.lines)
  BY <1>4 DEF CountedFrom
<1>8. CountedFrom(used, i + 1, m, q)
  BY <1>4, <1>5, <1>6, <1>7, CountedFromNext
<1> QED BY <1>8 DEF q

\* The run in progress ends: it gets its line.
LEMMA NextRun ==
  ASSUME NEW used, NEW i \in Nat \ {0}, used[i] \in BOOLEAN, NEW m \in 0 .. i - 1,
         NEW r, CountedFrom(used, i, m, r), used[i] # r.used
  PROVE  CountedFrom(used, i + 1, i, SummaryStep(used, r, i))
<1>1. r \in Counted /\ r.count = i - m /\ r.used = used[i - 1]
  BY DEF CountedFrom
<1>2. r.count > 0 /\ i - r.count = m
  BY <1>1
<1> DEFINE q == SummaryStep(used, r, i)
           line == Run(r.used, m, i)
<1>3. q = [used |-> used[i], count |-> 1, lines |-> Append(r.lines, line)]
  BY <1>2 DEF SummaryStep, AppendIf
<1>4. r.lines \in Seq(RunLines) /\ line \in RunLines
  BY <1>1 DEF Counted, Run, RunLines
<1>5. line.to = i /\ line.from = m /\ line.used = r.used
  BY DEF Run
<1>6. PICK more : more = Append(r.lines, line)
  OBVIOUS
<1>7. more \in Seq(RunLines)
  BY <1>4, <1>6
<1>8. q \in Counted /\ q.used = used[i] /\ q.count = 1 /\ q.lines = more
  BY <1>3, <1>6, <1>7 DEF Counted, RunLines
<1>9. line = Run(r.used, m, i)
  OBVIOUS
<1> HIDE DEF q, line
<1>10. Distinct(r.lines) /\ ListsRuns(used, m, r.lines)
  BY DEF CountedFrom
<1>11. ~ RunUntil(used, m, line)
  <2> SUFFICES ASSUME RunUntil(used, m, line)
               PROVE  FALSE
    OBVIOUS
  <2>1. PICK a, b \in Nat : b <= m /\ line = Run(used[a], a, b)
    BY DEF RunUntil
  <2>2. line.to = b
    BY <2>1 DEF Run
  <2> QED BY <1>5, <2>1, <2>2
<1>12. ~ Listed(r.lines, line)
  BY <1>10, <1>11 DEF ListsRuns
<1>13. Distinct(more) /\ Adds(r.lines, line, more)
  BY <1>4, <1>6, <1>10, <1>12, <1>7, OneLineMore
<1>14. /\ \A k \in m .. i - 1 : used[k] = used[i - 1]
       /\ m > 0 => used[m - 1] # used[i - 1]
       /\ used[m] = r.used
  <2>1. m \in m .. i - 1
    OBVIOUS
  <2> QED BY <1>1, <2>1 DEF CountedFrom
<1>15. ASSUME NEW x
       PROVE  RunUntil(used, i, x) <=> RunUntil(used, m, x) \/ x = line
  <2>1. RunUntil(used, m, x) => RunUntil(used, i, x)
    <3>1. \A b \in Nat : b <= m => b <= i
      OBVIOUS
    <3> QED BY <3>1 DEF RunUntil
  <2>2. x = line => RunUntil(used, i, x)
    <3>1. EndedRun(used, m, i)
      BY <1>1, <1>14 DEF EndedRun
    <3>2. line = Run(used[m], m, i) /\ m \in Nat /\ i \in Nat /\ i <= i
      BY <1>9, <1>14
    <3> QED BY <3>1, <3>2 DEF RunUntil
  <2>3. ASSUME RunUntil(used, i, x)
        PROVE  RunUntil(used, m, x) \/ x = line
    <3>1. PICK a, b \in Nat : EndedRun(used, a, b) /\ b <= i /\ x = Run(used[a], a, b)
      BY <2>3 DEF RunUntil
    <3>2. CASE b <= m
      BY <3>1, <3>2 DEF RunUntil
    <3>3. CASE ~ (b <= m)
      <4>1. /\ a < b /\ m < b
            /\ \A k \in a .. b - 1 : used[k] = used[a]
            /\ a > 0 => used[a - 1] # used[a]
            /\ b < i => used[b] # used[a]
        BY <3>1, <3>3 DEF EndedRun
      <4>2. a = m /\ b = i
        BY <1>14, <3>1, <4>1, RunEnds
      <4> QED BY <1>9, <1>14, <3>1, <4>2
    <3> QED BY <3>2, <3>3
  <2> QED BY <2>1, <2>2, <2>3
<1>16. q.count = (i + 1) - i /\ \A k \in i .. i : k = i
  BY <1>8
<1>17. \A k \in i .. i : used[k] = q.used
  BY <1>8, <1>16
<1>18. used[i - 1] # q.used
  BY <1>1, <1>8
<1>19. ListsRuns(used, i, q.lines)
  <2>1. ASSUME NEW x
        PROVE  Listed(more, x) <=> RunUntil(used, i, x)
    <3>1. Listed(more, x) <=> Listed(r.lines, x) \/ x = line
      BY <1>13 DEF Adds
    <3>2. Listed(r.lines, x) <=> RunUntil(used, m, x)
      BY <1>10 DEF ListsRuns
    <3> QED BY <1>15, <3>1, <3>2
  <2> QED BY <1>8, <2>1 DEF ListsRuns
<1>20. Distinct(q.lines)
  BY <1>8, <1>13
<1>21. CountedFrom(used, i + 1, i, q)
  BY <1>8, <1>16, <1>17, <1>18, <1>19, <1>20, CountedFromNext
<1> QED BY <1>21 DEF q

LEMMA NextCounted ==
  ASSUME NEW used, NEW i \in Nat \ {0}, used[i] \in BOOLEAN,
         NEW r, CountedInv(used, i, r)
  PROVE  CountedInv(used, i + 1, SummaryStep(used, r, i))
<1>1. PICK m \in 0 .. i - 1 : CountedFrom(used, i, m, r)
  BY DEF CountedInv
<1>2. (i + 1) - 1 = i /\ m \in 0 .. i /\ i \in 0 .. i /\ i + 1 # 0
  OBVIOUS
<1>3. \/ CountedFrom(used, i + 1, m, SummaryStep(used, r, i))
      \/ CountedFrom(used, i + 1, i, SummaryStep(used, r, i))
  BY <1>1, RunGoesOn, NextRun
<1> QED BY <1>2, <1>3 DEF CountedInv

\* After every entry, the loop has printed the runs that have ended.
LEMMA CountedAlways ==
  ASSUME NEW n \in Nat, NEW used, \A k \in 0 .. n - 1 : used[k] \in BOOLEAN,
         NEW s, Counts(used, n, s), NEW j \in 0 .. n
  PROVE  CountedInv(used, j, s[j])
<1> DEFINE T == {k \in 0 .. n : ~ CountedInv(used, k, s[k])}
<1> SUFFICES ASSUME T # {}
             PROVE  FALSE
  OBVIOUS
<1>1. T \in SUBSET Nat
  OBVIOUS
<1>2. PICK k \in T : \A l \in T : k <= l
  BY <1>1, LeastNumber
<1>3. k \in 0 .. n /\ ~ CountedInv(used, k, s[k])
  OBVIOUS
<1>4. s[0] = NoneCounted /\ \A l \in 1 .. n : s[l] = SummaryStep(used, s[l - 1], l - 1)
  BY CountsFacts
<1>5. k # 0
  BY <1>3, <1>4 DEF CountedInv
<1>6. PICK i \in Nat : k = i + 1
  <2>1. k - 1 \in Nat /\ k = (k - 1) + 1
    BY <1>3, <1>5
  <2> QED BY <2>1
<1>7. i \in 0 .. n /\ i + 1 \in 1 .. n /\ (i + 1) - 1 = i /\ ~ (k <= i)
  BY <1>3, <1>6
<1>8. CountedInv(used, i, s[i])
  BY <1>2, <1>7
<1>9. s[k] = SummaryStep(used, s[i], i)
  BY <1>4, <1>6, <1>7
<1>10. used[i] \in BOOLEAN
  <2>1. i \in 0 .. n - 1
    BY <1>7
  <2> QED BY <2>1
<1>11. CASE i = 0
  BY <1>3, <1>4, <1>6, <1>9, <1>10, <1>11, FirstCounted
<1>12. CASE i # 0
  BY <1>3, <1>6, <1>8, <1>9, <1>10, <1>12, NextCounted
<1> QED BY <1>11, <1>12

\* A list of different lines is as long as its set.
LEMMA DifferentLines ==
  ASSUME NEW S, NEW lines \in Seq(S), Distinct(lines)
  PROVE  Len(lines) = Cardinality(LinesOf(lines))
<1>1. PICK n \in Nat : n = Len(lines)
  OBVIOUS
<1>2. DOMAIN lines = 1 .. n /\ lines = [k \in 1 .. n |-> lines[k]]
  BY <1>1
<1>3. lines \in [1 .. n -> LinesOf(lines)]
  BY <1>2 DEF LinesOf
<1>4. \A x \in LinesOf(lines) : \E k \in 1 .. n : lines[k] = x
  BY <1>2 DEF LinesOf
<1>5. \A k, l \in 1 .. n : lines[k] = lines[l] => k = l
  BY <1>2 DEF Distinct
<1>6. lines \in Bijection(1 .. n, LinesOf(lines))
  BY <1>2, <1>3, <1>4, <1>5 DEF Bijection, Injection, Surjection, IsInjective
<1>7. ExistsBijection(1 .. n, LinesOf(lines))
  BY <1>6 DEF ExistsBijection
<1> QED BY <1>1, <1>7, FS_CountingElements

\* A longest run of a table of n entries.
LongestRun(used, n, a, b) ==
  /\ a \in 0 .. n - 1 /\ b \in 1 .. n /\ a < b
  /\ \A k \in a .. b - 1 : used[k] = used[a]
  /\ a > 0 => used[a - 1] # used[a]
  /\ b < n => used[b] # used[a]

LEMMA MaximalRunsAre ==
  ASSUME NEW n \in Nat, NEW used, NEW x
  PROVE  x \in MaximalRuns(used, n)
           <=> \E a, b \in Nat : LongestRun(used, n, a, b) /\ x = Run(used[a], a, b)
<1>1. ASSUME x \in MaximalRuns(used, n)
      PROVE  \E a, b \in Nat : LongestRun(used, n, a, b) /\ x = Run(used[a], a, b)
  <2>1. PICK r \in (0 .. n - 1) \X (1 .. n) :
          /\ x = Run(used[r[1]], r[1], r[2])
          /\ r[1] < r[2]
          /\ \A i \in r[1] .. r[2] - 1 : used[i] = used[r[1]]
          /\ r[1] > 0 => used[r[1] - 1] # used[r[1]]
          /\ r[2] < n => used[r[2]] # used[r[1]]
    BY <1>1 DEF MaximalRuns
  <2>2. PICK a \in 0 .. n - 1 : a = r[1]
    OBVIOUS
  <2>3. PICK b \in 1 .. n : b = r[2]
    OBVIOUS
  <2>4. LongestRun(used, n, a, b) /\ x = Run(used[a], a, b)
    BY <2>1, <2>2, <2>3 DEF LongestRun
  <2> QED BY <2>4
<1>2. ASSUME NEW a \in Nat, NEW b \in Nat,
             LongestRun(used, n, a, b), x = Run(used[a], a, b)
      PROVE  x \in MaximalRuns(used, n)
  <2>1. PICK r : r = <<a, b>>
    OBVIOUS
  <2>2. r \in (0 .. n - 1) \X (1 .. n) /\ r[1] = a /\ r[2] = b
    BY <1>2, <2>1 DEF LongestRun
  <2>3. /\ r[1] < r[2]
        /\ \A i \in r[1] .. r[2] - 1 : used[i] = used[r[1]]
        /\ r[1] > 0 => used[r[1] - 1] # used[r[1]]
        /\ r[2] < n => used[r[2]] # used[r[1]]
    BY <1>2, <2>2 DEF LongestRun
  <2>4. x = Run(used[r[1]], r[1], r[2])
    BY <1>2, <2>2
  <2> QED BY <2>2, <2>3, <2>4 DEF MaximalRuns
<1> QED BY <1>1, <1>2

\* The longest runs are those that ended before the last one began, and the last.
LEMMA LastRun ==
  ASSUME NEW n \in Nat \ {0}, NEW used, NEW m \in 0 .. n - 1,
         \A k \in m .. n - 1 : used[k] = used[n - 1],
         m > 0 => used[m - 1] # used[n - 1],
         NEW x
  PROVE  x \in MaximalRuns(used, n) <=> RunUntil(used, m, x) \/ x = Run(used[n - 1], m, n)
<1>1. used[m] = used[n - 1]
  <2>1. m \in m .. n - 1
    OBVIOUS
  <2> QED BY <2>1
<1>2. ASSUME RunUntil(used, m, x)
      PROVE  x \in MaximalRuns(used, n)
  <2>1. PICK a, b \in Nat : EndedRun(used, a, b) /\ b <= m /\ x = Run(used[a], a, b)
    BY <1>2 DEF RunUntil
  <2>2. LongestRun(used, n, a, b)
    BY <2>1 DEF EndedRun, LongestRun
  <2> QED BY <2>1, <2>2, MaximalRunsAre
<1>3. ASSUME x = Run(used[n - 1], m, n)
      PROVE  x \in MaximalRuns(used, n)
  <2>1. LongestRun(used, n, m, n)
    BY <1>1 DEF LongestRun
  <2>2. x = Run(used[m], m, n) /\ m \in Nat /\ n \in Nat
    BY <1>1, <1>3
  <2> QED BY <2>1, <2>2, MaximalRunsAre
<1>4. ASSUME x \in MaximalRuns(used, n), ~ RunUntil(used, m, x)
      PROVE  x = Run(used[n - 1], m, n)
  <2>1. PICK a, b \in Nat : LongestRun(used, n, a, b) /\ x = Run(used[a], a, b)
    BY <1>4, MaximalRunsAre
  <2>2. /\ a < b /\ b <= n
        /\ \A k \in a .. b - 1 : used[k] = used[a]
        /\ a > 0 => used[a - 1] # used[a]
        /\ b < n => used[b] # used[a]
    BY <2>1 DEF LongestRun
  <2>3. m < b
    <3> SUFFICES ASSUME ~ (m < b)
                 PROVE  FALSE
      OBVIOUS
    <3>1. b <= m /\ b < n
      OBVIOUS
    <3>2. EndedRun(used, a, b)
      BY <2>2, <3>1 DEF EndedRun
    <3> QED BY <1>4, <2>1, <3>1, <3>2 DEF RunUntil
  <2>4. a = m /\ b = n
    BY <2>2, <2>3, RunEnds
  <2> QED BY <1>1, <2>1, <2>4
<1> QED BY <1>2, <1>3, <1>4

\* dump_pt_summary prints the longest runs of used and of free entries, each once.
LEMMA SummaryLists ==
  ASSUME NEW n \in Nat \ {0}, NEW used, \A k \in 0 .. n - 1 : used[k] \in BOOLEAN
  PROVE  /\ LinesOf(PtSummary(used, n)) = MaximalRuns(used, n)
         /\ Len(PtSummary(used, n)) = Cardinality(MaximalRuns(used, n))
<1> DEFINE s == CHOOSE s : s = [i \in 0 .. n |-> IF i = 0 THEN NoneCounted
                                                 ELSE SummaryStep(used, s[i - 1], i - 1)]
<1>1. PtSummary(used, n) = AppendIf(s[n].count > 0, s[n].lines, Run(s[n].used, n - s[n].count, n))
  BY DEF PtSummary, NoneCounted
<1>2. Counts(used, n, s)
  BY CountsExist DEF Counts
<1> HIDE DEF s
<1>3. PICK r : r = s[n]
  OBVIOUS
<1>4. n \in 0 .. n /\ n # 0 /\ n \in Nat
  OBVIOUS
<1>5. CountedInv(used, n, r)
  BY <1>2, <1>3, <1>4, CountedAlways
<1>6. PICK m \in 0 .. n - 1 : CountedFrom(used, n, m, r)
  BY <1>4, <1>5 DEF CountedInv
<1>7. r \in Counted /\ r.used = used[n - 1] /\ r.count = n - m
  BY <1>6 DEF CountedFrom
<1>8. r.count > 0 /\ n - r.count = m
  BY <1>7
<1> DEFINE line == Run(r.used, m, n)
<1>9. PICK more : more = Append(r.lines, line)
  OBVIOUS
<1>10. PtSummary(used, n) = more
  BY <1>1, <1>3, <1>8, <1>9 DEF AppendIf
<1>11. r.lines \in Seq(RunLines) /\ line \in RunLines
  BY <1>7 DEF Counted, Run, RunLines
<1>12. line.to = n /\ line = Run(used[n - 1], m, n)
  BY <1>7 DEF Run
<1> HIDE DEF line
<1>13. ~ RunUntil(used, m, line)
  <2> SUFFICES ASSUME RunUntil(used, m, line)
               PROVE  FALSE
    OBVIOUS
  <2>1. PICK a, b \in Nat : b <= m /\ line = Run(used[a], a, b)
    BY DEF RunUntil
  <2>2. line.to = b
    BY <2>1 DEF Run
  <2> QED BY <1>12, <2>1, <2>2
<1>14. Distinct(r.lines) /\ ListsRuns(used, m, r.lines)
  BY <1>6 DEF CountedFrom
<1>15. ~ Listed(r.lines, line)
  BY <1>13, <1>14 DEF ListsRuns
<1>16. more \in Seq(RunLines) /\ Adds(r.lines, line, more) /\ Distinct(more)
  BY <1>9, <1>11, <1>14, <1>15, OneLineMore
<1>17. /\ \A k \in m .. n - 1 : used[k] = used[n - 1]
       /\ m > 0 => used[m - 1] # used[n - 1]
  BY <1>6 DEF CountedFrom
<1>18. ASSUME NEW x
       PROVE  x \in LinesOf(more) <=> x \in MaximalRuns(used, n)
  <2>1. x \in LinesOf(more) <=> Listed(more, x)
    BY DEF LinesOf, Listed
  <2>2. Listed(more, x) <=> Listed(r.lines, x) \/ x = line
    BY <1>16 DEF Adds
  <2>3. Listed(r.lines, x) <=> RunUntil(used, m, x)
    BY <1>14 DEF ListsRuns
  <2>4. x \in MaximalRuns(used, n) <=> RunUntil(used, m, x) \/ x = Run(used[n - 1], m, n)
    BY <1>17, LastRun
  <2> QED BY <1>12, <2>1, <2>2, <2>3, <2>4
<1>19. LinesOf(more) = MaximalRuns(used, n)
  BY <1>18
<1>20. Len(more) = Cardinality(LinesOf(more))
  BY <1>16, DifferentLines
<1> QED BY <1>10, <1>19, <1>20

LEMMA SummariesAreExact == SummariesExact
<1>1. ASSUME NEW n \in 1 .. 6, NEW used \in [0 .. n - 1 -> BOOLEAN]
      PROVE  /\ LinesOf(PtSummary(used, n)) = MaximalRuns(used, n)
             /\ Len(PtSummary(used, n)) = Cardinality(MaximalRuns(used, n))
  <2>1. n \in Nat \ {0} /\ \A k \in 0 .. n - 1 : used[k] \in BOOLEAN
    OBVIOUS
  <2> QED BY <2>1, SummaryLists
<1> QED BY <1>1 DEF SummariesExact

-----------------------------------------------------------------------------
(***************************************************************************)
(* dump_mappings: pages of dangless lead to memory of the program.         *)
(***************************************************************************)

\* The page is neither 0, which pt_resolve_page returns when nothing is mapped,
\* nor in dangless's half, so that no page of that half is identity-mapped.
MemoryLow(T) ==
  \A p \in Pages \ ProgramPages :
    LeafIn(T, p).kind = "page" => LeafIn(T, p).page \in 1 .. Mapped(Levels) - 1

LEMMA InitMemory == Init => MemoryLow(table)
<1> SUFFICES ASSUME Init PROVE MemoryLow(table)
  OBVIOUS
<1>1. TreeInv /\ fresh = RemapPages
  BY InitTree DEF Init
<1>2. \A p \in Pages \ ProgramPages : LeafIn(table, p) = Zero
  BY <1>1 DEF TreeInv, OwnerInv, EntriesTold
<1> QED BY <1>2 DEF MemoryLow, Zero

LEMMA WriteEntryMemory ==
  ASSUME IInv, IInv', TreeInv, MemoryLow(table), NEW t \in Threads, WriteEntry(t)
  PROVE  MemoryLow(table')
<1>1. /\ op[t] \in CallStates /\ InRange(op[t], table) /\ op[t].pc = "level"
      /\ Cardinality(RemapPages) \in Nat
  BY CallFacts DEF WriteEntry
<1>2. /\ op[t].i \in Nat /\ op[t].i < op[t].n
      /\ op[t].n \in 1 .. Cardinality(RemapPages) /\ op[t].pa \in PhysStarts
  BY <1>1 DEF InRange, CallStates
<1>3. PICK c \in Nat : c = Cardinality(RemapPages)
  BY <1>1
<1>4. PICK m \in Nat : m = Mapped(Levels)
  BY MappedType, FanOutFacts DEF Levels
<1>5. op[t].pa \in Nat /\ op[t].pa > 0 /\ op[t].pa + c - 1 \in 0 .. m - 1
  BY <1>2, <1>3, <1>4, ChunksAssumption, TreeAssumption DEF ProgramPages
<1>6. op[t].pa + op[t].i \in 1 .. m - 1
  BY <1>2, <1>3, <1>5
<1>7. PICK e : e = Page(op[t].pa + op[t].i)
  OBVIOUS
<1>8. e.page \in 1 .. m - 1
  BY <1>6, <1>7 DEF Page
<1>9. Written(Current(t), e)
  BY <1>7, WriteEntryWrites
<1> QED BY <1>4, <1>8, <1>9 DEF Written, MemoryLow

LEMMA NextMemory == IInv /\ IInv' /\ TreeInv /\ MemoryLow(table) /\ [Next]_vars => MemoryLow(table')
<1> SUFFICES ASSUME IInv, IInv', TreeInv, MemoryLow(table), [Next]_vars
             PROVE  MemoryLow(table')
  OBVIOUS
<1>1. CASE table' = table
  BY <1>1
<1>2. ASSUME NEW t \in Threads, Step(t)
      PROVE  MemoryLow(table')
  <2>1. CASE WriteEntry(t)
    BY <2>1, WriteEntryMemory
  <2>2. CASE CreateLevel(t)
    <3>1. \A p \in Pages : LeafIn(table', p) = LeafIn(table, p)
      BY <2>2, CreateLevelWrites
    <3> QED BY <3>1 DEF MemoryLow
  <2>3. CASE UnmapPage(t) \/ InvalidateEntry(t)
    <3>1. Written(Current(t), Zero) \/ Written(Current(t), Marker)
      BY <2>3, UnmapPageWrites, InvalidateEntryWrites
    <3>2. Zero.kind # "page" /\ Marker.kind # "page"
      BY DEF Zero, Marker
    <3> QED BY <3>1, <3>2 DEF Written, MemoryLow
  <2>4. CASE \/ LockAndWalk(t) \/ CreateLevelFails(t) \/ RegionMapped(t)
             \/ RegionFailed(t) \/ WalkToRun(t) \/ Invalidated(t)
    BY <1>1, <2>4 DEF LockAndWalk, CreateLevelFails, RegionMapped, RegionFailed,
       WalkToRun, Invalidated
  <2> QED BY <1>2, <2>1, <2>2, <2>3, <2>4 DEF Step
<1>3. ASSUME NEW t \in Threads, Call(t)
      PROVE  MemoryLow(table')
  BY <1>1, <1>3 DEF Call, MapRegion, InvalidateTail
<1>4. ASSUME NEW t \in Threads, NEW p \in CachedPages, FillTlb(t, p)
      PROVE  MemoryLow(table')
  BY <1>1, <1>4 DEF FillTlb
<1>5. CASE UNCHANGED vars
  BY <1>1, <1>5 DEF vars
<1> QED BY <1>2, <1>3, <1>4, <1>5 DEF Next

\* What pt_resolve_page tells of such a page.
Sees(p, level) ==
  /\ Resolve(p) >= 0 <=> Leaf(p).kind = "page"
  /\ IF Resolve(p) >= 0
     THEN /\ Resolve(p) \in 1 .. Mapped(Levels) - 1
          /\ ResolvePage(p, level) = [pa |-> Resolve(p), level |-> 1]
     ELSE ResolvePage(p, level) = [pa |-> 0, level |-> level]

LEMMA DumpSees ==
  ASSUME IInv, TreeInv, MemoryLow(table), NEW p \in Pages \ ProgramPages, NEW level
  PROVE  Sees(p, level)
<1>1. TreeOK(table, pool)
  BY DEF TreeInv
<1>2. Resolve(p) = Meaning(LeafIn(table, p)) /\ Leaf(p) = LeafIn(table, p)
  BY <1>1, ResolveNow
<1>3. Walk(p, 1) = WalkIn(table, p)
  BY StoreFacts, WalkNow
<1>4. PICK lev : Levelled(lev, table, pool)
  BY StoreFacts
<1>5. WalkIn(table, p).level \in 1 .. Levels
  BY <1>4, StoreFacts, WalkOnPath DEF OnPath, Steps
<1>6. Entry(Walk(p, 1).slot) = LeafIn(table, p)
  BY <1>3 DEF Entry, LeafIn, EntryIn
<1>7. PICK e : e = LeafIn(table, p)
  OBVIOUS
<1>8. ResolvePage(p, level) = IF e.kind = "page"
                              THEN [pa |-> e.page, level |-> WalkIn(table, p).level]
                              ELSE [pa |-> 0, level |-> level]
  BY <1>3, <1>6, <1>7 DEF ResolvePage
<1>9. CASE e.kind = "page"
  <2>1. e.page \in 1 .. Mapped(Levels) - 1 /\ Resolve(p) = e.page
    BY <1>2, <1>7, <1>9 DEF MemoryLow, Meaning
  <2>2. ~ (WalkIn(table, p).level > 1)
    BY <1>1, <1>7, <1>9 DEF TreeOK, SharedZero, Zero
  <2>3. WalkIn(table, p).level = 1
    BY <1>5, <2>2 DEF Levels
  <2>4. Resolve(p) >= 0
    <3>1. PICK m : m = Mapped(Levels)
      OBVIOUS
    <3> QED BY <2>1, <3>1
  <2> QED BY <1>2, <1>7, <1>8, <1>9, <2>1, <2>3, <2>4 DEF Sees
<1>10. CASE e.kind # "page"
  <2>1. Resolve(p) \in {-1, -2, -3}
    BY <1>2, <1>7, <1>10 DEF Meaning
  <2> QED BY <1>2, <1>7, <1>8, <1>10, <2>1 DEF Sees
<1> QED BY <1>9, <1>10

-----------------------------------------------------------------------------
(* The loop of dump_mappings. *)

AllLines == [kind : {"unmapped", "identity", "mapping"}, a : Nat, b : Nat]

LoopStates == [va : Nat, level : 1 .. Levels, mapped : BOOLEAN, identity : BOOLEAN,
               start : Nat, lines : Seq(AllLines)]

FirstState(from, level) ==
  [va |-> from, level |-> level, mapped |-> FALSE, identity |-> FALSE, start |-> 0, lines |-> <<>>]

NextState(to, s) == IF s.va < to THEN DumpStep(s) ELSE s

\* The states of the loop in its first n iterations.
Dumps(from, to, level, n, s) ==
  s = [i \in 0 .. n |-> IF i = 0 THEN FirstState(from, level) ELSE NextState(to, s[i - 1])]

StepwiseDumps(from, to, level, n, s) ==
  /\ s[0] = FirstState(from, level)
  /\ \A i \in 1 .. n : s[i] = NextState(to, s[i - 1])

LEMMA DumpsFacts ==
  ASSUME NEW from, NEW to, NEW level, NEW n \in Nat, NEW s, Dumps(from, to, level, n, s)
  PROVE  StepwiseDumps(from, to, level, n, s)
<1>1. \A i \in 0 .. n :
        s[i] = IF i = 0 THEN FirstState(from, level) ELSE NextState(to, s[i - 1])
  BY DEF Dumps
<1>2. 0 \in 0 .. n /\ \A i \in 1 .. n : i \in 0 .. n /\ i # 0
  OBVIOUS
<1> QED BY <1>1, <1>2 DEF StepwiseDumps

LEMMA DumpsExist ==
  ASSUME NEW from, NEW to, NEW level, NEW n \in Nat
  PROVE  \E s : Dumps(from, to, level, n, s)
<1> DEFINE T == {k \in Nat : ~ \E s : Dumps(from, to, level, k, s)}
<1> SUFFICES ASSUME T # {}
             PROVE  FALSE
  OBVIOUS
<1>1. T \in SUBSET Nat
  OBVIOUS
<1>2. PICK k \in T : \A j \in T : k <= j
  BY <1>1, LeastNumber
<1>3. k \in Nat /\ ~ \E s : Dumps(from, to, level, k, s)
  OBVIOUS
<1>4. PICK g : k # 0 => Dumps(from, to, level, k - 1, g)
  BY <1>2, <1>3
<1> DEFINE s == [i \in 0 .. k |-> IF i = 0 THEN FirstState(from, level)
                                  ELSE NextState(to, g[i - 1])]
<1>5. \A i \in 0 .. k - 1 : s[i] = g[i]
  <2>1. CASE k = 0
    BY <2>1
  <2>2. CASE k # 0
    <3>1. k - 1 \in Nat
      BY <1>3, <2>2
    <3>2. g[0] = FirstState(from, level) /\ \A i \in 1 .. k - 1 : g[i] = NextState(to, g[i - 1])
      BY <1>4, <2>2, <3>1, DumpsFacts DEF StepwiseDumps
    <3>3. \A i \in 0 .. k - 1 : i \in 0 .. k /\ (i # 0 => i \in 1 .. k - 1)
      BY <1>3
    <3> QED BY <3>2, <3>3
  <2> QED BY <2>1, <2>2
<1>6. \A i \in 0 .. k : i # 0 => i - 1 \in 0 .. k - 1
  BY <1>3
<1>7. s = [i \in 0 .. k |-> IF i = 0 THEN FirstState(from, level) ELSE NextState(to, s[i - 1])]
  BY <1>5, <1>6
<1>8. Dumps(from, to, level, k, s)
  BY <1>7 DEF Dumps
<1> QED BY <1>3, <1>8

\* The line of a page from .. end-1 that is mapped.
MappingUntil(from, end, l) ==
  \E p \in from .. end - 1 : Resolve(p) >= 0 /\ l = Line("mapping", p, Resolve(p))

\* Of the lines, those of mapped pages are the ones of these pages.
ListsMappings(from, end, lines) ==
  \A l : Listed(lines, l) /\ l.kind = "mapping" <=> MappingUntil(from, end, l)

\* What is known after i iterations, of a range that begins with a mapped page.
DumpedTo(from, i, s) ==
  /\ s \in LoopStates
  /\ s.va = from + i
  /\ ~ s.identity
  /\ IF i = 0 THEN s.start = 0 ELSE s.level = 1
  /\ ListsMappings(from, s.va, s.lines)

\* A line about a region is not that of a page.
LEMMA OtherLine ==
  ASSUME NEW lines \in Seq(AllLines), NEW kind \in {"unmapped", "identity"},
         NEW a \in Nat, NEW b \in Nat, NEW from, NEW end, ListsMappings(from, end, lines)
  PROVE  /\ Append(lines, Line(kind, a, b)) \in Seq(AllLines)
         /\ ListsMappings(from, end, Append(lines, Line(kind, a, b)))
<1> DEFINE line == Line(kind, a, b)
<1>1. line \in AllLines /\ line.kind # "mapping"
  BY DEF Line, AllLines
<1> HIDE DEF line
<1>2. PICK more : more = Append(lines, line)
  OBVIOUS
<1>3. more \in Seq(AllLines) /\ Adds(lines, line, more)
  BY <1>1, <1>2, AppendLists
<1>4. ListsMappings(from, end, more)
  <2>1. ASSUME NEW l
        PROVE  Listed(more, l) /\ l.kind = "mapping" <=> MappingUntil(from, end, l)
    <3>1. Listed(more, l) <=> Listed(lines, l) \/ l = line
      BY <1>3 DEF Adds
    <3>2. Listed(lines, l) /\ l.kind = "mapping" <=> MappingUntil(from, end, l)
      BY DEF ListsMappings
    <3> QED BY <1>1, <3>1, <3>2
  <2> QED BY <2>1 DEF ListsMappings
<1> QED BY <1>2, <1>3, <1>4 DEF line

LEMMA NextMapping ==
  ASSUME NEW from \in Nat, NEW va \in Nat, from <= va, NEW l
  PROVE  MappingUntil(from, va + 1, l)
           <=> \/ MappingUntil(from, va, l)
               \/ Resolve(va) >= 0 /\ l = Line("mapping", va, Resolve(va))
<1>1. (va + 1) - 1 = va /\ va \in from .. va
  OBVIOUS
<1>2. \A p \in from .. va : p \in from .. va - 1 \/ p = va
  OBVIOUS
<1>3. \A p \in from .. va - 1 : p \in from .. va
  OBVIOUS
<1>4. MappingUntil(from, va + 1, l)
        <=> \E p \in from .. va : Resolve(p) >= 0 /\ l = Line("mapping", p, Resolve(p))
  BY <1>1 DEF MappingUntil
<1> QED BY <1>1, <1>2, <1>3, <1>4 DEF MappingUntil

NowState(s, map, start, lines) ==
  [s EXCEPT !.mapped = map, !.start = start, !.identity = FALSE,
            !.lines = lines, !.va = s.va + 1, !.level = 1]

AfterPage(r, s, lines) ==
  r \in LoopStates /\ r.va = s.va + 1 /\ r.level = 1 /\ r.identity = FALSE /\ r.lines = lines

LEMMA LoopState ==
  ASSUME NEW s \in LoopStates, NEW map \in BOOLEAN, NEW start \in Nat,
         NEW lines \in Seq(AllLines), NEW r, r = NowState(s, map, start, lines)
  PROVE  AfterPage(r, s, lines)
<1>1. PICK va \in Nat : va = s.va + 1
  BY DEF LoopStates
<1>2. 1 \in 1 .. Levels /\ FALSE \in BOOLEAN
  BY DEF Levels
<1>3. r = [s EXCEPT !.mapped = map, !.start = start, !.identity = FALSE,
                    !.lines = lines, !.va = va, !.level = 1]
  BY <1>1 DEF NowState
<1> QED BY <1>1, <1>2, <1>3 DEF LoopStates, AfterPage

LEMMA AfterMapped ==
  ASSUME NEW from \in Nat, NEW i \in Nat, NEW s, DumpedTo(from, i, s),
         NEW pa \in Nat, pa = Resolve(s.va), pa # s.va
  PROVE  DumpedTo(from, i + 1, MappedPage(s, pa, 1))
<1>1. /\ s \in LoopStates /\ s.va = from + i /\ ~ s.identity
      /\ ListsMappings(from, s.va, s.lines)
  BY DEF DumpedTo
<1>2. s.va \in Nat /\ s.start \in Nat /\ s.lines \in Seq(AllLines)
  BY <1>1 DEF LoopStates
<1> DEFINE ended == ~ s.mapped /\ s.start # 0
           lines == AppendIf(ended, s.lines, Line("unmapped", s.start, s.va))
           start == IF ended \/ s.start = 0 THEN s.va ELSE s.start
<1>3. lines \in Seq(AllLines) /\ ListsMappings(from, s.va, lines)
  <2>1. CASE ended
    BY <1>1, <1>2, <2>1, OtherLine DEF AppendIf
  <2>2. CASE ~ ended
    BY <1>1, <1>2, <2>2 DEF AppendIf
  <2> QED BY <2>1, <2>2
<1>4. start \in Nat
  BY <1>2
<1>5. MappedPage(s, pa, 1) =
        [s EXCEPT !.mapped = TRUE, !.start = start, !.identity = pa = s.va,
                  !.lines = IF pa = s.va THEN lines
                            ELSE Append(AppendIf(s.identity /\ ~ ended, lines,
                                                 Line("identity", start, s.va)),
                                        Line("mapping", s.va, pa)),
                  !.va = @ + Mapped(1), !.level = 1]
  BY DEF MappedPage
<1> HIDE DEF ended, lines, start
<1>6. Mapped(1) = 1
  BY DEF Mapped
<1>7. AppendIf(s.identity /\ ~ ended, lines, Line("identity", start, s.va)) = lines
  BY <1>1 DEF AppendIf
<1> DEFINE line == Line("mapping", s.va, pa)
<1>8. PICK more : more = Append(lines, line)
  OBVIOUS
<1>9. PICK now \in BOOLEAN : now = TRUE
  OBVIOUS
<1>10. PICK r : r = NowState(s, now, start, more)
  OBVIOUS
<1>11. MappedPage(s, pa, 1) = r
  <2>1. (pa = s.va) = FALSE
    OBVIOUS
  <2> QED BY <1>5, <1>6, <1>7, <1>8, <1>10, <1>9, <2>1 DEF NowState
<1>12. line \in AllLines /\ line.kind = "mapping"
  BY <1>2 DEF Line, AllLines
<1> HIDE DEF line
<1>13. more \in Seq(AllLines) /\ Adds(lines, line, more)
  BY <1>3, <1>8, <1>12, AppendLists
<1>14. /\ r \in LoopStates /\ r.va = s.va + 1 /\ r.level = 1 /\ r.identity = FALSE
       /\ r.lines = more
  <2>1. AfterPage(r, s, more)
    BY <1>1, <1>4, <1>10, <1>13, LoopState
  <2> QED BY <2>1 DEF AfterPage
<1>15. ListsMappings(from, s.va + 1, more)
  <2>1. ASSUME NEW l
        PROVE  Listed(more, l) /\ l.kind = "mapping" <=> MappingUntil(from, s.va + 1, l)
    <3>1. Listed(more, l) <=> Listed(lines, l) \/ l = line
      BY <1>13 DEF Adds
    <3>2. Listed(lines, l) /\ l.kind = "mapping" <=> MappingUntil(from, s.va, l)
      BY <1>3 DEF ListsMappings
    <3>3. MappingUntil(from, s.va + 1, l) <=> MappingUntil(from, s.va, l) \/ l = line
      <4>1. from <= s.va
        BY <1>1
      <4>2. Resolve(s.va) >= 0 /\ line = Line("mapping", s.va, Resolve(s.va))
        BY DEF line
      <4> QED BY <1>2, <4>1, <4>2, NextMapping
    <3> QED BY <1>12, <3>1, <3>2, <3>3
  <2> QED BY <2>1 DEF ListsMappings
<1>16. r.va = from + (i + 1) /\ i + 1 # 0
  BY <1>1, <1>14
<1>17. DumpedTo(from, i + 1, r)
  BY <1>14, <1>15, <1>16 DEF DumpedTo
<1> QED BY <1>11, <1>17

LEMMA AfterUnmapped ==
  ASSUME NEW from \in Nat, NEW i \in Nat \ {0}, NEW s, DumpedTo(from, i, s),
         ~ (Resolve(s.va) >= 0)
  PROVE  DumpedTo(from, i + 1, UnmappedPage(s, s.level))
<1>1. /\ s \in LoopStates /\ s.va = from + i /\ ~ s.identity /\ s.level = 1
      /\ ListsMappings(from, s.va, s.lines)
  BY DEF DumpedTo
<1>2. s.va \in Nat /\ s.start \in Nat /\ s.lines \in Seq(AllLines)
  BY <1>1 DEF LoopStates
<1>3. PICK start \in Nat : start = IF s.start = 0 THEN s.va ELSE s.start
  BY <1>2
<1>4. Mapped(1) = 1
  BY DEF Mapped
<1>5. PICK now \in BOOLEAN : now = FALSE
  OBVIOUS
<1>6. PICK r : r = NowState(s, now, start, s.lines)
  OBVIOUS
<1>7. UnmappedPage(s, s.level) = r
  <2>1. (s.mapped /\ s.identity /\ s.start # 0) = FALSE
    BY <1>1
  <2> QED BY <1>1, <1>3, <1>4, <1>6, <1>5, <2>1 DEF UnmappedPage, AppendIf, NowState
<1>8. /\ r \in LoopStates /\ r.va = s.va + 1 /\ r.level = 1 /\ r.identity = FALSE
      /\ r.lines = s.lines
  <2>1. AfterPage(r, s, s.lines)
    BY <1>1, <1>2, <1>6, LoopState
  <2> QED BY <2>1 DEF AfterPage
<1>9. ListsMappings(from, s.va + 1, s.lines)
  <2>1. ASSUME NEW l
        PROVE  Listed(s.lines, l) /\ l.kind = "mapping" <=> MappingUntil(from, s.va + 1, l)
    <3>1. Listed(s.lines, l) /\ l.kind = "mapping" <=> MappingUntil(from, s.va, l)
      BY <1>1 DEF ListsMappings
    <3>2. MappingUntil(from, s.va + 1, l) <=> MappingUntil(from, s.va, l)
      <4>1. from <= s.va
        BY <1>1
      <4> QED BY <1>2, <4>1, NextMapping
    <3> QED BY <3>1, <3>2
  <2> QED BY <2>1 DEF ListsMappings
<1>10. r.va = from + (i + 1) /\ i + 1 # 0
  BY <1>1, <1>8
<1>11. DumpedTo(from, i + 1, r)
  BY <1>8, <1>9, <1>10 DEF DumpedTo
<1> QED BY <1>7, <1>11

LEMMA DumpedFirst ==
  ASSUME NEW from \in Nat, NEW level \in 1 .. Levels
  PROVE  DumpedTo(from, 0, FirstState(from, level))
<1> DEFINE s == FirstState(from, level)
<1>1. PICK none \in Seq(AllLines) : none = <<>>
  <2>1. <<>> \in Seq(AllLines)
    OBVIOUS
  <2> QED BY <2>1
<1>2. s = [va |-> from, level |-> level, mapped |-> FALSE, identity |-> FALSE, start |-> 0,
           lines |-> none]
  BY <1>1 DEF FirstState
<1>3. s \in LoopStates
  BY <1>2 DEF LoopStates
<1>4. s.va = from + 0 /\ s.va = from /\ s.identity = FALSE /\ s.start = 0 /\ s.lines = none
  BY <1>2
<1>5. ListsMappings(from, from, none)
  <2>1. \A l : ~ Listed(none, l)
    <3>1. DOMAIN none = {}
      BY <1>1
    <3> QED BY <3>1 DEF Listed
  <2>2. \A l : ~ MappingUntil(from, from, l)
    <3>1. \A p \in from .. from - 1 : FALSE
      OBVIOUS
    <3> QED BY <3>1 DEF MappingUntil
  <2> QED BY <2>1, <2>2 DEF ListsMappings
<1> QED BY <1>3, <1>4, <1>5 DEF DumpedTo

LEMMA DumpedNext ==
  ASSUME IInv, TreeInv, MemoryLow(table), NEW from \in Pages \ ProgramPages,
         Leaf(from).kind = "page", NEW to \in Nat, to <= FanOut * Mapped(Levels),
         NEW i \in Nat, from + i < to, NEW s, DumpedTo(from, i, s)
  PROVE  DumpedTo(from, i + 1, NextState(to, s))
<1>1. s \in LoopStates /\ s.va = from + i
  BY DEF DumpedTo
<1>2. NextState(to, s) = DumpStep(s)
  BY <1>1 DEF NextState
<1>3. PICK m \in Nat : m = Mapped(Levels)
  BY MappedType, FanOutFacts DEF Levels
<1>4. Pages = 0 .. FanOut * m - 1 /\ ProgramPages = 0 .. m - 1
  <2>1. m = FanOut * FanOut * FanOut
    BY <1>3 DEF Mapped, Levels
  <2>2. FanOut * m = FanOut * FanOut * FanOut * FanOut
    BY <2>1, FanOutFacts
  <2> QED BY <1>3, <2>2 DEF Pages, ProgramPages
<1>5. PICK all \in Nat : all = FanOut * m
  BY FanOutFacts
<1>6. from \in Nat /\ from >= m /\ to <= all
  BY <1>3, <1>4, <1>5
<1>7. s.va \in Pages \ ProgramPages /\ s.va \in Nat /\ s.va >= m
  BY <1>1, <1>4, <1>5, <1>6
<1>8. Sees(s.va, s.level)
  BY <1>7, DumpSees
<1>9. CASE Resolve(s.va) >= 0
  <2>1. PICK pa : pa = Resolve(s.va)
    OBVIOUS
  <2>2. pa \in 1 .. m - 1 /\ ResolvePage(s.va, s.level) = [pa |-> pa, level |-> 1]
    BY <1>3, <1>8, <1>9, <2>1 DEF Sees
  <2>3. pa \in Nat /\ pa # 0 /\ pa # s.va
    BY <1>7, <2>2
  <2>4. DumpStep(s) = MappedPage(s, pa, 1)
    BY <2>2, <2>3 DEF DumpStep
  <2>5. DumpedTo(from, i + 1, MappedPage(s, pa, 1))
    BY <1>6, <2>1, <2>3, AfterMapped
  <2> QED BY <1>2, <2>4, <2>5
<1>10. CASE ~ (Resolve(s.va) >= 0)
  <2>1. ResolvePage(s.va, s.level) = [pa |-> 0, level |-> s.level]
    BY <1>8, <1>10 DEF Sees
  <2>2. DumpStep(s) = UnmappedPage(s, s.level)
    BY <2>1 DEF DumpStep
  <2>3. i # 0
    <3> SUFFICES ASSUME i = 0
                 PROVE  FALSE
      OBVIOUS
    <3>1. s.va = from
      BY <1>1, <1>6
    <3> QED BY <1>8, <1>10, <3>1 DEF Sees
  <2>4. DumpedTo(from, i + 1, UnmappedPage(s, s.level))
    BY <1>6, <1>10, <2>3, AfterUnmapped
  <2> QED BY <1>2, <2>2, <2>4
<1> QED BY <1>9, <1>10

LEMMA DumpedAlways ==
  ASSUME IInv, TreeInv, MemoryLow(table), NEW from \in Pages \ ProgramPages,
         Leaf(from).kind = "page", NEW to \in Nat, to <= FanOut * Mapped(Levels),
         NEW level \in 1 .. Levels, NEW n \in Nat, from + n <= to,
         NEW s, Dumps(from, to, level, n, s)
  PROVE  DumpedTo(from, n, s[n])
<1> DEFINE T == {k \in 0 .. n : ~ DumpedTo(from, k, s[k])}
<1>1. from \in Nat
  BY FanOutFacts DEF Pages
<1>2. T = {}
  <2> SUFFICES ASSUME T # {}
               PROVE  FALSE
    OBVIOUS
  <2>1. T \in SUBSET Nat
    OBVIOUS
  <2>2. PICK k \in T : \A l \in T : k <= l
    BY <2>1, LeastNumber
  <2>3. k \in 0 .. n /\ ~ DumpedTo(from, k, s[k])
    OBVIOUS
  <2>4. s[0] = FirstState(from, level) /\ \A l \in 1 .. n : s[l] = NextState(to, s[l - 1])
    <3>1. StepwiseDumps(from, to, level, n, s)
      BY DumpsFacts
    <3> QED BY <3>1 DEF StepwiseDumps
  <2>5. k # 0
    BY <1>1, <2>3, <2>4, DumpedFirst
  <2>6. PICK i \in Nat : k = i + 1
    <3>1. k - 1 \in Nat /\ k = (k - 1) + 1
      BY <2>3, <2>5
    <3> QED BY <3>1
  <2>7. i \in 0 .. n /\ i + 1 \in 1 .. n /\ (i + 1) - 1 = i /\ ~ (k <= i) /\ from + i < to
    BY <1>1, <2>3, <2>6
  <2>8. DumpedTo(from, i, s[i])
    BY <2>2, <2>7
  <2>9. s[k] = NextState(to, s[i])
    BY <2>4, <2>6, <2>7
  <2>10. DumpedTo(from, i + 1, NextState(to, s[i]))
    BY <2>7, <2>8, DumpedNext
  <2> QED BY <2>3, <2>6, <2>9, <2>10
<1>3. n \in 0 .. n /\ n \notin T
  BY <1>2
<1> QED BY <1>3

\* dump_mappings lists the mapped pages, each with the memory it reaches.
LEMMA DumpLists ==
  ASSUME IInv, TreeInv, MemoryLow(table), NEW from \in Pages \ ProgramPages,
         Leaf(from).kind = "page", NEW to \in from + 1 .. FanOut * Mapped(Levels),
         NEW level \in 1 .. Levels
  PROVE  {l \in LinesOf(Dump(from, to, level)) : l.kind = "mapping"} =
         {Line("mapping", p, Resolve(p)) : p \in {q \in from .. to - 1 : Resolve(q) >= 0}}
<1>1. from \in Nat
  BY FanOutFacts DEF Pages
<1>2. /\ to \in Nat /\ to <= FanOut * Mapped(Levels)
      /\ to - from \in Nat /\ from + (to - from) = to
  <2>1. PICK all \in Nat : all = FanOut * Mapped(Levels)
    <3>1. PICK m \in Nat : m = Mapped(Levels)
      BY MappedType, FanOutFacts DEF Levels
    <3>2. FanOut * m \in Nat
      BY FanOutFacts
    <3> QED BY <3>1, <3>2
  <2> QED BY <1>1, <2>1
<1> DEFINE s == CHOOSE s : s = [i \in 0 .. to - from |->
                                  IF i = 0 THEN FirstState(from, level)
                                  ELSE NextState(to, s[i - 1])]
           end == s[to - from]
<1>3. Dump(from, to, level) =
        IF end.start = 0 THEN end.lines
        ELSE IF end.mapped
        THEN AppendIf(end.identity, end.lines, Line("identity", end.start, to))
        ELSE Append(end.lines, Line("unmapped", end.start, to))
  BY DEF Dump, FirstState, NextState
<1>4. PICK n \in Nat : n = to - from
  BY <1>2
<1>5. Dumps(from, to, level, n, s)
  BY <1>2, <1>4, DumpsExist DEF Dumps
<1> HIDE DEF s
<1>6. DumpedTo(from, n, end)
  BY <1>2, <1>4, <1>5, DumpedAlways
<1>7. PICK e : e = end
  OBVIOUS
<1>8. /\ e \in LoopStates /\ e.va = to /\ ~ e.identity
      /\ ListsMappings(from, to, e.lines)
  BY <1>2, <1>4, <1>6, <1>7 DEF DumpedTo
<1>9. e.start \in Nat /\ e.lines \in Seq(AllLines)
  BY <1>8 DEF LoopStates
<1>10. PICK lines : lines = Dump(from, to, level)
  OBVIOUS
<1>11. lines = e.lines \/ lines = Append(e.lines, Line("unmapped", e.start, to))
  BY <1>3, <1>7, <1>8, <1>10 DEF AppendIf
<1>12. ListsMappings(from, to, lines)
  <2>1. CASE lines = e.lines
    BY <1>8, <2>1
  <2>2. CASE lines = Append(e.lines, Line("unmapped", e.start, to))
    <3>1. PICK kind \in {"unmapped", "identity"} : kind = "unmapped"
      OBVIOUS
    <3>2. ListsMappings(from, to, Append(e.lines, Line(kind, e.start, to)))
      BY <1>2, <1>8, <1>9, OtherLine
    <3> QED BY <2>2, <3>1, <3>2
  <2> QED BY <1>11, <2>1, <2>2
<1>13. ASSUME NEW l
       PROVE  l \in LinesOf(lines) /\ l.kind = "mapping" <=>
              \E p \in {q \in from .. to - 1 : Resolve(q) >= 0} :
                l = Line("mapping", p, Resolve(p))
  <2>1. l \in LinesOf(lines) <=> Listed(lines, l)
    BY DEF LinesOf, Listed
  <2>2. Listed(lines, l) /\ l.kind = "mapping" <=> MappingUntil(from, to, l)
    BY <1>12 DEF ListsMappings
  <2> QED BY <2>1, <2>2 DEF MappingUntil
<1> QED BY <1>10, <1>13

\* In every state of the tables the listings leave nothing out and invent nothing.
LEMMA ListingsExact == IInv /\ TreeInv /\ MemoryLow(table) => ListingsTellAll
<1> SUFFICES ASSUME IInv, TreeInv, MemoryLow(table)
             PROVE  ListingsTellAll
  OBVIOUS
<1>1. ASSUME NEW f \in Frames
      PROVE  LET used == [i \in 0 .. FanOut - 1 |-> table[f][i] # Zero]
             IN  LinesOf(PtSummary(used, FanOut)) = MaximalRuns(used, FanOut)
  <2>1. PICK used : used = [i \in 0 .. FanOut - 1 |-> table[f][i] # Zero]
    OBVIOUS
  <2>2. FanOut \in Nat \ {0} /\ \A k \in 0 .. FanOut - 1 : used[k] \in BOOLEAN
    BY <2>1, FanOutFacts
  <2>3. LinesOf(PtSummary(used, FanOut)) = MaximalRuns(used, FanOut)
    BY <2>2, SummaryLists
  <2> QED BY <2>1, <2>3
<1> QED BY <1>1, SummariesAreExact, DumpLists DEF ListingsTellAll

\* In every reachable state, half-made tables included, dump_pt_summary prints
\* the longest runs of used and of free entries of each table, and dump_mappings
\* the mapped pages of a range of dangless's pages with the memory they reach:
\* its loop neither skips a page nor takes one for identity-mapped.
THEOREM ListingsAreExact == Spec => []ListingsTellAll
<1>1. Init => MemoryLow(table)
  BY InitMemory
<1>2. IInv /\ IInv' /\ TreeInv /\ MemoryLow(table) /\ [Next]_vars => MemoryLow(table)'
  BY NextMemory
<1>3. IInv /\ TreeInv /\ MemoryLow(table) => ListingsTellAll
  BY ListingsExact
<1> QED BY <1>1, <1>2, <1>3, TreeHolds, PTL DEF Spec
=============================================================================
