-------------------------------- MODULE Dump --------------------------------
(***************************************************************************)
(* dump.c: the listings of page tables for developers, as operators on the *)
(* state of PageTable.  A listing is the sequence of its lines; a line is a *)
(* record of what it says.  The loops are recursive functions of the number *)
(* of iterations.                                                          *)
(***************************************************************************)
EXTENDS PageTable, Sequences

\* Chunks are memory of the program, which is identity-mapped and not at address 0.
ASSUME ChunksAssumption ==
  \A pa \in PhysStarts : pa > 0 /\ pa + Cardinality(RemapPages) - 1 \in ProgramPages

AppendIf(cond, lines, line) == IF cond THEN Append(lines, line) ELSE lines

-----------------------------------------------------------------------------
(* dump_pt_summary, on the entries 0 .. n-1 of a table: used[i] tells that the *)
(* entry i is not zero. *)

Run(used, from, to) == [used |-> used, from |-> from, to |-> to]

\* Mutant: the count goes on when a run has been printed.
SummaryStepNoReset(used, s, i) ==
  LET ends == used[i] # s.used /\ s.count > 0
  IN  [used |-> used[i], count |-> s.count + 1,
       lines |-> AppendIf(ends, s.lines, Run(s.used, i - s.count, i))]

\* One iteration: a run ends where the next entry is of the other kind.
SummaryStep(used, s, i) ==
  LET ends == used[i] # s.used /\ s.count > 0
  IN  [used |-> used[i], count |-> IF ends THEN 1 ELSE s.count + 1,
       lines |-> AppendIf(ends, s.lines, Run(s.used, i - s.count, i))]

PtSummary(used, n) ==
  LET s[i \in 0 .. n] ==
        IF i = 0 THEN [used |-> FALSE, count |-> 0, lines |-> <<>>]
        ELSE SummaryStep(used, s[i - 1], i - 1)
  IN  AppendIf(s[n].count > 0, s[n].lines, Run(s[n].used, n - s[n].count, n))

-----------------------------------------------------------------------------
(* dump_mappings, on the pages from .. to-1. *)

\* pt_resolve_page: the page that an entry maps, and the level of the entry.  The
\* level stays what it was when nothing is mapped.
ResolvePage(p, level) ==
  LET w == Walk(p, 1)
      e == Entry(w.slot)
  IN  IF e.kind = "page" THEN [pa |-> e.page, level |-> w.level]
      ELSE [pa |-> 0, level |-> level]

Line(kind, a, b) == [kind |-> kind, a |-> a, b |-> b]

\* A mapped page: it ends an unmapped region, and an identity-mapped one when it
\* is not identity-mapped itself, and then it gets a line of its own.
MappedPage(s, pa, level) ==
  LET ended == ~s.mapped /\ s.start # 0
      lines == AppendIf(ended, s.lines, Line("unmapped", s.start, s.va))
      start == IF ended \/ s.start = 0 THEN s.va ELSE s.start
      other == s.identity /\ ~ended
  IN  [s EXCEPT !.mapped = TRUE, !.start = start,
         !.identity = pa = s.va,
         !.lines = IF pa = s.va THEN lines
                   ELSE Append(AppendIf(other, lines, Line("identity", start, s.va)),
                               Line("mapping", s.va, pa)),
         !.va = @ + Mapped(level), !.level = level]

\* A page that is not mapped ends an identity-mapped region.
UnmappedPage(s, level) ==
  LET ends == s.mapped /\ s.identity /\ s.start # 0
  IN  [s EXCEPT !.mapped = FALSE, !.identity = FALSE,
         !.start = IF ends \/ @ = 0 THEN s.va ELSE @,
         !.lines = AppendIf(ends, @, Line("identity", s.start, s.va)),
         !.va = @ + Mapped(level), !.level = level]

\* Mutant: the loop advances by the huge page of the level above.
DumpStepTooFar(s) ==
  LET r == ResolvePage(s.va, s.level)
      next == IF r.level < Levels THEN r.level + 1 ELSE r.level
  IN  IF r.pa # 0 THEN MappedPage(s, r.pa, next) ELSE UnmappedPage(s, next)

DumpStep(s) ==
  LET r == ResolvePage(s.va, s.level)
  IN  IF r.pa # 0 THEN MappedPage(s, r.pa, r.level) ELSE UnmappedPage(s, r.level)

\* The level is uninitialised until a page is mapped: a parameter.
Dump(from, to, level) ==
  LET s[i \in 0 .. to - from] ==
        IF i = 0
        THEN [va |-> from, level |-> level, mapped |-> FALSE, identity |-> FALSE,
              start |-> 0, lines |-> <<>>]
        ELSE IF s[i - 1].va < to THEN DumpStep(s[i - 1]) ELSE s[i - 1]
      end == s[to - from]
  IN  IF end.start = 0 THEN end.lines
      ELSE IF end.mapped
      THEN AppendIf(end.identity, end.lines, Line("identity", end.start, to))
      ELSE Append(end.lines, Line("unmapped", end.start, to))

-----------------------------------------------------------------------------

LinesOf(lines) == {lines[i] : i \in DOMAIN lines}

\* The longest runs of entries of one kind.
MaximalRuns(used, n) ==
  {Run(used[r[1]], r[1], r[2]) : r \in
     {r \in (0 .. n - 1) \X (1 .. n) :
        /\ r[1] < r[2]
        /\ \A i \in r[1] .. r[2] - 1 : used[i] = used[r[1]]
        /\ r[1] > 0 => used[r[1] - 1] # used[r[1]]
        /\ r[2] < n => used[r[2]] # used[r[1]]}}

\* Tables of up to six entries, more than a table of a small instance has.
SummariesExact ==
  \A n \in 1 .. 6 : \A used \in [0 .. n - 1 -> BOOLEAN] :
    /\ LinesOf(PtSummary(used, n)) = MaximalRuns(used, n)
    /\ Len(PtSummary(used, n)) = Cardinality(MaximalRuns(used, n))

\* The listings leave nothing out and invent nothing, in every state of the
\* tables, half-made ones included: a summary is the list of the longest runs of
\* used and of free entries (dump_pt_summary), and a listing of a range of
\* dangless's pages that begins with a mapped one shows the mapped pages with the
\* memory they reach (dump_mappings).  When the range begins otherwise the
\* loop has no level to advance by, so nothing is said of it.
ListingsTellAll ==
  /\ SummariesExact
  /\ \A f \in Frames :
       LET used == [i \in 0 .. FanOut - 1 |-> table[f][i] # Zero]
       IN  LinesOf(PtSummary(used, FanOut)) = MaximalRuns(used, FanOut)
  /\ \A from \in Pages \ ProgramPages :
       \A to \in from + 1 .. FanOut * Mapped(Levels), level \in 1 .. Levels :
         Leaf(from).kind = "page" =>
           {l \in LinesOf(Dump(from, to, level)) : l.kind = "mapping"} =
           {Line("mapping", p, Resolve(p)) :
              p \in {q \in from .. to - 1 : Resolve(q) >= 0}}
=============================================================================
