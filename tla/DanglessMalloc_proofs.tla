----------------------- MODULE DanglessMalloc_proofs ------------------------
(***************************************************************************)
(* The safety of DanglessMalloc, for any number of threads, pages, entries *)
(* and sizes of chunks.  First how addresses, pages and chunks relate, for *)
(* any size of a page and of a PML4 entry: with these lemmas the proofs    *)
(* about the allocator can speak of pages alone.                           *)
(***************************************************************************)
EXTENDS DanglessMalloc, VpFreelist_proofs, FiniteSetTheorems

LEMMA Division ==
  ASSUME NEW a \in Int, NEW s \in Nat \ {0}
  PROVE  /\ a \div s \in Int /\ a % s \in Int
         /\ a = s * (a \div s) + (a % s)
         /\ 0 <= a % s /\ a % s < s
  BY SMT

LEMMA Quotient ==
  ASSUME NEW a \in Int, NEW s \in Nat \ {0}, NEW q \in Int, s * q <= a, a < s * q + s
  PROVE  a \div s = q /\ a % s = a - s * q
<1>1. PICK d \in Int : d = a \div s /\ a = s * d + (a % s) /\ 0 <= a % s /\ a % s < s
                       /\ a % s \in Int
  BY Division
<1>2. s * (d - q) < s /\ s * (q - d) < s
  BY <1>1, SMT
<1>3. d - q < 1
  BY <1>2, SMT
<1>4. q - d < 1
  BY <1>2, SMT
<1> QED
  BY <1>1, <1>3, <1>4, SMT

\* Addresses are counted from 0, in pages of PageSize units.
LEMMA PageFacts ==
  ASSUME NEW a \in Nat
  PROVE  /\ PageOf(a) \in Nat
         /\ OffsetIn(a) \in Nat /\ OffsetIn(a) < PageSize
         /\ a = PageSize * PageOf(a) + OffsetIn(a)
<1>1. PageSize \in Nat \ {0}
  BY SizesAssumption
<1>2. /\ a \div PageSize \in Int /\ a % PageSize \in Int
      /\ a = PageSize * (a \div PageSize) + (a % PageSize)
      /\ 0 <= a % PageSize /\ a % PageSize < PageSize
  BY <1>1, Division
<1>3. a \div PageSize >= 0
  BY <1>1, <1>2, SMT
<1> QED
  BY <1>2, <1>3 DEF PageOf, OffsetIn

LEMMA PageUnique ==
  ASSUME NEW a \in Nat, NEW q \in Int, PageSize * q <= a, a < PageSize * q + PageSize
  PROVE  PageOf(a) = q /\ OffsetIn(a) = a - PageSize * q
<1>0. a \in Int
  OBVIOUS
<1>1. PageSize \in Nat \ {0}
  BY SizesAssumption
<1>2. a \div PageSize = q /\ a % PageSize = a - PageSize * q
  BY ONLY <1>1, <1>0, q \in Int, PageSize * q <= a, a < PageSize * q + PageSize, Quotient, Zenon
<1> QED
  BY <1>2 DEF PageOf, OffsetIn

\* vremap_resolve: what an address is made of.
LEMMA AddressFacts ==
  ASSUME NEW q \in Nat, NEW o \in Nat, o < PageSize
  PROVE  /\ AddressOf(q) + o \in Nat
         /\ PageOf(AddressOf(q) + o) = q
         /\ OffsetIn(AddressOf(q) + o) = o
<1>1. PageSize \in Nat /\ AddressOf(q) = PageSize * q
  BY SizesAssumption DEF AddressOf
<1>2. PageSize * q \in Nat
  BY <1>1, SMT
<1> DEFINE a == PageSize * q + o
<1>3. a \in Nat /\ PageSize * q <= a /\ a < PageSize * q + PageSize /\ a - PageSize * q = o
  BY <1>1, <1>2
<1> HIDE DEF a
<1>4. PageOf(a) = q /\ OffsetIn(a) = o
  BY <1>3, PageUnique
<1> QED
  BY <1>1, <1>3, <1>4 DEF a

\* Two addresses with the same offset go through their pages in step.
LEMMA InStep ==
  ASSUME NEW ptr \in Nat, NEW base \in Nat, OffsetIn(ptr) = OffsetIn(base), NEW k \in Nat
  PROVE  /\ PageOf(ptr + k) - PageOf(ptr) = PageOf(base + k) - PageOf(base)
         /\ OffsetIn(ptr + k) = OffsetIn(base + k)
         /\ PageOf(ptr) <= PageOf(ptr + k)
<1> DEFINE q == PageOf(base + k) - PageOf(base)
           b == PageOf(ptr) + q
<1>1. PageSize \in Nat \ {0}
  BY SizesAssumption
<1>2. /\ PageOf(ptr) \in Nat /\ PageOf(base) \in Nat /\ PageOf(base + k) \in Nat
      /\ OffsetIn(base + k) \in Nat /\ OffsetIn(base + k) < PageSize
      /\ OffsetIn(ptr) < PageSize /\ OffsetIn(ptr) \in Nat
      /\ ptr = PageSize * PageOf(ptr) + OffsetIn(ptr)
      /\ base = PageSize * PageOf(base) + OffsetIn(base)
      /\ base + k = PageSize * PageOf(base + k) + OffsetIn(base + k)
  BY PageFacts
<1>3. PageSize * b = PageSize * PageOf(ptr) + PageSize * PageOf(base + k)
                       - PageSize * PageOf(base)
  BY <1>1, <1>2, SMT
<1>4. q \in Int /\ b \in Int /\ ptr + k \in Nat
  BY <1>2
<1> HIDE DEF b
<1>5. PICK m \in Int : m = PageSize * b
  BY <1>1, <1>4, SMT
<1>6. m = ptr + k - OffsetIn(base + k)
  BY <1>1, <1>2, <1>3, <1>5, SMT
<1>7. PageOf(ptr + k) = b /\ OffsetIn(ptr + k) = ptr + k - m
  <2>1. PageSize * b <= ptr + k /\ ptr + k < PageSize * b + PageSize
    BY <1>1, <1>2, <1>4, <1>5, <1>6, SMT
  <2>2. PICK a \in Nat, c \in Int : a = ptr + k /\ c = b
    BY <1>4
  <2>3. PageSize * c <= a /\ a < PageSize * c + PageSize
    BY <2>1, <2>2
  <2>4. PageOf(a) = c /\ OffsetIn(a) = a - PageSize * c
    BY ONLY a \in Nat, c \in Int, <2>3, PageUnique, Zenon
  <2> QED
    BY <1>5, <2>2, <2>4
<1>8. OffsetIn(ptr + k) = OffsetIn(base + k)
  BY <1>2, <1>4, <1>6, <1>7
<1>9. q >= 0
  <2>1. PageSize * q + PageSize > 0
    <3>1. PageSize * q = PageSize * PageOf(base + k) - PageSize * PageOf(base)
      BY <1>1, <1>2, SMT
    <3> QED
      BY <1>1, <1>2, <3>1, SMT
  <2>2. q + 1 > 0
    <3> HIDE DEF q
    <3> QED
      BY <1>1, <1>4, <2>1, SMT
  <2> QED
    BY <1>4, <2>2
<1> QED
  BY <1>2, <1>4, <1>7, <1>8, <1>9 DEF b

\* NUM_SPANNED_PAGES: from the page of the first unit to the page of the last.
LEMMA SpannedFacts ==
  ASSUME NEW addr \in Nat, NEW len \in Nat \ {0}
  PROVE  /\ SpannedPages(addr, len) = PageOf(addr + len - 1) - PageOf(addr) + 1
         /\ PageOf(addr) <= PageOf(addr + len - 1)
         /\ SpannedPages(addr, len) \in Nat \ {0}
         /\ PageOf(RoundUp(addr + len)) = PageOf(addr) + SpannedPages(addr, len)
<1> DEFINE last == addr + len - 1
           q == PageOf(last)
           r == PageOf(addr + len + PageSize - 1)
<1>1. PageSize \in Nat \ {0} /\ last \in Nat /\ addr + len + PageSize - 1 = last + PageSize
  BY SizesAssumption
<1>2. /\ q \in Nat /\ OffsetIn(last) \in Nat /\ OffsetIn(last) < PageSize
      /\ last = PageSize * q + OffsetIn(last)
  BY <1>1, PageFacts
<1>3. r = q + 1
  <2> HIDE DEF q
  <2>1. PICK a \in Nat, c \in Int : a = last + PageSize /\ c = q + 1
    BY <1>1, <1>2
  <2>2. PageSize * c = PageSize * q + PageSize
    BY <1>1, <1>2, <2>1, SMT
  <2>3. PICK m \in Int : m = PageSize * q
    BY <1>1, <1>2, SMT
  <2>4. PageSize * c <= a /\ a < PageSize * c + PageSize
    BY <1>1, <1>2, <2>1, <2>2, <2>3
  <2>5. PageOf(a) = c
    BY ONLY a \in Nat, c \in Int, <2>4, PageUnique, Zenon
  <2> QED
    BY <1>1, <2>1, <2>5
<1>4. RoundUp(addr + len) = AddressOf(r) + 0 /\ r \in Nat /\ 0 < PageSize
  <2> HIDE DEF q
  <2>1. r \in Nat
    BY <1>2, <1>3
  <2>2. AddressOf(r) \in Nat
    BY <1>1, <2>1, AddressFacts DEF AddressOf
  <2> QED
    BY <1>1, <2>1, <2>2 DEF RoundUp
<1>5. PageOf(RoundUp(addr + len)) = r
  BY <1>4, AddressFacts
<1>6. PageOf(addr) \in Nat /\ PageOf(addr) <= q
  <2>1. OffsetIn(addr) = OffsetIn(addr) /\ len - 1 \in Nat /\ addr + (len - 1) = last
    OBVIOUS
  <2> QED
    BY <2>1, InStep, PageFacts
<1> QED
  <2> HIDE DEF q, r
  <2>1. SpannedPages(addr, len) = r - PageOf(addr)
    BY <1>5 DEF SpannedPages
  <2>2. SpannedPages(addr, len) = q - PageOf(addr) + 1
    BY <1>2, <1>3, <1>6, <2>1
  <2> QED
    BY <1>2, <1>3, <1>5, <1>6, <2>2 DEF q

\* An alias with the offset of its chunk spans as many pages as the chunk.
LEMMA SpannedAlike ==
  ASSUME NEW ptr \in Nat, NEW base \in Nat, OffsetIn(ptr) = OffsetIn(base),
         NEW len \in Nat \ {0}
  PROVE  SpannedPages(ptr, len) = SpannedPages(base, len)
<1>1. len - 1 \in Nat /\ ptr + (len - 1) = ptr + len - 1 /\ base + (len - 1) = base + len - 1
  OBVIOUS
<1>2. PageOf(ptr + len - 1) - PageOf(ptr) = PageOf(base + len - 1) - PageOf(base)
  BY <1>1, InStep
<1> QED
  BY <1>2, SpannedFacts

\* Each page from the first unit's to the last unit's holds a unit.
LEMMA PageReached ==
  ASSUME NEW ptr \in Nat, NEW len \in Nat \ {0},
         NEW p \in PageOf(ptr) .. PageOf(ptr) + SpannedPages(ptr, len) - 1
  PROVE  \E k \in 0 .. len - 1 : PageOf(ptr + k) = p
<1> DEFINE q == PageOf(ptr)
           last == ptr + len - 1
           z == PageOf(last)
<1>1. PageSize \in Nat \ {0} /\ last \in Nat
  BY SizesAssumption
<1>2. /\ q \in Nat /\ OffsetIn(ptr) \in Nat /\ OffsetIn(ptr) < PageSize
      /\ ptr = PageSize * q + OffsetIn(ptr)
      /\ z \in Nat /\ OffsetIn(last) \in Nat /\ OffsetIn(last) < PageSize
      /\ last = PageSize * z + OffsetIn(last)
  BY <1>1, PageFacts
<1>3. p \in Nat /\ q <= p /\ p <= z
  <2> HIDE DEF q, z
  <2>1. SpannedPages(ptr, len) = z - q + 1
    BY SpannedFacts DEF q, z
  <2> QED
    BY <1>2, <2>1 DEF q
<1> HIDE DEF q, z
<1>4. CASE p = q
  BY <1>4 DEF q
<1>5. CASE p > q
  <2>1. PICK m \in Int, b \in Int, c \in Int :
          m = PageSize * p /\ b = PageSize * q /\ c = PageSize * z
    BY <1>1, <1>2, <1>3, SMT
  <2>2. PageSize * (p - q) >= PageSize /\ PageSize * (z - p) >= 0
    BY <1>1, <1>2, <1>3, <1>5, SMT
  <2>3. PageSize * (p - q) = m - b /\ PageSize * (z - p) = c - m
    BY <1>1, <1>2, <1>3, <2>1, SMT
  <2>4. m - b >= PageSize /\ c >= m
    BY <2>1, <2>2, <2>3
  <2>5. m \in Nat /\ ptr <= m /\ m <= last
    BY <1>1, <1>2, <2>1, <2>4
  <2>6. PageSize * p <= m /\ m < PageSize * p + PageSize
    BY <1>1, <2>1
  <2>7. PageOf(m) = p
    BY ONLY <2>5, p \in Int, <2>6, PageUnique, Zenon
  <2>8. m - ptr \in 0 .. len - 1 /\ ptr + (m - ptr) = m
    BY <2>5
  <2> QED
    BY <2>7, <2>8
<1> QED
  BY <1>2, <1>3, <1>4, <1>5

-----------------------------------------------------------------------------
(* PML4 entries. *)

\* The pages of the heap are those below the first entry.
LEMMA HeapPageOf ==
  ASSUME NEW a \in HeapUnits
  PROVE  a \in Nat /\ PageOf(a) \in HeapPages
<1>1. PageSize \in Nat \ {0} /\ EntryPages \in Nat \ {0}
  BY SizesAssumption
<1>2. EntryPages * PageSize \in Nat
  BY <1>1, SMT
<1>3. a \in Nat /\ a < EntryPages * PageSize
  BY <1>2 DEF HeapUnits
<1>4. /\ PageOf(a) \in Nat /\ OffsetIn(a) \in Nat
      /\ a = PageSize * PageOf(a) + OffsetIn(a)
  BY <1>3, PageFacts
<1>5. PageSize * (EntryPages - PageOf(a)) > 0
  <2>1. PageSize * (EntryPages - PageOf(a)) = EntryPages * PageSize - PageSize * PageOf(a)
    BY <1>1, <1>4, SMT
  <2>2. PICK m \in Int : m = PageSize * PageOf(a)
    BY <1>1, <1>4, SMT
  <2> QED
    BY <1>2, <1>3, <1>4, <2>1, <2>2
<1>6. EntryPages - PageOf(a) > 0
  BY <1>1, <1>4, <1>5, SMT
<1> QED
  BY <1>1, <1>3, <1>4, <1>6 DEF HeapPages

LEMMA EntryFacts ==
  ASSUME NEW p \in VirtPages
  PROVE  /\ p \in Nat /\ p \notin HeapPages
         /\ EntryOf(p) \in 1 .. NumEntries
<1>1. EntryPages \in Nat \ {0} /\ NumEntries \in Nat
  BY SizesAssumption
<1>2. PICK top \in Nat : top = (NumEntries + 1) * EntryPages
  BY <1>1, SMT
<1>3. p \in Nat /\ EntryPages <= p /\ p < top
  BY <1>1, <1>2 DEF VirtPages
<1>4. PICK q \in Int : /\ q = p \div EntryPages
                       /\ p = EntryPages * q + (p % EntryPages)
                       /\ p % EntryPages \in Int
                       /\ 0 <= p % EntryPages /\ p % EntryPages < EntryPages
  <2>1. p \in Int
    BY <1>3
  <2>2. /\ p \div EntryPages \in Int /\ p % EntryPages \in Int
        /\ p = EntryPages * (p \div EntryPages) + (p % EntryPages)
        /\ 0 <= p % EntryPages /\ p % EntryPages < EntryPages
    BY <1>1, <2>1, Division
  <2> QED
    BY ONLY <2>2
<1>5. PICK m \in Int : m = EntryPages * q
  BY <1>1, SMT
<1>6. q >= 1
  <2>1. m > 0
    BY <1>1, <1>3, <1>4, <1>5
  <2> QED
    BY <1>1, <1>5, <2>1, SMT
<1>7. q < NumEntries + 1
  <2>1. EntryPages * (NumEntries + 1 - q) = top - m
    BY <1>1, <1>2, <1>5, SMT
  <2>2. top - m > 0
    BY <1>1, <1>2, <1>3, <1>4, <1>5
  <2> QED
    BY <1>1, <2>1, <2>2, SMT
<1> QED
  BY <1>1, <1>3, <1>4, <1>6, <1>7 DEF EntryOf, HeapPages

\* auto_dedicate_vmem: the pages of the entry e.
LEMMA EntryPagesFacts ==
  ASSUME NEW e \in 1 .. NumEntries
  PROVE  /\ e * EntryPages \in Nat /\ (e + 1) * EntryPages \in Nat
         /\ e * EntryPages < (e + 1) * EntryPages
         /\ \A p \in e * EntryPages .. (e + 1) * EntryPages - 1 :
              p \in VirtPages /\ EntryOf(p) = e
<1>1. EntryPages \in Nat \ {0} /\ NumEntries \in Nat
  BY SizesAssumption
<1>2. /\ e * EntryPages \in Nat /\ (e + 1) * EntryPages \in Nat
      /\ (e + 1) * EntryPages = e * EntryPages + EntryPages
      /\ e * EntryPages >= EntryPages
      /\ (NumEntries + 1) * EntryPages \in Nat
      /\ (e + 1) * EntryPages <= (NumEntries + 1) * EntryPages
      /\ EntryPages * e = e * EntryPages
  BY <1>1, SMT
<1>3. PICK lo \in Nat, hi \in Nat, top \in Nat :
        lo = e * EntryPages /\ hi = (e + 1) * EntryPages /\ top = (NumEntries + 1) * EntryPages
  BY <1>2
<1>4. lo < hi /\ hi = lo + EntryPages /\ EntryPages <= lo /\ hi <= top
  BY <1>1, <1>2, <1>3
<1>5. ASSUME NEW p \in lo .. hi - 1 PROVE p \in VirtPages /\ EntryOf(p) = e
  <2>1. p \in VirtPages
    BY <1>1, <1>3, <1>4 DEF VirtPages
  <2>2. EntryPages * e <= p /\ p < EntryPages * e + EntryPages
    BY <1>1, <1>2, <1>3, <1>4
  <2>3. p \in Int /\ e \in Int
    BY <1>4
  <2>4. p \div EntryPages = e
    BY ONLY <1>1, <2>2, <2>3, Quotient, Zenon
  <2> QED
    BY <2>1, <2>4 DEF EntryOf
<1> QED
  BY <1>3, <1>4, <1>5

-----------------------------------------------------------------------------
(* Chunks. *)

\* The chunks of the heap lie in it and do not overlap.
ChunksApart ==
  /\ heap \subseteq [base : HeapUnits, len : 1 .. MaxLen, zero : BOOLEAN]
  /\ \A c \in heap : c.base + c.len - 1 \in HeapUnits
  /\ \A c, d \in heap : c # d => Units(c) \cap Units(d) = {}

\* The pages of an alias at ptr of the chunk at base.
AliasRange(ptr, base) == PageOf(ptr) .. PageOf(ptr) + ChunkPages(base) - 1

LEMMA ChunkFacts ==
  ASSUME ChunksApart, NEW base, HasChunk(base)
  PROVE  /\ ChunkAt(base) \in heap /\ ChunkAt(base).base = base
         /\ \A c \in heap : c.base = base => c = ChunkAt(base)
         /\ base \in HeapUnits /\ base \in Nat
         /\ ChunkAt(base).len \in Nat \ {0}
         /\ base + ChunkAt(base).len - 1 \in HeapUnits
         /\ ChunkPages(base) \in Nat \ {0}
<1>1. ChunkAt(base) \in heap /\ ChunkAt(base).base = base
  BY DEF HasChunk, ChunkAt
<1>2. ChunkAt(base).len \in Nat \ {0} /\ base \in HeapUnits /\ base \in Nat
  BY <1>1, SizesAssumption, HeapPageOf DEF ChunksApart
<1>3. base + ChunkAt(base).len - 1 \in HeapUnits
  BY <1>1 DEF ChunksApart
<1>4. ASSUME NEW c \in heap, c.base = base PROVE c = ChunkAt(base)
  <2>1. base \in Units(c) /\ base \in Units(ChunkAt(base))
    <3>1. c.len \in Nat \ {0}
      BY SizesAssumption DEF ChunksApart
    <3> QED
      BY <1>1, <1>2, <1>4, <3>1 DEF Units
  <2> QED
    BY <1>1, <2>1 DEF ChunksApart
<1>5. ChunkPages(base) \in Nat \ {0}
  BY <1>2, SpannedFacts DEF ChunkPages
<1> QED
  BY <1>1, <1>2, <1>3, <1>4, <1>5

\* The pages behind a chunk are pages of the heap.
LEMMA BackingPages ==
  ASSUME ChunksApart, NEW base, HasChunk(base), NEW k \in 0 .. ChunkPages(base) - 1
  PROVE  PageOf(base) + k \in HeapPages
<1> DEFINE len == ChunkAt(base).len
<1>1. /\ base \in HeapUnits /\ base \in Nat /\ len \in Nat \ {0}
      /\ base + len - 1 \in HeapUnits
      /\ ChunkPages(base) = SpannedPages(base, len)
  BY ChunkFacts DEF ChunkPages
<1>2. PageOf(base) \in HeapPages /\ PageOf(base + len - 1) \in HeapPages
  BY <1>1, HeapPageOf
<1>3. SpannedPages(base, len) = PageOf(base + len - 1) - PageOf(base) + 1
  BY <1>1, SpannedFacts
<1> HIDE DEF len
<1> QED
  BY <1>1, <1>2, <1>3, SizesAssumption DEF HeapPages

\* What the properties call the footprint of an alias is its range of pages.
LEMMA FootprintFacts ==
  ASSUME ChunksApart, NEW base, HasChunk(base), NEW ptr \in Nat,
         OffsetIn(ptr) = OffsetIn(base)
  PROVE  Footprint(ptr, base) = AliasRange(ptr, base)
<1> DEFINE len == ChunkAt(base).len
<1>1. base \in Nat /\ len \in Nat \ {0} /\ ChunkPages(base) = SpannedPages(base, len)
  BY ChunkFacts DEF ChunkPages
<1>2. {d \in heap : d.base = base} = {ChunkAt(base)}
  BY ChunkFacts
<1>3. Units(ChunkAt(base)) = base .. base + len - 1
  BY ChunkFacts DEF Units
<1>4. Footprint(ptr, base) = {PageOf(ptr + u - base) : u \in base .. base + len - 1}
  <2>1. UNION {Units(c) : c \in {ChunkAt(base)}} = base .. base + len - 1
    BY <1>3
  <2> QED
    BY <1>2, <2>1 DEF Footprint
<1>5. SpannedPages(ptr, len) = SpannedPages(base, len)
  BY <1>1, SpannedAlike
<1> HIDE DEF len
<1>6. ASSUME NEW u \in base .. base + len - 1
      PROVE  PageOf(ptr + u - base) \in AliasRange(ptr, base)
  <2>1. PICK k \in Nat : k = u - base /\ k <= len - 1 /\ ptr + u - base = ptr + k
    BY <1>1
  <2>2. PICK j \in Nat : j = len - 1 - k /\ (ptr + k) + j = ptr + len - 1 /\ ptr + k \in Nat
    BY <1>1, <2>1
  <2>3. PageOf(ptr) <= PageOf(ptr + k)
    BY <1>1, InStep
  <2>4. PageOf(ptr + k) <= PageOf(ptr + len - 1)
    <3>1. PageOf(ptr + k) <= PageOf((ptr + k) + j)
      BY <2>2, InStep
    <3> QED
      BY <2>2, <3>1
  <2>5. /\ PageOf(ptr) \in Nat /\ PageOf(ptr + k) \in Nat /\ PageOf(ptr + len - 1) \in Nat
        /\ ptr + len - 1 \in Nat
    BY <1>1, PageFacts
  <2>6. SpannedPages(ptr, len) = PageOf(ptr + len - 1) - PageOf(ptr) + 1
    BY <1>1, SpannedFacts
  <2> QED
    BY <1>1, <1>5, <2>1, <2>3, <2>4, <2>5, <2>6 DEF AliasRange
<1>7. ASSUME NEW p \in AliasRange(ptr, base)
      PROVE  \E u \in base .. base + len - 1 : p = PageOf(ptr + u - base)
  <2>1. p \in PageOf(ptr) .. PageOf(ptr) + SpannedPages(ptr, len) - 1
    BY <1>1, <1>5 DEF AliasRange
  <2>2. PICK k \in 0 .. len - 1 : PageOf(ptr + k) = p
    BY <1>1, <2>1, PageReached
  <2>3. base + k \in base .. base + len - 1 /\ ptr + (base + k) - base = ptr + k
    BY <1>1
  <2> QED
    BY <2>2, <2>3
<1> QED
  BY <1>4, <1>6, <1>7

LEMMA FootprintOfNothing ==
  ASSUME NEW base, ~HasChunk(base), NEW ptr
  PROVE  Footprint(ptr, base) = {}
  BY DEF HasChunk, Footprint

-----------------------------------------------------------------------------

\* The regions the program dedicates do not overlap, and lie below entries of
\* the page table that are in use, which the automatic dedication leaves alone.
RegionsApart ==
  /\ \A r, s \in UserRegions : r # s => SpanPages(r) \cap SpanPages(s) = {}
  /\ \A r \in UserRegions : \A p \in SpanPages(r) : EntryOf(p) \in ProgramEntries

-----------------------------------------------------------------------------
(* The inductive invariant. *)

\* The pages that belong to a pointer the program holds.
Held(ptr, base) == IF ptr = base THEN {} ELSE AliasRange(ptr, base)

\* The pages that belong to a call.
CallRange(t) ==
  IF op[t].pc \in {"map", "unmap", "vp_free"}
  THEN op[t].page .. op[t].page + ChunkPages(op[t].base) - 1
  ELSE IF op[t].pc = "sysrealloc" THEN Held(op[t].ptr, op[t].base)
  ELSE IF op[t].pc = "invalidate" THEN PageOf(op[t].ptr) .. op[t].page + op[t].n - 1
  ELSE {}

\* A pointer to the chunk at base is the chunk itself, or an alias of which all
\* pages are mapped to those of the chunk.
Backed(ptr, base) ==
  \/ ptr = base
  \/ /\ OffsetIn(ptr) = OffsetIn(base)
     /\ \A p \in AliasRange(ptr, base) :
          p \in VirtPages /\ pte[p] = PageOf(base) + p - PageOf(ptr)

\* A chunk that belongs to somebody belongs to one pointer or to one call.
BasesApart ==
  /\ \A a \in live : HasChunk(a.base)
  /\ \A a, b \in live : a.base = b.base => a = b
  /\ \A t \in Threads : op[t].pc # "idle" => HasChunk(op[t].base)
  /\ \A a \in live, t \in Threads : op[t].pc # "idle" => op[t].base # a.base
  /\ \A t, u \in Threads :
       op[t].pc # "idle" /\ op[u].pc # "idle" /\ op[t].base = op[u].base => t = u

\* A page belongs to one pointer, to one call, to the free list, or was left
\* behind by realloc(p, 0).
PagesApart ==
  /\ \A a, b \in live : a # b => Held(a.ptr, a.base) \cap Held(b.ptr, b.base) = {}
  /\ \A a \in live, t \in Threads : Held(a.ptr, a.base) \cap CallRange(t) = {}
  /\ \A t, u \in Threads : t # u => CallRange(t) \cap CallRange(u) = {}
  /\ \A a \in live : Held(a.ptr, a.base) \cap (FreePages(items) \cup abandoned) = {}
  /\ \A t \in Threads : CallRange(t) \cap (FreePages(items) \cup abandoned) = {}
  /\ FreePages(items) \cap abandoned = {}

\* The free list is well formed and what it offers is not mapped.
FreeUnmapped ==
  /\ Coalesced(items)
  /\ \A p \in FreePages(items) : p \in VirtPages /\ pte[p] = Unmapped

\* What a call has done to its pages so far.
CallProgress(t) ==
  /\ op[t].pc = "vp_alloc" => op[t].i = 0
  /\ op[t].pc = "map" =>
       /\ op[t].i < ChunkPages(op[t].base)
       /\ \A p \in CallRange(t) :
            /\ p \in VirtPages
            /\ pte[p] = IF p < op[t].page + op[t].i THEN PageOf(op[t].base) + p - op[t].page
                        ELSE Unmapped
  /\ op[t].pc = "unmap" =>
       /\ op[t].i <= op[t].n /\ op[t].n < ChunkPages(op[t].base)
       /\ \A p \in CallRange(t) :
            /\ p \in VirtPages
            /\ pte[p] = IF op[t].page + op[t].i <= p /\ p < op[t].page + op[t].n
                        THEN PageOf(op[t].base) + p - op[t].page ELSE Unmapped
  /\ op[t].pc = "vp_free" => \A p \in CallRange(t) : p \in VirtPages /\ pte[p] = Unmapped
  /\ op[t].pc = "sysrealloc" => Backed(op[t].ptr, op[t].base)
  /\ op[t].pc = "invalidate" =>
       /\ op[t].i <= op[t].n
       /\ PageOf(op[t].ptr) <= op[t].page
       /\ \A p \in CallRange(t) :
            /\ p \in VirtPages
            /\ op[t].page <= p => IF p < op[t].page + op[t].i THEN pte[p] = Invalidated
                                  ELSE pte[p] \in HeapPages
       /\ op[t].then = "return" =>
            /\ op[t].ptr # op[t].base /\ Backed(op[t].ptr, op[t].base)
            /\ op[t].page = PageOf(op[t].ptr) + ChunkPages(op[t].base)
       /\ op[t].then # "return" => op[t].page = PageOf(op[t].ptr)

\* What is mapped belongs to somebody.
MappedOwned ==
  \A p \in VirtPages : pte[p] \in HeapPages =>
    \/ \E a \in live : p \in Held(a.ptr, a.base)
    \/ \E t \in Threads : p \in CallRange(t)
    \/ p \in abandoned

\* Every chunk of the heap belongs to somebody.
ChunksOwned ==
  \A c \in heap :
    \/ c.zero
    \/ \E a \in live : a.base = c.base
    \/ \E t \in Threads : op[t].pc # "idle" /\ op[t].base = c.base

\* Before Dune is entered nothing is remapped.
NothingRemappedYet ==
  ~inDune =>
    /\ \A a \in live : a.ptr = a.base
    /\ \A t \in Threads : op[t].pc \in {"idle", "sysfree", "sysrealloc"}
    /\ \A t \in Threads : op[t].pc = "sysrealloc" => op[t].ptr = op[t].base

\* The entries of the PML4 that the automatic dedication has given to the list.
Dedicated(e) ==
  \/ once = "done"
  \/ \E t \in Threads : op[t].pc = "dedicate" /\ e < op[t].i

\* A page that has or had a use.
Used(p) ==
  \/ p \in FreePages(items) \cup abandoned
  \/ pte[p] # Unmapped
  \/ \E a \in live : p \in Held(a.ptr, a.base)
  \/ \E t \in Threads : p \in CallRange(t)

\* Pages come from dedicated regions only.
UsedWasGiven ==
  \A p \in VirtPages : Used(p) =>
    \/ p \in UNION {SpanPages(r) : r \in given}
    \/ EntryOf(p) \notin ProgramEntries /\ Dedicated(EntryOf(p))

\* One thread dedicates, and the entries of the program stay in use.
OneDedicates ==
  /\ \A t \in Threads : op[t].pc = "dedicate" => once = "running"
  /\ \A t, u \in Threads : op[t].pc = "dedicate" /\ op[u].pc = "dedicate" => t = u
  /\ \A e \in ProgramEntries : tables[e] = 3

IInv ==
  /\ TypeOK
  /\ ChunksApart
  /\ BasesApart
  /\ PagesApart
  /\ FreeUnmapped
  /\ \A t \in Threads : CallProgress(t)
  /\ \A a \in live : Backed(a.ptr, a.base)
  /\ MappedOwned
  /\ ChunksOwned
  /\ NothingRemappedYet
  /\ UsedWasGiven
  /\ OneDedicates

-----------------------------------------------------------------------------
(* What a step of one thread leaves alone. *)

\* A chunk that a step leaves in the heap keeps its size, and its aliases their
\* pages.
LEMMA ChunkStays ==
  ASSUME ChunksApart, ChunksApart', NEW b, HasChunk(b), ChunkAt(b) \in heap'
  PROVE  /\ HasChunk(b)' /\ ChunkAt(b)' = ChunkAt(b) /\ ChunkPages(b)' = ChunkPages(b)
         /\ \A p : AliasRange(p, b)' = AliasRange(p, b)
         /\ \A p : Held(p, b)' = Held(p, b)
<1> DEFINE c == ChunkAt(b)
<1>1. c.base = b /\ b \in Nat /\ c.len \in Nat \ {0}
  BY ChunkFacts
<1>2. ASSUME NEW d \in heap', d.base = b PROVE d = c
  <2>1. d.len \in Nat \ {0}
    BY SizesAssumption DEF ChunksApart
  <2>2. b \in Units(d) /\ b \in Units(c)
    BY <1>1, <1>2, <2>1 DEF Units
  <2> QED
    BY <2>2 DEF ChunksApart
<1>3. HasChunk(b)' /\ ChunkAt(b)' = c
  BY <1>1, <1>2 DEF HasChunk, ChunkAt
<1>4. ChunkPages(b)' = ChunkPages(b)
  BY <1>3 DEF ChunkPages
<1> QED
  BY <1>3, <1>4 DEF AliasRange, Held

LEMMA HeapSame ==
  ASSUME heap' = heap
  PROVE  /\ \A b : HasChunk(b)' = HasChunk(b)
         /\ \A b : ChunkAt(b)' = ChunkAt(b)
         /\ \A b : ChunkPages(b)' = ChunkPages(b)
         /\ \A p, b : AliasRange(p, b)' = AliasRange(p, b)
         /\ \A p, b : Held(p, b)' = Held(p, b)
  BY DEF HasChunk, ChunkAt, ChunkPages, AliasRange, Held

\* The pages that the thread t, and the pointers not kept, had before a step and
\* have after it.
OldPages(t, kept) == CallRange(t) \cup UNION {Held(a.ptr, a.base) : a \in live \ kept}

NewPages(t, kept) ==
  CallRange(t)' \cup UNION {Held(a.ptr, a.base)' : a \in live' \ kept}

\* In a step of thread t the pointers `kept` stay as they are, and at most one
\* owner takes the place of t and the other pointers: either a pointer or t
\* itself, for the chunk at `mine`.
HandsOver(t, kept, mine) ==
  /\ \A u \in Threads : u # t => op'[u] = op[u]
  /\ kept \subseteq live /\ kept \subseteq live'
  /\ \A p \in VirtPages : pte'[p] # pte[p] => p \in CallRange(t)
  /\ \A a \in kept : a.base # mine /\ ChunkAt(a.base) \in heap'
  /\ \A u \in Threads : u # t /\ op[u].pc # "idle" =>
       op[u].base # mine /\ ChunkAt(op[u].base) \in heap'
  /\ \A a \in live' \ kept : a.base = mine /\ HasChunk(mine)' /\ op'[t].pc = "idle"
  /\ \A a, b \in live' \ kept : a = b
  /\ op'[t].pc # "idle" => op'[t].base = mine /\ HasChunk(mine)'
  /\ \A p \in NewPages(t, kept) \cup abandoned' :
       p \in OldPages(t, kept) \cup FreePages(items) \cup abandoned
  /\ \A p \in FreePages(items') :
       p \in OldPages(t, kept) \cup FreePages(items) \/ ~Used(p)
  /\ NewPages(t, kept) \cap (FreePages(items') \cup abandoned') = {}
  /\ FreePages(items') \cap abandoned' = {}
  /\ abandoned \subseteq abandoned'
  /\ \A p \in VirtPages : pte'[p] \in HeapPages /\ p \in OldPages(t, kept) =>
       p \in NewPages(t, kept) \cup abandoned'
  /\ \A c \in heap' :
       \/ c.zero
       \/ c.base = mine /\ (op'[t].pc # "idle" \/ live' # kept)
       \/ c \in heap /\ (op[t].pc # "idle" => op[t].base # c.base)
                     /\ \A a \in live \ kept : a.base # c.base

LEMMA OthersKeep ==
  ASSUME IInv, ChunksApart', NEW t \in Threads, NEW kept, NEW mine, HandsOver(t, kept, mine)
  PROVE  /\ \A a \in kept : /\ HasChunk(a.base)'
                            /\ Held(a.ptr, a.base)' = Held(a.ptr, a.base)
                            /\ Backed(a.ptr, a.base)'
         /\ \A u \in Threads : u # t =>
              /\ CallRange(u)' = CallRange(u)
              /\ op[u].pc # "idle" => HasChunk(op[u].base)'
              /\ CallProgress(u)'
<1>1. ASSUME NEW a \in kept
      PROVE  /\ HasChunk(a.base)' /\ Held(a.ptr, a.base)' = Held(a.ptr, a.base)
             /\ AliasRange(a.ptr, a.base)' = AliasRange(a.ptr, a.base)
  BY ChunkStays DEF HandsOver, IInv, BasesApart
<1>2. ASSUME NEW a \in kept PROVE Backed(a.ptr, a.base)'
  <2>1. a \in live /\ Backed(a.ptr, a.base)
    BY DEF HandsOver, IInv
  <2>2. a.ptr # a.base => AliasRange(a.ptr, a.base) \cap CallRange(t) = {}
    BY <2>1 DEF IInv, PagesApart, Held
  <2>3. \A p \in VirtPages : p \notin CallRange(t) => pte'[p] = pte[p]
    BY DEF HandsOver
  <2> QED
    BY <1>1, <2>1, <2>2, <2>3 DEF Backed
<1>3. ASSUME NEW u \in Threads, u # t
      PROVE  /\ op'[u] = op[u]
             /\ op[u].pc # "idle" =>
                  /\ HasChunk(op[u].base)'
                  /\ ChunkPages(op[u].base)' = ChunkPages(op[u].base)
                  /\ Held(op[u].ptr, op[u].base)' = Held(op[u].ptr, op[u].base)
                  /\ AliasRange(op[u].ptr, op[u].base)' = AliasRange(op[u].ptr, op[u].base)
  BY <1>3, ChunkStays DEF HandsOver, IInv, BasesApart
<1>4. ASSUME NEW u \in Threads, u # t PROVE CallRange(u)' = CallRange(u)
  BY <1>3, <1>4 DEF CallRange
<1>5. ASSUME NEW u \in Threads, u # t PROVE CallProgress(u)'
  <2>1. CallProgress(u) /\ CallRange(u) \cap CallRange(t) = {}
    BY <1>5 DEF IInv, PagesApart
  <2>2. \A p \in CallRange(u) : p \in VirtPages => pte'[p] = pte[p]
    BY <2>1 DEF HandsOver
  <2>3. op[u].pc = "sysrealloc" => Backed(op[u].ptr, op[u].base)'
    <3> SUFFICES ASSUME op[u].pc = "sysrealloc", op[u].ptr # op[u].base
                 PROVE  Backed(op[u].ptr, op[u].base)'
      BY <1>3, <1>5 DEF Backed
    <3>1. CallRange(u) = AliasRange(op[u].ptr, op[u].base)
      BY DEF CallRange, Held
    <3>2. Backed(op[u].ptr, op[u].base)
      BY <2>1 DEF CallProgress
    <3> QED
      BY <1>3, <1>5, <2>2, <3>1, <3>2 DEF Backed
  <2>4. op[u].pc = "invalidate" /\ op[u].then = "return" => Backed(op[u].ptr, op[u].base)'
    <3> SUFFICES ASSUME op[u].pc = "invalidate", op[u].then = "return"
                 PROVE  Backed(op[u].ptr, op[u].base)'
      OBVIOUS
    <3>1. /\ Backed(op[u].ptr, op[u].base) /\ op[u].ptr # op[u].base
          /\ op[u].page = PageOf(op[u].ptr) + ChunkPages(op[u].base)
      BY <2>1 DEF CallProgress
    <3>2. AliasRange(op[u].ptr, op[u].base) \subseteq CallRange(u)
      <4>1. op[u].n \in Nat /\ op[u].page \in Nat /\ op[u].ptr \in Nat
        BY DEF IInv, TypeOK, Frame
      <4>2. PageOf(op[u].ptr) \in Nat /\ ChunkPages(op[u].base) \in Nat
        BY <4>1, PageFacts, ChunkFacts DEF IInv, BasesApart
      <4>3. CallRange(u) = PageOf(op[u].ptr) .. op[u].page + op[u].n - 1
        BY DEF CallRange
      <4> QED
        BY <3>1, <4>1, <4>2, <4>3 DEF AliasRange
    <3> QED
      BY <1>3, <1>5, <2>2, <3>1, <3>2 DEF Backed
  <2> QED
    BY <1>3, <1>4, <1>5, <2>1, <2>2, <2>3, <2>4 DEF CallProgress
<1> QED
  BY <1>1, <1>2, <1>3, <1>4, <1>5

LEMMA Handover ==
  ASSUME IInv, ChunksApart', NEW t \in Threads, NEW kept, NEW mine, HandsOver(t, kept, mine)
  PROVE  /\ BasesApart' /\ PagesApart' /\ MappedOwned' /\ ChunksOwned'
         /\ \A p \in VirtPages : Used(p)' => Used(p) \/ p \in FreePages(items')
<1>1. /\ \A a \in kept : /\ a \in live /\ a \in live' /\ a.base # mine /\ HasChunk(a.base)'
                         /\ Held(a.ptr, a.base)' = Held(a.ptr, a.base)
      /\ \A a \in live' : a \in kept \/ (a.base = mine /\ HasChunk(mine)' /\ op'[t].pc = "idle")
      /\ \A a, b \in live' \ kept : a = b
  BY OthersKeep DEF HandsOver
<1>2. \A u \in Threads : u # t =>
        /\ op'[u] = op[u] /\ CallRange(u)' = CallRange(u)
        /\ op[u].pc # "idle" => op[u].base # mine /\ HasChunk(op[u].base)'
  BY OthersKeep DEF HandsOver
<1>3. op'[t].pc # "idle" => op'[t].base = mine /\ HasChunk(mine)'
  BY DEF HandsOver
<1>4. BasesApart /\ PagesApart /\ MappedOwned /\ ChunksOwned
  BY DEF IInv
<1>5. BasesApart'
  <2>1. \A a \in live' : HasChunk(a.base)'
    BY <1>1
  <2>2. \A a, b \in live' : a.base = b.base => a = b
    BY <1>1, <1>4 DEF BasesApart
  <2>3. \A u \in Threads : op'[u].pc # "idle" => HasChunk(op[u].base)'
    BY <1>2, <1>3 DEF HasChunk
  <2>4. \A a \in live', u \in Threads : op'[u].pc # "idle" => op'[u].base # a.base
    BY <1>1, <1>2, <1>3, <1>4 DEF BasesApart
  <2>5. \A u, v \in Threads :
          op'[u].pc # "idle" /\ op'[v].pc # "idle" /\ op'[u].base = op'[v].base => u = v
    BY <1>2, <1>3, <1>4 DEF BasesApart
  <2> QED
    BY <2>1, <2>2, <2>3, <2>4, <2>5 DEF BasesApart
<1> DEFINE old == OldPages(t, kept)
           new == NewPages(t, kept)
           free == FreePages(items)
<1>6. /\ \A p \in new \cup abandoned' : p \in old \cup free \cup abandoned
      /\ \A p \in FreePages(items') : p \in old \cup free \/ ~Used(p)
      /\ new \cap (FreePages(items') \cup abandoned') = {}
      /\ FreePages(items') \cap abandoned' = {}
      /\ abandoned \subseteq abandoned'
  BY DEF HandsOver
<1>7. /\ CallRange(t)' \subseteq new
      /\ \A a \in live' \ kept : Held(a.ptr, a.base)' \subseteq new
      /\ \A p \in new : p \in CallRange(t)' \/ \E a \in live' \ kept : p \in Held(a.ptr, a.base)'
  BY DEF NewPages
<1>8. /\ CallRange(t) \subseteq old
      /\ \A a \in live \ kept : Held(a.ptr, a.base) \subseteq old
      /\ \A p \in old : p \in CallRange(t) \/ \E a \in live \ kept : p \in Held(a.ptr, a.base)
  BY DEF OldPages
<1>9. op'[t].pc = "idle" => CallRange(t)' = {}
  BY DEF CallRange
<1>10. ASSUME NEW a \in kept
       PROVE  /\ Held(a.ptr, a.base) \cap (new \cup FreePages(items') \cup abandoned') = {}
              /\ \A p \in Held(a.ptr, a.base) : Used(p)
  <2>1. Held(a.ptr, a.base) \cap (old \cup free \cup abandoned) = {}
    BY <1>1, <1>4, <1>8, <1>10 DEF PagesApart
  <2>2. \A p \in Held(a.ptr, a.base) : Used(p)
    BY <1>1, <1>10 DEF Used
  <2> HIDE DEF old, new, free
  <2> QED
    BY <1>6, <2>1, <2>2
<1>11. ASSUME NEW u \in Threads, u # t
       PROVE  /\ CallRange(u) \cap (new \cup FreePages(items') \cup abandoned') = {}
              /\ \A p \in CallRange(u) : Used(p)
  <2>1. CallRange(u) \cap (old \cup free \cup abandoned) = {}
    BY <1>4, <1>8, <1>11 DEF PagesApart
  <2>2. \A p \in CallRange(u) : Used(p)
    BY DEF Used
  <2> HIDE DEF old, new, free
  <2> QED
    BY <1>6, <2>1, <2>2
<1> HIDE DEF old, new, free
<1>12. PagesApart'
  <2>1. \A a, b \in live' : a # b => Held(a.ptr, a.base)' \cap Held(b.ptr, b.base)' = {}
    BY <1>1, <1>4, <1>7, <1>10 DEF PagesApart
  <2>2. \A a \in live', u \in Threads : Held(a.ptr, a.base)' \cap CallRange(u)' = {}
    <3> SUFFICES ASSUME NEW a \in live', NEW u \in Threads
                 PROVE  Held(a.ptr, a.base)' \cap CallRange(u)' = {}
      OBVIOUS
    <3>1. CASE u = t
      BY <1>1, <1>7, <1>9, <1>10, <3>1
    <3>2. CASE u # t
      BY <1>1, <1>2, <1>4, <1>7, <1>11, <3>2 DEF PagesApart
    <3> QED
      BY <3>1, <3>2
  <2>3. \A u, v \in Threads : u # v => CallRange(u)' \cap CallRange(v)' = {}
    BY <1>2, <1>4, <1>7, <1>11 DEF PagesApart
  <2>4. \A a \in live' : Held(a.ptr, a.base)' \cap (FreePages(items') \cup abandoned') = {}
    BY <1>1, <1>6, <1>7, <1>10
  <2>5. \A u \in Threads : CallRange(u)' \cap (FreePages(items') \cup abandoned') = {}
    BY <1>2, <1>6, <1>7, <1>11
  <2> QED
    BY <1>6, <2>1, <2>2, <2>3, <2>4, <2>5 DEF PagesApart
<1>13. MappedOwned'
  <2> SUFFICES ASSUME NEW p \in VirtPages, pte'[p] \in HeapPages
               PROVE  \/ \E a \in live' : p \in Held(a.ptr, a.base)'
                      \/ \E u \in Threads : p \in CallRange(u)'
                      \/ p \in abandoned'
    BY DEF MappedOwned
  <2>1. CASE p \in old
    <3>1. p \in new \cup abandoned'
      BY <2>1 DEF HandsOver, old, new
    <3> QED
      BY <1>7, <3>1
  <2>2. CASE p \notin old
    <3>1. pte[p] \in HeapPages
      BY <1>8, <2>2 DEF HandsOver
    <3> QED
      BY <1>1, <1>2, <1>4, <1>6, <1>8, <2>2, <3>1 DEF MappedOwned
  <2> QED
    BY <2>1, <2>2
<1>14. ChunksOwned'
  <2> SUFFICES ASSUME NEW c \in heap', ~c.zero
               PROVE  \/ \E a \in live' : a.base = c.base
                      \/ \E u \in Threads : op'[u].pc # "idle" /\ op'[u].base = c.base
    BY DEF ChunksOwned
  <2>1. CASE c.base = mine /\ (op'[t].pc # "idle" \/ live' # kept)
    <3>1. live' # kept => \E a \in live' \ kept : TRUE
      BY <1>1
    <3> QED
      BY <1>1, <1>3, <2>1, <3>1
  <2>2. CASE c \in heap /\ (op[t].pc # "idle" => op[t].base # c.base)
                        /\ \A a \in live \ kept : a.base # c.base
    BY <1>1, <1>2, <1>4, <2>2 DEF ChunksOwned
  <2> QED
    BY <2>1, <2>2 DEF HandsOver
<1>15. ASSUME NEW p \in VirtPages, Used(p)' PROVE Used(p) \/ p \in FreePages(items')
  <2>1. p \in new \cup abandoned' => Used(p)
    <3>1. p \in old \cup free \cup abandoned => Used(p)
      BY <1>8 DEF Used, free
    <3> QED
      BY <1>6, <3>1
  <2>2. pte'[p] # Unmapped => Used(p)
    BY DEF HandsOver, Used
  <2>3. \A a \in live' : p \in Held(a.ptr, a.base)' => Used(p)
    BY <1>1, <1>7, <1>10, <2>1
  <2>4. \A u \in Threads : p \in CallRange(u)' => Used(p)
    BY <1>2, <1>7, <1>11, <2>1
  <2> QED
    BY <1>15, <2>1, <2>2, <2>3, <2>4 DEF Used
<1> QED
  BY <1>5, <1>12, <1>13, <1>14, <1>15

\* The invariant is kept by a step in which t hands over, when what t and the
\* new pointers have is in order and new free pages are unmapped and dedicated.
LEMMA Preserved ==
  ASSUME IInv, TypeOK', ChunksApart',
         NEW t \in Threads, NEW kept, NEW mine, HandsOver(t, kept, mine),
         CallProgress(t)',
         \A a \in live' \ kept : Backed(a.ptr, a.base)',
         Coalesced(items'),
         \A p \in FreePages(items') \ FreePages(items) :
           /\ p \in VirtPages /\ pte'[p] = Unmapped
           /\ \/ Used(p)
              \/ p \in UNION {SpanPages(r) : r \in given'}
              \/ EntryOf(p) \notin ProgramEntries /\ Dedicated(EntryOf(p))',
         given \subseteq given',
         \A e \in 0 .. NumEntries : Dedicated(e) => Dedicated(e)',
         NothingRemappedYet', OneDedicates'
  PROVE  IInv'
<1>1. /\ BasesApart' /\ PagesApart' /\ MappedOwned' /\ ChunksOwned'
      /\ \A p \in VirtPages : Used(p)' => Used(p) \/ p \in FreePages(items')
  BY Handover
<1>2. \A u \in Threads : CallProgress(u)'
  BY OthersKeep
<1>3. \A a \in live' : Backed(a.ptr, a.base)'
  BY OthersKeep
<1>4. FreeUnmapped'
  <2>1. ASSUME NEW p \in FreePages(items') PROVE p \in VirtPages /\ pte'[p] = Unmapped
    <3>1. CASE p \in FreePages(items)
      <4>1. p \in VirtPages /\ pte[p] = Unmapped /\ p \notin CallRange(t)
        BY <3>1 DEF IInv, FreeUnmapped, PagesApart
      <4> QED
        BY <4>1 DEF HandsOver
    <3> QED
      BY <2>1, <3>1
  <2> QED
    BY <2>1 DEF FreeUnmapped
<1>5. UsedWasGiven'
  <2> SUFFICES ASSUME NEW p \in VirtPages, Used(p)'
               PROVE  \/ p \in UNION {SpanPages(r) : r \in given'}
                      \/ EntryOf(p) \notin ProgramEntries /\ Dedicated(EntryOf(p))'
    BY DEF UsedWasGiven
  <2>1. Used(p) \/ p \in FreePages(items')
    BY <1>1
  <2>2. CASE Used(p)
    <3>1. \/ p \in UNION {SpanPages(r) : r \in given}
          \/ EntryOf(p) \notin ProgramEntries /\ Dedicated(EntryOf(p))
      BY <2>2 DEF IInv, UsedWasGiven
    <3>2. EntryOf(p) \in 0 .. NumEntries
      BY EntryFacts, SizesAssumption
    <3> QED
      BY <3>1, <3>2
  <2>3. CASE ~Used(p)
    BY <2>1, <2>3 DEF Used
  <2> QED
    BY <2>2, <2>3
<1> QED
  BY <1>1, <1>2, <1>3, <1>4, <1>5 DEF IInv

\* The same for a step that leaves the virtual pages alone.
LEMMA QuietStep ==
  ASSUME IInv, TypeOK', ChunksApart',
         NEW t \in Threads, NEW kept, NEW mine, HandsOver(t, kept, mine),
         CallProgress(t)',
         \A a \in live' \ kept : Backed(a.ptr, a.base)',
         UNCHANGED <<inDune, virtVars, dedicateVars>>,
         op[t].pc # "dedicate", op'[t].pc # "dedicate",
         ~inDune => /\ \A a \in live' \ kept : a.ptr = a.base
                    /\ op'[t].pc \in {"idle", "sysfree", "sysrealloc"}
                    /\ op'[t].pc = "sysrealloc" => op'[t].ptr = op'[t].base
  PROVE  IInv'
<1>1. \A u \in Threads : u # t => op'[u] = op[u]
  BY DEF HandsOver
<1>2. items' = items /\ given' = given /\ once' = once /\ tables' = tables /\ inDune' = inDune
  BY DEF virtVars, dedicateVars
<1>3. Coalesced(items')
  BY <1>2 DEF IInv, FreeUnmapped
<1>4. \A e \in 0 .. NumEntries : Dedicated(e) => Dedicated(e)'
  BY <1>1, <1>2 DEF Dedicated
<1>5. OneDedicates'
  BY <1>1, <1>2 DEF IInv, OneDedicates
<1>6. NothingRemappedYet'
  <2>1. kept \subseteq live
    BY DEF HandsOver
  <2> QED
    BY <1>1, <1>2, <2>1 DEF IInv, NothingRemappedYet
<1> QED
  BY <1>2, <1>3, <1>4, <1>5, <1>6, Preserved

-----------------------------------------------------------------------------
(* Facts that several actions use. *)

LEMMA Moved ==
  ASSUME TypeOK, NEW t \in Threads, NEW frame \in Frame, Moves(t, frame)
  PROVE  /\ op' \in [Threads -> Frame] /\ op'[t] = frame
         /\ \A u \in Threads : u # t => op'[u] = op[u]
  BY DEF TypeOK, Moves

\* What a thread has and what the pointers of the program have is typed.
LEMMA Typed ==
  ASSUME TypeOK
  PROVE  /\ \A t \in Threads :
              /\ op[t] \in Frame
              /\ op[t].base \in HeapUnits /\ op[t].ptr \in Nat /\ op[t].page \in Nat
              /\ op[t].i \in Nat /\ op[t].n \in Nat
         /\ \A a \in live : a.ptr \in Nat /\ a.base \in HeapUnits
         /\ \A p \in VirtPages : p \in Nat /\ pte[p] \in HeapPages \cup {Unmapped, Invalidated}
         /\ Idle \in Frame
<1>1. Idle \in Frame
  <2>1. 0 \in HeapUnits
    <3>1. EntryPages * PageSize > 0 /\ EntryPages * PageSize \in Nat
      <4>1. EntryPages \in Nat /\ PageSize \in Nat /\ EntryPages > 0 /\ PageSize > 0
        BY SizesAssumption
      <4> QED
        BY <4>1, SMT
    <3> QED
      BY <3>1 DEF HeapUnits
  <2> QED
    BY <2>1 DEF Idle, Frame
<1>2. \A t \in Threads :
        /\ op[t] \in Frame
        /\ op[t].base \in HeapUnits /\ op[t].ptr \in Nat /\ op[t].page \in Nat
        /\ op[t].i \in Nat /\ op[t].n \in Nat
  BY DEF TypeOK, Frame
<1>3. \A a \in live : a.ptr \in Nat /\ a.base \in HeapUnits
  BY DEF TypeOK
<1>4. \A p \in VirtPages : p \in Nat /\ pte[p] \in HeapPages \cup {Unmapped, Invalidated}
  BY EntryFacts DEF TypeOK
<1> QED
  BY <1>1, <1>2, <1>3, <1>4

\* No mark of an entry that is not mapped is a page of the heap.
LEMMA MarksApart ==
  /\ Unmapped \notin HeapPages /\ Invalidated \notin HeapPages
  /\ Unmapped # Invalidated
  BY SizesAssumption DEF Unmapped, Invalidated, HeapPages

\* vremap_resolve finds the chunk behind every pointer that is backed.
LEMMA Resolved ==
  ASSUME TypeOK, ChunksApart, NEW base, HasChunk(base), NEW ptr \in Nat, Backed(ptr, base)
  PROVE  /\ Remapped(ptr) <=> ptr # base
         /\ Resolve(ptr) = base
         /\ ptr # base =>
              /\ OffsetIn(ptr) = OffsetIn(base)
              /\ PageOf(ptr) \in AliasRange(ptr, base)
              /\ \A p \in AliasRange(ptr, base) : p \in VirtPages /\ pte[p] \in HeapPages
<1>1. /\ base \in HeapUnits /\ base \in Nat /\ ChunkPages(base) \in Nat \ {0}
      /\ PageOf(base) \in HeapPages
  BY ChunkFacts, HeapPageOf
<1>2. PageOf(ptr) \in Nat /\ PageOf(base) \in Nat
  BY <1>1, PageFacts
<1>3. CASE ptr = base
  <2>1. PageOf(ptr) \notin VirtPages
    BY <1>1, <1>3, EntryFacts
  <2> QED
    BY <1>3, <2>1 DEF Remapped, Resolve
<1>4. CASE ptr # base
  <2>1. /\ OffsetIn(ptr) = OffsetIn(base)
        /\ \A p \in AliasRange(ptr, base) :
             p \in VirtPages /\ pte[p] = PageOf(base) + p - PageOf(ptr)
    BY <1>4 DEF Backed
  <2>2. PageOf(ptr) \in AliasRange(ptr, base)
    BY <1>1, <1>2 DEF AliasRange
  <2>3. ASSUME NEW p \in AliasRange(ptr, base) PROVE pte[p] \in HeapPages
    <3>1. PICK k \in Nat : k = p - PageOf(ptr) /\ k \in 0 .. ChunkPages(base) - 1
      BY <1>1, <1>2 DEF AliasRange
    <3>2. PageOf(base) + k \in HeapPages
      BY <3>1, BackingPages
    <3>3. PageOf(base) + k = PageOf(base) + p - PageOf(ptr)
      BY <1>2, <3>1 DEF AliasRange
    <3> QED
      BY <2>1, <3>2, <3>3
  <2>4. pte[PageOf(ptr)] = PageOf(base)
    <3>1. PageOf(base) + PageOf(ptr) - PageOf(ptr) = PageOf(base)
      BY <1>2
    <3> QED
      BY <2>1, <2>2, <3>1
  <2>5. AddressOf(PageOf(base)) + OffsetIn(base) = base
    <3>1. PageSize \in Nat /\ base = PageSize * PageOf(base) + OffsetIn(base)
      BY <1>1, PageFacts, SizesAssumption
    <3>2. AddressOf(PageOf(base)) = PageSize * PageOf(base)
      BY <1>2, <3>1, SMT DEF AddressOf
    <3> QED
      BY <3>1, <3>2
  <2>6. Remapped(ptr)
    BY <2>1, <2>2, <2>3 DEF Remapped
  <2>7. Resolve(ptr) = base
    BY <2>1, <2>4, <2>5, <2>6 DEF Resolve
  <2> QED
    BY <1>4, <2>1, <2>2, <2>3, <2>6, <2>7
<1> QED
  BY <1>3, <1>4

\* Whatever is in use is found in a heap that has only grown.
LEMMA ChunksKept ==
  ASSUME ChunksApart, BasesApart, heap \subseteq heap'
  PROVE  /\ \A a \in live : ChunkAt(a.base) \in heap'
         /\ \A u \in Threads : op[u].pc # "idle" => ChunkAt(op[u].base) \in heap'
  BY ChunkFacts DEF BasesApart

\* A step inside a call that goes on with its chunk, or returns a pointer to it.
LEMMA SameOwner ==
  ASSUME IInv, NEW t \in Threads, op[t].pc # "idle",
         NEW mine, mine = op[t].base, NEW kept, kept = live,
         UNCHANGED <<heap, abandoned>>,
         \A u \in Threads : u # t => op'[u] = op[u],
         live \subseteq live',
         \A a \in live' \ live : a.base = op[t].base /\ op'[t].pc = "idle",
         \A a, b \in live' \ live : a = b,
         op'[t].pc # "idle" => op'[t].base = op[t].base,
         op'[t].pc # "idle" \/ live' # live,
         \A p \in VirtPages : pte'[p] # pte[p] => p \in CallRange(t),
         NewPages(t, kept) \subseteq CallRange(t) \cup FreePages(items),
         \A p \in FreePages(items') :
           p \in CallRange(t) \cup FreePages(items) \/ ~Used(p),
         NewPages(t, kept) \cap FreePages(items') = {},
         \A p \in VirtPages : pte'[p] \in HeapPages /\ p \in CallRange(t) =>
           p \in NewPages(t, kept)
  PROVE  HandsOver(t, kept, mine) /\ ChunksApart'
<1>1. ChunksApart /\ BasesApart /\ PagesApart
  BY DEF IInv
<1>2. ChunksApart'
  BY <1>1 DEF ChunksApart
<1>3. HasChunk(mine) /\ HasChunk(mine)'
  BY <1>1 DEF BasesApart, HasChunk
<1>4. OldPages(t, kept) = CallRange(t)
  BY DEF OldPages
<1>5. (NewPages(t, kept) \cup FreePages(items')) \cap abandoned = {}
  <2>1. (CallRange(t) \cup FreePages(items)) \cap abandoned = {}
    BY <1>1 DEF PagesApart
  <2>2. \A p \in abandoned : Used(p)
    BY DEF Used
  <2> QED
    BY <2>1, <2>2
<1>6. /\ \A a \in live : a.base # mine /\ ChunkAt(a.base) \in heap'
      /\ \A u \in Threads : u # t /\ op[u].pc # "idle" =>
           op[u].base # mine /\ ChunkAt(op[u].base) \in heap'
  BY <1>1, ChunksKept DEF BasesApart
<1>7. \A c \in heap' :
        \/ c.base = mine /\ (op'[t].pc # "idle" \/ live' # kept)
        \/ c \in heap /\ (op[t].pc # "idle" => op[t].base # c.base)
                      /\ \A a \in live \ kept : a.base # c.base
  OBVIOUS
<1>8. /\ \A a \in live' \ kept : a.base = mine /\ op'[t].pc = "idle"
      /\ op'[t].pc # "idle" => op'[t].base = mine
  OBVIOUS
<1>9. HandsOver(t, kept, mine)
  BY <1>3, <1>4, <1>5, <1>6, <1>7, <1>8 DEF HandsOver
<1> QED
  BY <1>2, <1>9

\* A thread that has no pages, in a step after which it still has none.
LEMMA NoPages ==
  ASSUME NEW t \in Threads, op'[t].pc \notin {"map", "unmap", "vp_free", "sysrealloc", "invalidate"}
  PROVE  /\ CallRange(t)' = {}
         /\ op'[t].pc # "vp_alloc" => CallProgress(t)'
  BY DEF CallRange, CallProgress

LEMMA IdleFacts ==
  Idle.pc = "idle" /\ Idle.i = 0 /\ Idle.n = 0
  BY DEF Idle

\* A call returns a pointer to a chunk that no other pointer stands for.
LEMMA ReturnedFor ==
  ASSUME TypeOK, NEW t \in Threads, NEW mine \in HeapUnits, \A a \in live : a.base # mine,
         NEW kept, kept = live, NEW ptr \in Nat, Returns(t, {Pointer(ptr, mine)})
  PROVE  /\ op'[t].pc = "idle" /\ op' \in [Threads -> Frame]
         /\ \A u \in Threads : u # t => op'[u] = op[u]
         /\ live \subseteq live' /\ live' \ kept = {Pointer(ptr, mine)} /\ live' # live
         /\ live' \subseteq [ptr : Nat, base : HeapUnits]
         /\ Pointer(ptr, mine).ptr = ptr /\ Pointer(ptr, mine).base = mine
         /\ NewPages(t, kept) = Held(ptr, mine)'
         /\ CallProgress(t)'
<1>1. Pointer(ptr, mine).ptr = ptr /\ Pointer(ptr, mine).base = mine
  BY DEF Pointer
<1>2. Pointer(ptr, mine) \notin live
  BY <1>1
<1>3. Pointer(ptr, mine) \in [ptr : Nat, base : HeapUnits]
  BY DEF Pointer
<1>4. Moves(t, Idle) /\ live' = live \cup {Pointer(ptr, mine)}
  BY DEF Returns
<1>5. /\ op' \in [Threads -> Frame] /\ op'[t].pc = "idle"
      /\ \A u \in Threads : u # t => op'[u] = op[u]
  BY <1>4, Typed, Moved, IdleFacts
<1>6. CallRange(t)' = {} /\ CallProgress(t)'
  BY <1>5, NoPages
<1>7. live' \ kept = {Pointer(ptr, mine)}
  BY <1>2, <1>4
<1>8. NewPages(t, kept) = Held(ptr, mine)'
  BY <1>1, <1>6, <1>7 DEF NewPages
<1> QED
  BY <1>1, <1>2, <1>3, <1>4, <1>5, <1>6, <1>7, <1>8 DEF TypeOK

\* A call returns a pointer to the chunk it has.
LEMMA Returned ==
  ASSUME IInv, NEW t \in Threads, op[t].pc # "idle",
         NEW mine, mine = op[t].base, NEW kept, kept = live, NEW ptr \in Nat,
         Returns(t, {Pointer(ptr, mine)})
  PROVE  /\ op'[t].pc = "idle" /\ op' \in [Threads -> Frame]
         /\ \A u \in Threads : u # t => op'[u] = op[u]
         /\ live \subseteq live' /\ live' \ kept = {Pointer(ptr, mine)} /\ live' # live
         /\ live' \subseteq [ptr : Nat, base : HeapUnits]
         /\ Pointer(ptr, mine).ptr = ptr /\ Pointer(ptr, mine).base = mine
         /\ NewPages(t, kept) = Held(ptr, mine)'
         /\ CallProgress(t)'
<1>1. TypeOK /\ mine \in HeapUnits /\ \A a \in live : a.base # mine
  BY Typed DEF IInv, BasesApart
<1> QED
  BY <1>1, ReturnedFor

LEMMA NoVirtualMemoryStep ==
  ASSUME IInv, NEW t \in Threads, NoVirtualMemory(t)
  PROVE  IInv'
<1>1. /\ op[t].pc = "no_vm"
      /\ UNCHANGED <<inDune, abandoned, heap, items, pte, tables, once, happened, given>>
  BY DEF NoVirtualMemory, virtVars, dedicateVars
<1>2. PICK mine : mine = op[t].base
  OBVIOUS
<1>3. PICK kept : kept = live
  OBVIOUS
<1>4. TypeOK /\ CallRange(t) = {} /\ inDune /\ mine \in Nat
  BY <1>1, <1>2, Typed, HeapPageOf DEF IInv, CallRange, NothingRemappedYet
<1>5. CASE Moves(t, [op[t] EXCEPT !.pc = "once"]) /\ UNCHANGED live
  <2>1. /\ op'[t].pc = "once" /\ op'[t].base = mine /\ op' \in [Threads -> Frame]
        /\ \A u \in Threads : u # t => op'[u] = op[u]
    <3> DEFINE frame == [op[t] EXCEPT !.pc = "once"]
    <3>1. frame \in Frame /\ frame.pc = "once" /\ frame.base = mine
      BY <1>2, <1>4, Typed DEF Frame
    <3> HIDE DEF frame
    <3>2. Moves(t, frame)
      BY <1>5 DEF frame
    <3> QED
      BY <1>4, <3>1, <3>2, Moved
  <2>2. CallRange(t)' = {} /\ CallProgress(t)'
    BY <2>1, NoPages
  <2>3. NewPages(t, kept) = {}
    BY <1>3, <1>5, <2>2 DEF NewPages
  <2>4. HandsOver(t, kept, mine) /\ ChunksApart'
    BY <1>1, <1>2, <1>3, <1>4, <1>5, <2>1, <2>3, SameOwner
  <2>5. TypeOK'
    BY <1>1, <1>4, <1>5, <2>1 DEF TypeOK
  <2> QED
    BY <1>1, <1>3, <1>4, <1>5, <2>1, <2>2, <2>4, <2>5, QuietStep DEF virtVars, dedicateVars
<1>6. CASE Returns(t, {Pointer(mine, mine)})
  <2>1. /\ op'[t].pc = "idle" /\ op' \in [Threads -> Frame]
        /\ \A u \in Threads : u # t => op'[u] = op[u]
        /\ live \subseteq live' /\ live' \ kept = {Pointer(mine, mine)} /\ live' # live
        /\ live' \subseteq [ptr : Nat, base : HeapUnits]
        /\ Pointer(mine, mine).ptr = mine /\ Pointer(mine, mine).base = mine
        /\ NewPages(t, kept) = Held(mine, mine)'
        /\ CallProgress(t)'
    BY <1>1, <1>2, <1>3, <1>4, <1>6, Returned
  <2>2. NewPages(t, kept) = {} /\ Backed(mine, mine)'
    BY <2>1 DEF Held, Backed
  <2>3. HandsOver(t, kept, mine) /\ ChunksApart'
    BY <1>1, <1>2, <1>3, <1>4, <2>1, <2>2, SameOwner
  <2>4. TypeOK'
    BY <1>1, <1>4, <2>1 DEF TypeOK
  <2>5. \A a \in live' \ kept : Backed(a.ptr, a.base)'
    BY <2>1, <2>2
  <2> QED
    BY <1>1, <1>4, <2>1, <2>3, <2>4, <2>5, QuietStep DEF virtVars, dedicateVars
<1> QED
  BY <1>2, <1>5, <1>6 DEF NoVirtualMemory

\* The system allocator places a chunk c beside those it keeps.
LEMMA NewChunk ==
  ASSUME ChunksApart, NEW rest, rest \subseteq heap, NEW zero \in BOOLEAN,
         NEW c \in ChunksFor(zero, rest), heap' = rest \cup {c}
  PROVE  /\ ChunksApart'
         /\ c \in [base : HeapUnits, len : 1 .. MaxLen, zero : BOOLEAN]
         /\ c.base \in HeapUnits /\ c.base \in Nat /\ c.len \in Nat \ {0} /\ c.zero = zero
         /\ HasChunk(c.base)' /\ ChunkAt(c.base)' = c
         /\ \A d \in rest : d.base # c.base
<1>1. /\ c \in [base : HeapUnits, len : 1 .. MaxLen, zero : BOOLEAN]
      /\ c.base \in HeapUnits /\ c.base \in Nat /\ c.len \in Nat \ {0} /\ c.zero = zero
      /\ FitsHeap(c, rest)
  BY SizesAssumption, HeapPageOf DEF ChunksFor, Chunk
<1>2. c.base + c.len - 1 \in HeapUnits /\ c.base \in Units(c)
  BY <1>1 DEF FitsHeap, Units
<1>3. \A d \in rest : Units(c) \cap Units(d) = {} /\ Units(d) \cap Units(c) = {}
  BY <1>1 DEF FitsHeap
<1>4. ASSUME NEW d \in rest PROVE d.base # c.base
  <2>1. d.base \in Nat /\ d.len \in Nat \ {0}
    BY SizesAssumption, HeapPageOf DEF ChunksApart
  <2>2. d.base \in Units(d)
    BY <2>1 DEF Units
  <2> QED
    BY <1>2, <1>3, <2>2
<1>5. ChunksApart'
  <2>1. \A d, e \in heap' : d # e => Units(d) \cap Units(e) = {}
    BY <1>3 DEF ChunksApart
  <2>2. (\A d, e \in heap : d # e => Units(d) \cap Units(e) = {})'
    BY <2>1 DEF Units
  <2> QED
    BY <1>1, <1>2, <2>2 DEF ChunksApart
<1>6. HasChunk(c.base)' /\ ChunkAt(c.base)' = c
  BY <1>4 DEF HasChunk, ChunkAt
<1> QED
  BY <1>1, <1>4, <1>5, <1>6

LEMMA AllocateStep ==
  ASSUME IInv, NEW t \in Threads, Allocate(t)
  PROVE  IInv'
<1>0. PICK zero \in BOOLEAN : \E c \in ChunksFor(zero, heap) :
        /\ heap' = heap \cup {c}
        /\ \/ ~inDune /\ Returns(t, {Pointer(c.base, c.base)})
           \/ inDune /\ zero /\ UNCHANGED <<live, op>>
           \/ inDune /\ ~zero /\ Moves(t, Remap(c.base)) /\ UNCHANGED live
  BY DEF Allocate
<1>1. PICK c \in ChunksFor(zero, heap) :
        /\ heap' = heap \cup {c}
        /\ \/ ~inDune /\ Returns(t, {Pointer(c.base, c.base)})
           \/ inDune /\ zero /\ UNCHANGED <<live, op>>
           \/ inDune /\ ~zero /\ Moves(t, Remap(c.base)) /\ UNCHANGED live
  BY <1>0
<1>2. /\ op[t] = Idle
      /\ UNCHANGED <<inDune, abandoned, items, pte, tables, once, happened, given>>
  BY DEF Allocate, virtVars, dedicateVars
<1>3. PICK kept : kept = live
  OBVIOUS
<1>4. TypeOK /\ ChunksApart /\ BasesApart /\ PagesApart
  BY DEF IInv
<1>5. /\ ChunksApart'
      /\ c \in [base : HeapUnits, len : 1 .. MaxLen, zero : BOOLEAN]
      /\ c.base \in HeapUnits /\ c.base \in Nat /\ c.zero = zero
      /\ HasChunk(c.base)'
      /\ \A d \in heap : d.base # c.base
  BY <1>1, <1>4, NewChunk
<1>6. /\ \A a \in live : a.base # c.base /\ ChunkAt(a.base) \in heap'
      /\ \A u \in Threads : u # t /\ op[u].pc # "idle" =>
           op[u].base # c.base /\ ChunkAt(op[u].base) \in heap'
  <2>1. /\ \A a \in live : HasChunk(a.base)
        /\ \A u \in Threads : op[u].pc # "idle" => HasChunk(op[u].base)
    BY <1>4 DEF BasesApart
  <2> QED
    BY <1>1, <1>4, <1>5, <2>1, ChunksKept DEF HasChunk
<1>7. op[t].pc = "idle" /\ CallRange(t) = {} /\ OldPages(t, kept) = {}
  BY <1>2, <1>3, IdleFacts DEF CallRange, OldPages
<1>8. ASSUME op' \in [Threads -> Frame], \A u \in Threads : u # t => op'[u] = op[u],
             op'[t].pc \in {"idle", "vp_alloc"},
             op'[t].pc = "vp_alloc" => inDune /\ op'[t].base = c.base /\ op'[t].i = 0,
             live' \ kept \subseteq {Pointer(c.base, c.base)}, live \subseteq live',
             live' # live => op'[t].pc = "idle",
             c.zero \/ op'[t].pc # "idle" \/ live' # live
      PROVE  IInv'
  <2>0. Pointer(c.base, c.base).ptr = c.base /\ Pointer(c.base, c.base).base = c.base
    BY DEF Pointer
  <2>1. CallRange(t)' = {} /\ CallProgress(t)'
    BY <1>8 DEF CallRange, CallProgress
  <2>2. \A a \in live' \ kept : a.ptr = c.base /\ a.base = c.base
    BY <1>8, <2>0
  <2>3. NewPages(t, kept) = {}
    BY <2>1, <2>2 DEF NewPages, Held
  <2>4. TypeOK'
    <3>1. Pointer(c.base, c.base) \in [ptr : Nat, base : HeapUnits]
      BY <1>5 DEF Pointer
    <3> QED
      BY <1>1, <1>2, <1>3, <1>4, <1>5, <1>8, <3>1 DEF TypeOK
  <2>5. \A a \in live' \ kept : Backed(a.ptr, a.base)'
    BY <2>2 DEF Backed
  <2>6. \A d \in heap' :
          \/ d.zero
          \/ d.base = c.base /\ (op'[t].pc # "idle" \/ live' # kept)
          \/ d \in heap /\ (op[t].pc # "idle" => op[t].base # d.base)
                        /\ \A a \in live \ kept : a.base # d.base
    BY <1>1, <1>3, <1>7, <1>8
  <2>7. \A a, b \in live' \ kept : a = b
    BY <1>8
  <2>8. HandsOver(t, kept, c.base)
    <3>1. FreePages(items') = FreePages(items) /\ FreePages(items) \cap abandoned = {}
      BY <1>2, <1>4 DEF PagesApart
    <3> QED
      BY <1>2, <1>3, <1>5, <1>6, <1>7, <1>8, <2>2, <2>3, <2>6, <2>7, <3>1 DEF HandsOver
  <2> QED
    BY <1>2, <1>5, <1>7, <1>8, <2>1, <2>2, <2>4, <2>5, <2>8, QuietStep DEF virtVars, dedicateVars
<1>9. CASE ~inDune /\ Returns(t, {Pointer(c.base, c.base)})
  <2>1. Moves(t, Idle) /\ live' = live \cup {Pointer(c.base, c.base)}
    BY <1>9 DEF Returns
  <2>2. Pointer(c.base, c.base) \notin live
    BY <1>6 DEF Pointer
  <2>3. /\ op' \in [Threads -> Frame] /\ op'[t].pc = "idle"
        /\ \A u \in Threads : u # t => op'[u] = op[u]
    BY <1>4, <2>1, Typed, Moved, IdleFacts
  <2> QED
    BY <1>3, <1>8, <2>1, <2>2, <2>3
<1>10. CASE inDune /\ zero /\ UNCHANGED <<live, op>>
  BY <1>3, <1>4, <1>5, <1>7, <1>8, <1>10 DEF TypeOK
<1>11. CASE inDune /\ ~zero /\ Moves(t, Remap(c.base)) /\ UNCHANGED live
  <2>1. /\ Remap(c.base) \in Frame /\ Remap(c.base).pc = "vp_alloc"
        /\ Remap(c.base).base = c.base /\ Remap(c.base).i = 0
    BY <1>4, <1>5, Typed DEF Remap, Idle, Frame
  <2>2. /\ op' \in [Threads -> Frame] /\ op'[t] = Remap(c.base)
        /\ \A u \in Threads : u # t => op'[u] = op[u]
    BY <1>4, <1>11, <2>1, Moved
  <2> QED
    BY <1>3, <1>8, <1>11, <2>1, <2>2
<1> QED
  BY <1>1, <1>9, <1>10, <1>11

\* free and realloc take a pointer from the program, with its pages.
LEMMA TakesOver ==
  ASSUME IInv, NEW t \in Threads, NEW a \in live, op[t].pc = "idle",
         UNCHANGED <<inDune, heap, abandoned, items, pte, tables, once, happened, given>>,
         live' = live \ {a}, op' \in [Threads -> Frame],
         \A u \in Threads : u # t => op'[u] = op[u],
         op'[t].pc \in {"sysfree", "invalidate", "sysrealloc"}, op'[t].base = a.base,
         CallRange(t)' = Held(a.ptr, a.base), CallProgress(t)',
         ~inDune => op'[t].pc # "invalidate"
                    /\ (op'[t].pc = "sysrealloc" => op'[t].ptr = op'[t].base)
  PROVE  IInv'
<1> DEFINE kept == live \ {a}
           mine == a.base
<1>1. TypeOK /\ ChunksApart /\ BasesApart /\ PagesApart
  BY DEF IInv
<1>2. PICK k : k = kept
  OBVIOUS
<1>3. live \ k = {a} /\ live' = k /\ k \subseteq live
  BY <1>2
<1>4. TypeOK'
  BY <1>1 DEF TypeOK
<1>5. ChunksApart'
  BY <1>1 DEF ChunksApart
<1>6. OldPages(t, k) = Held(a.ptr, a.base) /\ NewPages(t, k) = Held(a.ptr, a.base)
  <2>1. CallRange(t) = {}
    BY DEF CallRange
  <2> QED
    BY <1>3, <2>1 DEF OldPages, NewPages
<1>7. HasChunk(mine)'
  BY <1>1 DEF BasesApart, HasChunk
<1>8. /\ \A b \in k : b.base # mine /\ ChunkAt(b.base) \in heap'
      /\ \A u \in Threads : u # t /\ op[u].pc # "idle" =>
           op[u].base # mine /\ ChunkAt(op[u].base) \in heap'
  BY <1>1, <1>3, ChunksKept DEF BasesApart
<1>9. FreePages(items') = FreePages(items)
      /\ Held(a.ptr, a.base) \cap (FreePages(items) \cup abandoned) = {}
      /\ FreePages(items) \cap abandoned = {}
  BY <1>1 DEF PagesApart
<1>10. \A c \in heap' :
        \/ c.zero
        \/ c.base = mine /\ (op'[t].pc # "idle" \/ live' # k)
        \/ c \in heap /\ (op[t].pc # "idle" => op[t].base # c.base)
                      /\ \A b \in live \ k : b.base # c.base
  BY <1>3
<1> HIDE DEF mine
<1>11. HandsOver(t, k, mine)
  BY <1>3, <1>6, <1>7, <1>8, <1>9, <1>10 DEF HandsOver, mine
<1>12. /\ \A b \in live' \ k : Backed(b.ptr, b.base)'
       /\ op'[t].pc # "dedicate"
       /\ ~inDune => /\ \A b \in live' \ k : b.ptr = b.base
                     /\ op'[t].pc \in {"idle", "sysfree", "sysrealloc"}
                     /\ op'[t].pc = "sysrealloc" => op'[t].ptr = op'[t].base
  BY <1>3
<1>13. UNCHANGED <<inDune, virtVars, dedicateVars>> /\ op[t].pc # "dedicate"
  BY DEF virtVars, dedicateVars
<1> QED
  BY <1>4, <1>5, <1>11, <1>12, <1>13, QuietStep

LEMMA FreeStep ==
  ASSUME IInv, NEW t \in Threads, NEW a \in live, Free(t, a)
  PROVE  IInv'
<1>1. /\ op[t] = Idle /\ op[t].pc = "idle" /\ live' = live \ {a}
      /\ UNCHANGED <<inDune, heap, abandoned, items, pte, tables, once, happened, given>>
  BY IdleFacts DEF Free, virtVars, dedicateVars
<1>2. /\ TypeOK /\ ChunksApart /\ HasChunk(a.base) /\ Backed(a.ptr, a.base)
      /\ ~inDune => a.ptr = a.base
  BY DEF IInv, BasesApart, NothingRemappedYet
<1>3. a.ptr \in Nat /\ a.base \in HeapUnits
  BY <1>2, Typed
<1>4. /\ Remapped(a.ptr) <=> a.ptr # a.base
      /\ Resolve(a.ptr) = a.base
      /\ a.ptr # a.base =>
           \A p \in AliasRange(a.ptr, a.base) : p \in VirtPages /\ pte[p] \in HeapPages
  BY <1>2, <1>3, Resolved
<1>5. CASE a.ptr # a.base
  <2> DEFINE frame == Invalidation(a.ptr, a.base, PageOf(a.ptr), ChunkPages(a.base), "sysfree")
  <2>1. PageOf(a.ptr) \in Nat /\ ChunkPages(a.base) \in Nat
    BY <1>2, <1>3, PageFacts, ChunkFacts
  <2>2. /\ frame \in Frame /\ frame.pc = "invalidate" /\ frame.base = a.base
        /\ frame.ptr = a.ptr /\ frame.page = PageOf(a.ptr) /\ frame.i = 0
        /\ frame.n = ChunkPages(a.base) /\ frame.then = "sysfree"
    BY <1>3, <2>1 DEF Invalidation, Idle, Frame
  <2>3. Moves(t, frame) /\ inDune
    BY <1>2, <1>4, <1>5 DEF Free
  <2> HIDE DEF frame
  <2>4. /\ op' \in [Threads -> Frame] /\ op'[t] = frame
        /\ \A u \in Threads : u # t => op'[u] = op[u]
    BY <1>2, <2>2, <2>3, Moved
  <2>5. CallRange(t)' = AliasRange(a.ptr, a.base)
    BY <2>1, <2>2, <2>4 DEF CallRange, AliasRange
  <2>6. CallProgress(t)'
    <3>1. \A p \in CallRange(t)' : p \in VirtPages /\ pte'[p] \in HeapPages /\ ~(p < PageOf(a.ptr))
      BY <1>1, <1>4, <1>5, <2>1, <2>5 DEF AliasRange
    <3>2. \A p \in CallRange(t)' : p \in Int /\ p >= PageOf(a.ptr)
      BY <2>1, <2>5 DEF AliasRange
    <3> QED
      BY <2>1, <2>2, <2>4, <3>1, <3>2 DEF CallProgress
  <2>7. CallRange(t)' = Held(a.ptr, a.base)
    BY <1>5, <2>5 DEF Held
  <2> QED
    BY <1>1, <2>2, <2>3, <2>4, <2>6, <2>7, TakesOver
<1>6. CASE a.ptr = a.base
  <2> DEFINE frame == [Idle EXCEPT !.pc = "sysfree", !.base = a.base]
  <2>1. frame \in Frame /\ frame.pc = "sysfree" /\ frame.base = a.base
    BY <1>3 DEF Idle, Frame
  <2>2. Moves(t, frame)
    BY <1>4, <1>6 DEF Free
  <2> HIDE DEF frame
  <2>3. /\ op' \in [Threads -> Frame] /\ op'[t] = frame
        /\ \A u \in Threads : u # t => op'[u] = op[u]
    BY <1>2, <2>1, <2>2, Moved
  <2>4. CallRange(t)' = Held(a.ptr, a.base) /\ CallProgress(t)'
    BY <1>6, <2>1, <2>3, NoPages DEF Held
  <2> QED
    BY <1>1, <2>1, <2>3, <2>4, TakesOver
<1> QED
  BY <1>5, <1>6

LEMMA ReallocStep ==
  ASSUME IInv, NEW t \in Threads, NEW a \in live, Realloc(t, a)
  PROVE  IInv'
<1>1. /\ op[t] = Idle /\ op[t].pc = "idle" /\ live' = live \ {a}
      /\ UNCHANGED <<inDune, heap, abandoned, items, pte, tables, once, happened, given>>
  BY IdleFacts DEF Realloc, virtVars, dedicateVars
<1>2. /\ TypeOK /\ ChunksApart /\ HasChunk(a.base) /\ Backed(a.ptr, a.base)
      /\ ~inDune => a.ptr = a.base
  BY DEF IInv, BasesApart, NothingRemappedYet
<1>3. a.ptr \in Nat /\ a.base \in HeapUnits
  BY <1>2, Typed
<1>4. Resolve(a.ptr) = a.base
  BY <1>2, <1>3, Resolved
<1> DEFINE frame == [Idle EXCEPT !.pc = "sysrealloc", !.ptr = a.ptr, !.base = a.base]
<1>5. /\ frame \in Frame /\ frame.pc = "sysrealloc" /\ frame.base = a.base
      /\ frame.ptr = a.ptr
  BY <1>3 DEF Idle, Frame
<1>6. Moves(t, frame)
  BY <1>2, <1>4 DEF Realloc
<1> HIDE DEF frame
<1>7. /\ op' \in [Threads -> Frame] /\ op'[t] = frame
      /\ \A u \in Threads : u # t => op'[u] = op[u]
  BY <1>2, <1>5, <1>6, Moved
<1>8. Backed(a.ptr, a.base)' /\ Held(a.ptr, a.base)' = Held(a.ptr, a.base)
  BY <1>1, <1>2, HeapSame DEF Backed
<1>9. CallRange(t)' = Held(a.ptr, a.base)
  BY <1>5, <1>7, <1>8 DEF CallRange, Held, AliasRange, ChunkPages, ChunkAt
<1>10. CallProgress(t)'
  BY <1>5, <1>7, <1>8 DEF CallProgress, Backed, AliasRange, ChunkPages, ChunkAt
<1> QED
  BY <1>1, <1>2, <1>5, <1>7, <1>9, <1>10, TakesOver

LEMMA SysReallocFailsStep ==
  ASSUME IInv, NEW t \in Threads, SysReallocFails(t)
  PROVE  IInv'
<1>1. /\ op[t].pc = "sysrealloc" /\ op[t].pc # "idle"
      /\ UNCHANGED <<inDune, heap, abandoned, items, pte, tables, once, happened, given>>
  BY DEF SysReallocFails, virtVars, dedicateVars
<1>2. PICK mine : mine = op[t].base
  OBVIOUS
<1>3. PICK kept : kept = live
  OBVIOUS
<1>4. PICK ptr : ptr = op[t].ptr
  OBVIOUS
<1>5. /\ TypeOK /\ PagesApart /\ Backed(ptr, mine)
      /\ ~inDune => ptr = mine
  BY <1>1, <1>2, <1>4 DEF IInv, CallProgress, NothingRemappedYet
<1>6. ptr \in Nat /\ CallRange(t) = Held(ptr, mine)
  BY <1>1, <1>2, <1>4, <1>5, Typed DEF CallRange
<1>7. Returns(t, {Pointer(ptr, mine)})
  BY <1>2, <1>4 DEF SysReallocFails
<1>8. /\ op'[t].pc = "idle" /\ op' \in [Threads -> Frame]
      /\ \A u \in Threads : u # t => op'[u] = op[u]
      /\ live \subseteq live' /\ live' \ kept = {Pointer(ptr, mine)} /\ live' # live
      /\ live' \subseteq [ptr : Nat, base : HeapUnits]
      /\ Pointer(ptr, mine).ptr = ptr /\ Pointer(ptr, mine).base = mine
      /\ NewPages(t, kept) = Held(ptr, mine)'
      /\ CallProgress(t)'
  BY <1>1, <1>2, <1>3, <1>6, <1>7, Returned
<1>9. NewPages(t, kept) = CallRange(t) /\ Backed(ptr, mine)'
  BY <1>1, <1>5, <1>6, <1>8, HeapSame DEF Backed
<1>10. HandsOver(t, kept, mine) /\ ChunksApart'
  <2>1. CallRange(t) \cap FreePages(items) = {}
    BY <1>5 DEF PagesApart
  <2> QED
    BY <1>1, <1>2, <1>3, <1>8, <1>9, <2>1, SameOwner
<1>11. TypeOK'
  BY <1>1, <1>5, <1>8 DEF TypeOK
<1>12. \A a \in live' \ kept : Backed(a.ptr, a.base)' /\ (~inDune => a.ptr = a.base)
  BY <1>5, <1>8, <1>9
<1> QED
  BY <1>1, <1>8, <1>10, <1>11, <1>12, QuietStep DEF virtVars, dedicateVars

\* The system allocator takes back the chunk of the call, and the pages of the
\* call are left behind.
LEMMA Released ==
  ASSUME IInv, NEW t \in Threads, op[t].pc \in {"sysfree", "sysrealloc"},
         heap' = {c \in heap : c.base # op[t].base},
         CallRange(t) \subseteq VirtPages,
         abandoned' = abandoned \cup CallRange(t), Moves(t, Idle),
         UNCHANGED <<inDune, live, items, pte, tables, once, happened, given>>
  PROVE  IInv'
<1>1. PICK mine : mine = op[t].base
  OBVIOUS
<1>2. PICK kept : kept = live
  OBVIOUS
<1>3. TypeOK /\ ChunksApart /\ BasesApart /\ PagesApart
  BY DEF IInv
<1>4. /\ op' \in [Threads -> Frame] /\ op'[t].pc = "idle"
      /\ \A u \in Threads : u # t => op'[u] = op[u]
  BY <1>3, Typed, Moved, IdleFacts
<1>5. CallRange(t)' = {} /\ CallProgress(t)'
  BY <1>4, NoPages
<1>6. OldPages(t, kept) = CallRange(t) /\ NewPages(t, kept) = {}
  BY <1>2, <1>5 DEF OldPages, NewPages
<1>7. TypeOK'
  BY <1>3, <1>4 DEF TypeOK
<1>8. ChunksApart'
  BY <1>3 DEF ChunksApart, Units
<1>9. /\ \A a \in live : a.base # mine /\ ChunkAt(a.base) \in heap'
      /\ \A u \in Threads : u # t /\ op[u].pc # "idle" =>
           op[u].base # mine /\ ChunkAt(op[u].base) \in heap'
  <2>1. \A b : HasChunk(b) /\ b # mine => ChunkAt(b) \in heap'
    BY <1>1, <1>3, ChunkFacts
  <2>2. /\ \A a \in live : a.base # mine /\ HasChunk(a.base)
        /\ \A u \in Threads : u # t /\ op[u].pc # "idle" =>
             op[u].base # mine /\ HasChunk(op[u].base)
    BY <1>1, <1>3 DEF BasesApart
  <2> QED
    BY <2>1, <2>2
<1>10. FreePages(items') \cap abandoned' = {} /\ FreePages(items') = FreePages(items)
  BY <1>3 DEF PagesApart
<1>11. \A c \in heap' : c \in heap /\ c.base # mine
  BY <1>1
<1>12. HandsOver(t, kept, mine)
  BY <1>1, <1>2, <1>4, <1>6, <1>9, <1>10, <1>11 DEF HandsOver
<1>13. UNCHANGED <<inDune, virtVars, dedicateVars>> /\ live' \ kept = {}
       /\ op[t].pc # "dedicate"
  BY <1>2 DEF virtVars, dedicateVars
<1> QED
  BY <1>4, <1>5, <1>7, <1>8, <1>12, <1>13, QuietStep

LEMMA SysFreeStep ==
  ASSUME IInv, NEW t \in Threads, SysFree(t)
  PROVE  IInv'
<1>1. CallRange(t) = {}
  BY DEF SysFree, CallRange
<1> QED
  BY <1>1, Released DEF SysFree, virtVars, dedicateVars

LEMMA SysReallocToZeroStep ==
  ASSUME IInv, NEW t \in Threads, SysReallocToZero(t)
  PROVE  IInv'
<1>1. op[t].pc = "sysrealloc" /\ heap' = heap \ {ChunkAt(op[t].base)} /\ Moves(t, Idle)
  BY DEF SysReallocToZero
<1>2. /\ TypeOK /\ ChunksApart /\ HasChunk(op[t].base) /\ Backed(op[t].ptr, op[t].base)
      /\ op[t].ptr \in Nat
  BY <1>1, Typed DEF IInv, BasesApart, CallProgress
<1>3. heap' = {c \in heap : c.base # op[t].base}
  BY <1>1, <1>2, ChunkFacts
<1>4. CallRange(t) = IF WasRemapped(t) THEN Footprint(op[t].ptr, op[t].base) ELSE {}
  BY <1>1, <1>2, FootprintFacts DEF CallRange, Held, WasRemapped, Backed
<1>5. CallRange(t) \subseteq VirtPages
  BY <1>1, <1>2 DEF CallRange, Held, Backed
<1> QED
  BY <1>1, <1>3, <1>4, <1>5, Released DEF SysReallocToZero, virtVars, dedicateVars

-----------------------------------------------------------------------------
(* The free list. *)

\* What vp_free does to the list: it offers the pages as well, or loses them.
LEMMA GivenPages ==
  ASSUME TypeOK, FreeUnmapped, NEW start \in Nat, NEW end \in Nat, start < end,
         (start .. end - 1) \cap FreePages(items) = {}, GivePages(start, end)
  PROVE  /\ items' \in Seq(Span) /\ Coalesced(items')
         /\ FreePages(items) \subseteq FreePages(items')
         /\ FreePages(items') \subseteq FreePages(items) \cup (start .. end - 1)
<1>1. PICK next \in 1 .. Len(items) + 1 :
        /\ NextSpan(items, end, next)
        /\ items' = AddRegion(items, next, start, end) \/ UNCHANGED items
  BY DEF GivePages
<1>2. items \in Seq(Span) /\ Coalesced(items)
  BY DEF TypeOK, FreeUnmapped
<1>3. CASE items' = AddRegion(items, next, start, end)
  <2>1. /\ AddRegion(items, next, start, end) \in Seq(Span)
        /\ Coalesced(AddRegion(items, next, start, end))
        /\ FreePages(AddRegion(items, next, start, end)) = FreePages(items) \cup (start .. end - 1)
    BY <1>1, <1>2, AddRegionFacts
  <2> QED
    BY <1>3, <2>1
<1>4. CASE UNCHANGED items
  BY <1>2, <1>4
<1> QED
  BY <1>1, <1>3, <1>4

\* A call that is past the system allocator happens inside Dune and has a chunk.
LEMMA InCall ==
  ASSUME IInv, NEW t \in Threads, op[t].pc \notin {"idle", "sysfree", "sysrealloc"}
  PROVE  /\ inDune /\ HasChunk(op[t].base)
         /\ op[t].base \in Nat /\ ChunkPages(op[t].base) \in Nat \ {0}
         /\ PageOf(op[t].base) \in HeapPages
  BY ChunkFacts, HeapPageOf DEF IInv, BasesApart, NothingRemappedYet

\* The pages of a call when the heap has not changed.
LEMMA RangeAfter ==
  ASSUME NEW t \in Threads, NEW frame, op'[t] = frame, UNCHANGED heap
  PROVE  /\ frame.pc \in {"map", "unmap", "vp_free"} =>
              CallRange(t)' = frame.page .. frame.page + ChunkPages(frame.base) - 1
         /\ frame.pc = "invalidate" =>
              CallRange(t)' = PageOf(frame.ptr) .. frame.page + frame.n - 1
  BY DEF CallRange, ChunkPages, ChunkAt

\* A step inside a call that goes on with the same chunk.
LEMMA InsideStep ==
  ASSUME IInv, NEW t \in Threads, op[t].pc \notin {"idle", "sysfree", "sysrealloc"},
         NEW frame \in Frame, Moves(t, frame), frame.pc # "idle", frame.base = op[t].base,
         UNCHANGED <<inDune, heap, abandoned, live, given>>,
         items' \in Seq(Span), Coalesced(items'),
         pte' \in [VirtPages -> HeapPages \cup {Unmapped, Invalidated}],
         tables' \in [0 .. NumEntries -> 0 .. 3],
         once' \in {"new", "running", "done"}, happened' \in BOOLEAN,
         \A p \in VirtPages : pte'[p] # pte[p] => p \in CallRange(t),
         CallRange(t)' \subseteq CallRange(t) \cup FreePages(items),
         CallRange(t)' \cap FreePages(items') = {},
         \A p \in VirtPages : pte'[p] \in HeapPages /\ p \in CallRange(t) =>
           p \in CallRange(t)',
         \A p \in FreePages(items') \ FreePages(items) :
           /\ p \in VirtPages /\ pte'[p] = Unmapped /\ ~Used(p)
           /\ EntryOf(p) \notin ProgramEntries /\ Dedicated(EntryOf(p))',
         CallProgress(t)',
         \A e \in 0 .. NumEntries : Dedicated(e) => Dedicated(e)',
         OneDedicates'
  PROVE  IInv'
<1>1. PICK mine : mine = op[t].base
  OBVIOUS
<1>2. PICK kept : kept = live
  OBVIOUS
<1>3. TypeOK /\ NothingRemappedYet /\ inDune
  BY InCall DEF IInv
<1>4. /\ op' \in [Threads -> Frame] /\ op'[t] = frame
      /\ \A u \in Threads : u # t => op'[u] = op[u]
  BY <1>3, Moved
<1>5. NewPages(t, kept) = CallRange(t)'
  BY <1>2 DEF NewPages
<1>6. HandsOver(t, kept, mine) /\ ChunksApart'
  BY <1>1, <1>2, <1>4, <1>5, SameOwner
<1>7. TypeOK'
  BY <1>3, <1>4 DEF TypeOK
<1>8. NothingRemappedYet'
  BY <1>3, <1>4 DEF NothingRemappedYet
<1> QED
  BY <1>2, <1>6, <1>7, <1>8, Preserved

LEMMA VpAllocStep ==
  ASSUME IInv, NEW t \in Threads, VpAlloc(t)
  PROVE  IInv'
<1>1. /\ op[t].pc = "vp_alloc" /\ op[t].pc # "idle"
      /\ UNCHANGED <<inDune, abandoned, heap, live, pte, tables, once, happened, given>>
  BY DEF VpAlloc, allocVars, dedicateVars
<1>2. PICK mine : mine = op[t].base
  OBVIOUS
<1>4. /\ TypeOK /\ PagesApart /\ FreeUnmapped /\ OneDedicates
      /\ op[t] \in Frame /\ op[t].i = 0 /\ CallRange(t) = {}
      /\ inDune /\ ChunkPages(mine) \in Nat \ {0}
  BY <1>1, <1>2, Typed, InCall DEF IInv, CallProgress, CallRange
<1>5. ASSUME NEW frame \in Frame, Moves(t, frame), frame.base = mine,
             frame.pc \in {"map", "no_vm"},
             items' \in Seq(Span), Coalesced(items'), FreePages(items') \subseteq FreePages(items),
             CallRange(t)' \subseteq FreePages(items),
             CallRange(t)' \cap FreePages(items') = {},
             CallProgress(t)'
      PROVE  IInv'
  <2>1. op'[t] = frame /\ \A u \in Threads : u # t => op'[u] = op[u]
    BY <1>4, <1>5, Moved
  <2>2. OneDedicates' /\ \A e \in 0 .. NumEntries : Dedicated(e) => Dedicated(e)'
    BY <1>1, <1>4, <1>5, <2>1 DEF OneDedicates, Dedicated
  <2>3. \A p \in VirtPages : p \notin CallRange(t)
    BY <1>4
  <2> QED
    BY <1>1, <1>2, <1>4, <1>5, <2>2, <2>3, InsideStep DEF TypeOK
<1>6. CASE \E k \in DOMAIN items :
             /\ FirstFit(items, ChunkPages(op[t].base), k)
             /\ items' = TakeFrom(items, k, ChunkPages(op[t].base))
             /\ Moves(t, [op[t] EXCEPT !.pc = "map", !.page = items[k].start])
  <2>1. PICK k \in DOMAIN items :
             /\ FirstFit(items, ChunkPages(mine), k)
             /\ items' = TakeFrom(items, k, ChunkPages(mine))
             /\ Moves(t, [op[t] EXCEPT !.pc = "map", !.page = items[k].start])
    BY <1>2, <1>6
  <2>2. PICK n \in Nat \ {0} : n = ChunkPages(mine)
    BY <1>4
  <2>3. PICK start : start = items[k].start
    OBVIOUS
  <2>4. /\ items' \in Seq(Span) /\ Coalesced(items')
        /\ start \in Nat /\ PageRun(start, n) \subseteq FreePages(items)
        /\ FreePages(items') = FreePages(items) \ PageRun(start, n)
    <3>1. items \in Seq(Span) /\ Coalesced(items) /\ SpanNumPages(items[k]) >= n
      BY <1>4, <2>1, <2>2 DEF TypeOK, FreeUnmapped, FirstFit
    <3>2. /\ TakeFrom(items, k, n) \in Seq(Span)
          /\ Coalesced(TakeFrom(items, k, n))
          /\ items[k].start \in Nat
          /\ PageRun(items[k].start, n) \subseteq FreePages(items)
          /\ FreePages(TakeFrom(items, k, n)) = FreePages(items) \ PageRun(items[k].start, n)
      BY <3>1, TakeFromFacts
    <3> QED
      BY <2>1, <2>2, <2>3, <3>2
  <2> DEFINE f == [op[t] EXCEPT !.pc = "map", !.page = start]
  <2>5. PICK frame : frame = f
    OBVIOUS
  <2>6. /\ frame \in Frame /\ frame.pc = "map" /\ frame.base = mine /\ frame.page = start
        /\ frame.i = 0
    BY <1>2, <1>4, <2>4, <2>5 DEF Frame
  <2>7. Moves(t, frame) /\ op'[t] = frame
    BY <1>4, <2>1, <2>3, <2>5, <2>6, Moved
  <2> HIDE DEF f
  <2>8. CallRange(t)' = start .. start + n - 1
    BY <1>1, <2>2, <2>6, <2>7, RangeAfter
  <2>9. CallProgress(t)'
    <3>1. \A p \in CallRange(t)' : p \in VirtPages /\ pte'[p] = Unmapped
      BY <1>1, <1>4, <2>4, <2>8 DEF FreeUnmapped, PageRun
    <3>2. \A p \in CallRange(t)' : ~(p < frame.page + frame.i)
      BY <2>4, <2>6, <2>8
    <3>3. frame.i < ChunkPages(frame.base)'
      <4>1. ChunkPages(mine)' = n
        BY <1>1, <2>2, HeapSame
      <4> QED
        BY <2>6, <4>1
    <3> QED
      BY <2>6, <2>7, <3>1, <3>2, <3>3 DEF CallProgress
  <2> QED
    BY <1>5, <2>4, <2>6, <2>7, <2>8, <2>9 DEF PageRun
<1>7. CASE Moves(t, [op[t] EXCEPT !.pc = "no_vm"]) /\ UNCHANGED items
  <2> DEFINE f == [op[t] EXCEPT !.pc = "no_vm"]
  <2>1. PICK frame : frame = f
    OBVIOUS
  <2>2. frame \in Frame /\ frame.pc = "no_vm" /\ frame.base = mine
    BY <1>2, <1>4, <2>1 DEF Frame
  <2>3. Moves(t, frame) /\ op'[t] = frame
    BY <1>4, <1>7, <2>1, <2>2, Moved
  <2> HIDE DEF f
  <2>4. CallRange(t)' = {} /\ CallProgress(t)'
    BY <2>2, <2>3, NoPages
  <2> QED
    BY <1>4, <1>5, <1>7, <2>2, <2>3, <2>4 DEF FreeUnmapped, TypeOK
<1> QED
  BY <1>6, <1>7 DEF VpAlloc

LEMMA GiveBackStep ==
  ASSUME IInv, NEW t \in Threads, GiveBack(t)
  PROVE  IInv'
<1>1. /\ op[t].pc = "vp_free" /\ op[t].pc # "idle"
      /\ UNCHANGED <<inDune, abandoned, heap, pte, tables, once, happened, given>>
  BY DEF GiveBack, dedicateVars
<1>2. PICK mine : mine = op[t].base
  OBVIOUS
<1>3. PICK kept : kept = live
  OBVIOUS
<1>4. PICK start, n : start = op[t].page /\ n = ChunkPages(mine)
  OBVIOUS
<1>5. /\ TypeOK /\ PagesApart /\ FreeUnmapped /\ OneDedicates /\ NothingRemappedYet
      /\ inDune /\ start \in Nat /\ n \in Nat \ {0} /\ mine \in Nat
      /\ CallRange(t) = start .. start + n - 1
      /\ \A p \in CallRange(t) : p \in VirtPages /\ pte[p] = Unmapped
  BY <1>1, <1>2, <1>4, Typed, InCall DEF IInv, CallProgress, CallRange
<1>6. /\ items' \in Seq(Span) /\ Coalesced(items')
      /\ FreePages(items') \subseteq FreePages(items) \cup (start .. (start + n) - 1)
  <2>1. start + n \in Nat /\ start < start + n
    BY <1>5
  <2>2. (start .. (start + n) - 1) \cap FreePages(items) = {}
    BY <1>5 DEF PagesApart
  <2>3. GivePages(start, start + n)
    BY <1>2, <1>4 DEF GiveBack
  <2> QED
    BY <1>5, <2>1, <2>2, <2>3, GivenPages
<1>7. Returns(t, {Pointer(mine, mine)})
  BY <1>2 DEF GiveBack
<1>8. /\ op'[t].pc = "idle" /\ op' \in [Threads -> Frame]
      /\ \A u \in Threads : u # t => op'[u] = op[u]
      /\ live \subseteq live' /\ live' \ kept = {Pointer(mine, mine)} /\ live' # live
      /\ live' \subseteq [ptr : Nat, base : HeapUnits]
      /\ Pointer(mine, mine).ptr = mine /\ Pointer(mine, mine).base = mine
      /\ NewPages(t, kept) = Held(mine, mine)'
      /\ CallProgress(t)'
  BY <1>1, <1>2, <1>3, <1>5, <1>7, Returned
<1>9. NewPages(t, kept) = {} /\ Backed(mine, mine)'
  BY <1>8 DEF Held, Backed
<1>10. HandsOver(t, kept, mine) /\ ChunksApart'
  <2>1. \A p \in VirtPages : ~(pte'[p] \in HeapPages /\ p \in CallRange(t))
    BY <1>1, <1>5, MarksApart
  <2> QED
    BY <1>1, <1>2, <1>3, <1>5, <1>6, <1>8, <1>9, <2>1, SameOwner
<1>11. TypeOK'
  BY <1>1, <1>5, <1>6, <1>8 DEF TypeOK
<1>12. \A p \in FreePages(items') \ FreePages(items) :
         p \in VirtPages /\ pte'[p] = Unmapped /\ Used(p)
  BY <1>1, <1>5, <1>6 DEF Used
<1>13. NothingRemappedYet' /\ OneDedicates'
  BY <1>1, <1>5, <1>8 DEF NothingRemappedYet, OneDedicates
<1>14. \A e \in 0 .. NumEntries : Dedicated(e) => Dedicated(e)'
  BY <1>1, <1>8 DEF Dedicated
<1>15. \A a \in live' \ kept : Backed(a.ptr, a.base)'
  BY <1>8, <1>9
<1> QED
  BY <1>1, <1>6, <1>8, <1>10, <1>11, <1>12, <1>13, <1>14, <1>15, Preserved

-----------------------------------------------------------------------------
(* Dedication. *)

LEMMA DedicateOnceStep ==
  ASSUME IInv, NEW t \in Threads, DedicateOnce(t)
  PROVE  IInv'
<1>1. /\ op[t].pc = "once" /\ op[t].pc # "idle"
      /\ UNCHANGED <<inDune, abandoned, heap, live, items, pte, tables, happened, given>>
  BY DEF DedicateOnce, allocVars, virtVars
<1>2. /\ TypeOK /\ FreeUnmapped /\ OneDedicates /\ op[t] \in Frame
      /\ op[t].base \in HeapUnits /\ Idle \in Frame
      /\ \A p : p \notin CallRange(t)
  BY <1>1, Typed DEF IInv, CallRange
<1>3. ASSUME NEW frame \in Frame, Moves(t, frame), frame.base = op[t].base,
             \/ frame.pc = "dedicate" /\ once = "new" /\ once' = "running"
             \/ frame.pc = "vp_alloc" /\ frame.i = 0 /\ UNCHANGED once
      PROVE  IInv'
  <2>1. op'[t] = frame /\ \A u \in Threads : u # t => op'[u] = op[u]
    BY <1>2, <1>3, Moved
  <2>2. CallRange(t)' = {} /\ CallProgress(t)'
    BY <1>3, <2>1 DEF CallRange, CallProgress
  <2>3. OneDedicates' /\ \A e \in 0 .. NumEntries : Dedicated(e) => Dedicated(e)'
    BY <1>1, <1>2, <1>3, <2>1 DEF OneDedicates, Dedicated
  <2>4. once' \in {"new", "running", "done"}
    BY <1>2, <1>3 DEF TypeOK
  <2> QED
    BY <1>1, <1>2, <1>3, <2>2, <2>3, <2>4, InsideStep DEF TypeOK, FreeUnmapped
<1>4. CASE once = "new" /\ once' = "running" /\ Moves(t, [op[t] EXCEPT !.pc = "dedicate"])
  <2>1. PICK frame : frame = [op[t] EXCEPT !.pc = "dedicate"]
    OBVIOUS
  <2>2. frame \in Frame /\ frame.pc = "dedicate" /\ frame.base = op[t].base
    BY <1>2, <2>1 DEF Frame
  <2> QED
    BY <1>3, <1>4, <2>1, <2>2
<1>5. CASE once = "done" /\ Moves(t, Remap(op[t].base)) /\ UNCHANGED once
  <2>1. PICK frame : frame = Remap(op[t].base)
    OBVIOUS
  <2>2. /\ frame \in Frame /\ frame.pc = "vp_alloc" /\ frame.base = op[t].base
        /\ frame.i = 0
    BY <1>2, <2>1 DEF Remap, Idle, Frame
  <2> QED
    BY <1>3, <1>5, <2>1, <2>2
<1> QED
  BY <1>4, <1>5 DEF DedicateOnce

LEMMA DedicateDoneStep ==
  ASSUME IInv, NEW t \in Threads, DedicateDone(t)
  PROVE  IInv'
<1>1. /\ op[t].pc = "dedicate" /\ op[t].pc # "idle" /\ once' = "done" /\ happened' = TRUE
      /\ UNCHANGED <<inDune, abandoned, heap, live, items, pte, tables, given>>
  BY DEF DedicateDone, allocVars, virtVars
<1>2. /\ TypeOK /\ FreeUnmapped /\ OneDedicates
      /\ op[t].base \in HeapUnits /\ Idle \in Frame
      /\ \A p : p \notin CallRange(t)
  BY <1>1, Typed DEF IInv, CallRange
<1>3. PICK frame : frame = Remap(op[t].base)
  OBVIOUS
<1>4. /\ frame \in Frame /\ frame.pc = "vp_alloc" /\ frame.base = op[t].base
      /\ frame.i = 0
  BY <1>2, <1>3 DEF Remap, Idle, Frame
<1>5. Moves(t, frame) /\ op'[t] = frame /\ \A u \in Threads : u # t => op'[u] = op[u]
  BY <1>2, <1>3, <1>4, Moved DEF DedicateDone
<1>6. CallRange(t)' = {} /\ CallProgress(t)'
  BY <1>4, <1>5 DEF CallRange, CallProgress
<1>7. OneDedicates' /\ \A e \in 0 .. NumEntries : Dedicated(e)'
  BY <1>1, <1>2, <1>4, <1>5 DEF OneDedicates, Dedicated
<1> QED
  BY <1>1, <1>2, <1>4, <1>5, <1>6, <1>7, InsideStep DEF TypeOK, FreeUnmapped

\* The pages of a region are not in use before the program dedicates it.
LEMMA RegionUnused ==
  ASSUME RegionsApart, IInv, NEW region \in UserRegions, region \notin given,
         NEW p \in SpanPages(region)
  PROVE  p \in VirtPages /\ ~Used(p)
<1>1. p \in VirtPages /\ EntryOf(p) \in ProgramEntries
  BY UserRegionsAssumption DEF RegionsApart
<1>2. given \subseteq UserRegions
  BY DEF IInv, TypeOK
<1>3. p \notin UNION {SpanPages(r) : r \in given}
  BY <1>2 DEF RegionsApart
<1> QED
  BY <1>1, <1>3 DEF IInv, UsedWasGiven

LEMMA DedicateVmemStep ==
  ASSUME RegionsApart, IInv, NEW t \in Threads, NEW region \in UserRegions,
         DedicateVmem(t, region)
  PROVE  IInv'
<1>1. /\ op[t] = Idle /\ region \notin given /\ given' = given \cup {region}
      /\ GivePages(region.start, region.end)
      /\ UNCHANGED <<inDune, abandoned, heap, live, pte, tables, once, happened, op>>
  BY DEF DedicateVmem, allocVars
<1>2. PICK kept : kept = live
  OBVIOUS
<1>3. TypeOK /\ ChunksApart /\ BasesApart /\ PagesApart /\ FreeUnmapped /\ OneDedicates
      /\ NothingRemappedYet /\ CallProgress(t)
  BY DEF IInv
<1>4. /\ op[t].pc = "idle" /\ CallRange(t) = {} /\ CallRange(t)' = {}
      /\ OldPages(t, kept) = {} /\ NewPages(t, kept) = {}
  BY <1>1, <1>2, IdleFacts DEF CallRange, OldPages, NewPages
<1>5. /\ region.start \in Nat /\ region.end \in Nat /\ region.start < region.end
      /\ SpanPages(region) = region.start .. region.end - 1
  BY UserRegionsAssumption DEF Span, SpanPages
<1>6. \A p \in SpanPages(region) : p \in VirtPages /\ ~Used(p)
  BY <1>1, RegionUnused
<1>7. /\ items' \in Seq(Span) /\ Coalesced(items')
      /\ FreePages(items') \subseteq FreePages(items) \cup SpanPages(region)
  <2>1. SpanPages(region) \cap FreePages(items) = {}
    BY <1>6 DEF Used
  <2> QED
    BY <1>1, <1>3, <1>5, <2>1, GivenPages
<1>8. HandsOver(t, kept, -1)
  <2>1. \A a \in live : a.base # -1 /\ a.base \in Nat
    BY <1>3, Typed, HeapPageOf
  <2>2. \A u \in Threads : op[u].base # -1 /\ op[u].base \in Nat
    BY <1>3, Typed, HeapPageOf
  <2>3. /\ \A a \in live : ChunkAt(a.base) \in heap'
        /\ \A u \in Threads : op[u].pc # "idle" => ChunkAt(op[u].base) \in heap'
    BY <1>1, <1>3, ChunksKept
  <2>4. /\ \A p \in FreePages(items') : p \in FreePages(items) \/ ~Used(p)
        /\ FreePages(items') \cap abandoned' = {}
    BY <1>1, <1>3, <1>6, <1>7 DEF Used, PagesApart
  <2> QED
    BY <1>1, <1>2, <1>4, <2>1, <2>2, <2>3, <2>4 DEF HandsOver
<1>9. TypeOK' /\ ChunksApart' /\ NothingRemappedYet' /\ OneDedicates' /\ CallProgress(t)'
  <2>1. CallProgress(t)'
    BY <1>1, <1>4 DEF CallProgress
  <2>2. TypeOK'
    BY <1>1, <1>3, <1>7 DEF TypeOK
  <2>3. ChunksApart' /\ NothingRemappedYet' /\ OneDedicates'
    BY <1>1, <1>3 DEF ChunksApart, NothingRemappedYet, OneDedicates
  <2> QED
    BY <2>1, <2>2, <2>3
<1>10. \A p \in FreePages(items') \ FreePages(items) :
         p \in VirtPages /\ pte'[p] = Unmapped /\ p \in UNION {SpanPages(r) : r \in given'}
  BY <1>1, <1>6, <1>7 DEF Used
<1>11. \A e \in 0 .. NumEntries : Dedicated(e) => Dedicated(e)'
  BY <1>1 DEF Dedicated
<1>12. live' \ kept = {} /\ given \subseteq given'
  BY <1>1, <1>2
<1> QED
  BY <1>7, <1>8, <1>9, <1>10, <1>11, <1>12, Preserved

LEMMA DedicateEntryStep ==
  ASSUME RegionsApart, IInv, NEW t \in Threads, DedicateEntry(t)
  PROVE  IInv'
<1>1. /\ op[t].pc = "dedicate" /\ op[t].pc # "idle" /\ op[t].i <= NumEntries
      /\ UNCHANGED <<inDune, abandoned, heap, live, pte, tables, once, happened, given>>
  BY DEF DedicateEntry, allocVars, dedicateVars
<1>2. /\ TypeOK /\ FreeUnmapped /\ OneDedicates /\ UsedWasGiven
      /\ op[t] \in Frame /\ op[t].i \in Nat
      /\ \A p : p \notin CallRange(t)
  BY <1>1, Typed DEF IInv, CallRange
<1>3. PICK e : e = op[t].i
  OBVIOUS
<1>4. PICK frame : frame = [op[t] EXCEPT !.i = @ + 1]
  OBVIOUS
<1>5. /\ frame \in Frame /\ frame.pc = "dedicate" /\ frame.base = op[t].base
      /\ frame.i = e + 1
  <2>1. e + 1 \in Nat /\ frame = [op[t] EXCEPT !.i = e + 1]
    BY <1>2, <1>3, <1>4
  <2> QED
    BY <1>1, <1>2, <2>1 DEF Frame
<1>6. Moves(t, frame) /\ op'[t] = frame /\ \A u \in Threads : u # t => op'[u] = op[u]
  BY <1>2, <1>4, <1>5, Moved DEF DedicateEntry
<1>7. CallRange(t)' = {} /\ CallProgress(t)'
  BY <1>5, <1>6, NoPages
<1>8. OneDedicates'
  BY <1>1, <1>2, <1>6 DEF OneDedicates
<1>9. \A d \in 0 .. NumEntries : Dedicated(d) => Dedicated(d)'
  <2>1. \A d \in 0 .. NumEntries : d < op[t].i => d < op'[t].i
    BY <1>2, <1>3, <1>5, <1>6, SizesAssumption
  <2> QED
    BY <1>1, <1>5, <1>6, <2>1 DEF Dedicated
<1>10. /\ items' \in Seq(Span) /\ Coalesced(items')
       /\ \A p \in FreePages(items') \ FreePages(items) :
            /\ p \in VirtPages /\ pte'[p] = Unmapped /\ ~Used(p)
            /\ EntryOf(p) \notin ProgramEntries /\ Dedicated(EntryOf(p))'
  <2>1. CASE EntryInUse(e)
    <3>1. EntryInUse(op[t].i)
      BY <1>3, <2>1
    <3>2. items' = items
      BY <3>1 DEF DedicateEntry
    <3> QED
      BY <1>2, <3>2 DEF TypeOK, FreeUnmapped
  <2>2. CASE ~EntryInUse(e)
    <3>1. e \notin ProgramEntries
      BY <1>2, <2>2 DEF OneDedicates, EntryInUse
    <3>2. e \in 1 .. NumEntries
      BY <1>1, <1>2, <1>3, <3>1, SizesAssumption
    <3>3. PICK start \in Nat, end \in Nat : start = e * EntryPages /\ end = (e + 1) * EntryPages
      BY <3>2, EntryPagesFacts
    <3>4. start < end /\ \A p \in start .. end - 1 : p \in VirtPages /\ EntryOf(p) = e
      BY <3>2, <3>3, EntryPagesFacts
    <3>5. ~Dedicated(e)
      <4>1. once = "running"
        BY <1>1, <1>2 DEF OneDedicates
      <4>2. \A u \in Threads : op[u].pc = "dedicate" => u = t
        BY <1>1, <1>2 DEF OneDedicates
      <4>3. ~(e < op[t].i)
        BY <1>2, <1>3
      <4> QED
        BY <4>1, <4>2, <4>3 DEF Dedicated
    <3>6. \A p \in start .. end - 1 : ~Used(p)
      <4>1. given \subseteq UserRegions
        BY <1>2 DEF TypeOK
      <4> QED
        BY <1>2, <3>1, <3>4, <3>5, <4>1 DEF UsedWasGiven, RegionsApart
    <3>7. (start .. end - 1) \cap FreePages(items) = {}
      BY <3>6 DEF Used
    <3>8. GivePages(start, end)
      BY <1>3, <2>2, <3>3 DEF DedicateEntry
    <3>9. /\ items' \in Seq(Span) /\ Coalesced(items')
          /\ FreePages(items') \subseteq FreePages(items) \cup (start .. end - 1)
      BY <1>2, <3>4, <3>7, <3>8, GivenPages
    <3>10. Dedicated(e)'
      <4>1. e < op'[t].i
        BY <1>2, <1>3, <1>5, <1>6
      <4> QED
        BY <1>5, <1>6, <4>1 DEF Dedicated
    <3>11. ASSUME NEW p \in start .. end - 1
           PROVE  /\ p \in VirtPages /\ pte'[p] = Unmapped /\ ~Used(p)
                  /\ EntryOf(p) = e
      BY <1>1, <3>4, <3>6 DEF Used
    <3> QED
      BY <3>1, <3>9, <3>10, <3>11
  <2> QED
    BY <2>1, <2>2
<1> QED
  BY <1>1, <1>2, <1>5, <1>6, <1>7, <1>8, <1>9, <1>10, InsideStep DEF TypeOK

-----------------------------------------------------------------------------
(* Mapping and unmapping. *)

\* What holds of the pages of a call whose entries pte' differs from pte in one.
LEMMA OneEntry ==
  ASSUME TypeOK, NEW q \in VirtPages, NEW v \in HeapPages \cup {Unmapped, Invalidated},
         pte' = [pte EXCEPT ![q] = v]
  PROVE  /\ pte' \in [VirtPages -> HeapPages \cup {Unmapped, Invalidated}]
         /\ pte'[q] = v
         /\ \A p \in VirtPages : p # q => pte'[p] = pte[p]
  BY DEF TypeOK

LEMMA UnmapPageStep ==
  ASSUME IInv, NEW t \in Threads, UnmapPage(t)
  PROVE  IInv'
<1>1. /\ op[t].pc = "unmap" /\ op[t].pc # "idle"
      /\ UNCHANGED <<inDune, abandoned, heap, live, items, tables, once, happened, given>>
  BY DEF UnmapPage, allocVars, dedicateVars
<1>2. PICK mine, start, i, m, n :
        /\ mine = op[t].base /\ start = op[t].page /\ i = op[t].i /\ m = op[t].n
        /\ n = ChunkPages(mine)
  OBVIOUS
<1>3. /\ TypeOK /\ PagesApart /\ FreeUnmapped /\ OneDedicates
      /\ op[t] \in Frame /\ mine \in Nat
      /\ start \in Nat /\ i \in Nat /\ m \in Nat /\ n \in Nat \ {0}
      /\ CallRange(t) = start .. start + n - 1
  BY <1>1, <1>2, Typed, InCall DEF IInv, CallRange
<1>4. /\ i <= m /\ m < n
      /\ \A p \in CallRange(t) :
           p \in VirtPages
           /\ pte[p] = IF start + i <= p /\ p < start + m THEN PageOf(mine) + p - start
                       ELSE Unmapped
  BY <1>1, <1>2 DEF IInv, CallProgress
<1>5. ASSUME NEW frame \in Frame, Moves(t, frame), frame.base = mine, frame.page = start,
             frame.pc \in {"unmap", "vp_free"},
             pte' \in [VirtPages -> HeapPages \cup {Unmapped, Invalidated}],
             \A p \in VirtPages : pte'[p] # pte[p] => p \in CallRange(t),
             op'[t] = frame => CallProgress(t)'
      PROVE  IInv'
  <2>1. op'[t] = frame /\ \A u \in Threads : u # t => op'[u] = op[u]
    BY <1>3, <1>5, Moved
  <2>2. CallRange(t)' = CallRange(t)
    BY <1>1, <1>2, <1>3, <1>5, <2>1, RangeAfter
  <2>3. CallRange(t) \cap FreePages(items) = {} /\ items' \in Seq(Span) /\ Coalesced(items')
    BY <1>1, <1>3 DEF PagesApart, TypeOK, FreeUnmapped
  <2>4. OneDedicates' /\ \A e \in 0 .. NumEntries : Dedicated(e) => Dedicated(e)'
    BY <1>1, <1>3, <1>5, <2>1 DEF OneDedicates, Dedicated
  <2> QED
    BY <1>1, <1>2, <1>3, <1>5, <2>1, <2>2, <2>3, <2>4, InsideStep DEF TypeOK
<1>6. CASE i < m
  <2>1. pte' = [pte EXCEPT ![start + i] = Unmapped] /\ Moves(t, [op[t] EXCEPT !.i = @ + 1])
    BY <1>2, <1>6 DEF UnmapPage
  <2>2. start + i \in CallRange(t) /\ start + i \in VirtPages
    BY <1>3, <1>4, <1>6
  <2>3. PICK frame : frame = [op[t] EXCEPT !.i = @ + 1]
    OBVIOUS
  <2>4. /\ frame \in Frame /\ frame.pc = "unmap" /\ frame.base = mine /\ frame.page = start
        /\ frame.i = i + 1 /\ frame.n = m
    <3>1. i + 1 \in Nat /\ frame = [op[t] EXCEPT !.i = i + 1]
      BY <1>2, <1>3, <2>3
    <3> QED
      BY <1>1, <1>2, <1>3, <3>1 DEF Frame
  <2>5. /\ pte' \in [VirtPages -> HeapPages \cup {Unmapped, Invalidated}]
        /\ pte'[start + i] = Unmapped
        /\ \A p \in VirtPages : p # start + i => pte'[p] = pte[p]
    BY <1>3, <2>1, <2>2, OneEntry
  <2>6. ASSUME op'[t] = frame PROVE CallProgress(t)'
    <3>1. CallRange(t)' = CallRange(t)
      BY <1>1, <1>2, <1>3, <2>4, <2>6, RangeAfter
    <3>2. ChunkPages(op[t].base)' = n
      BY <1>1, <1>2, <2>4, <2>6 DEF ChunkPages, ChunkAt
    <3>3. ASSUME NEW p \in CallRange(t)
          PROVE  /\ p \in VirtPages
                 /\ pte'[p] = IF start + (i + 1) <= p /\ p < start + m
                              THEN PageOf(mine) + p - start ELSE Unmapped
      <4>1. p \in Int
        BY <1>3, <3>3
      <4> QED
        BY <1>3, <1>4, <2>5, <3>3, <4>1
    <3>4. i + 1 <= m
      BY <1>3, <1>6
    <3> QED
      BY <1>4, <2>4, <2>6, <3>1, <3>2, <3>3, <3>4 DEF CallProgress
  <2> QED
    BY <1>5, <2>1, <2>2, <2>3, <2>4, <2>5, <2>6
<1>7. CASE ~(i < m)
  <2>1. pte' = pte /\ Moves(t, [op[t] EXCEPT !.pc = "vp_free", !.i = 0, !.n = 0])
    BY <1>2, <1>7 DEF UnmapPage
  <2>2. PICK frame : frame = [op[t] EXCEPT !.pc = "vp_free", !.i = 0, !.n = 0]
    OBVIOUS
  <2>3. /\ frame \in Frame /\ frame.pc = "vp_free" /\ frame.base = mine /\ frame.page = start
    BY <1>2, <1>3, <2>2 DEF Frame
  <2>4. ASSUME op'[t] = frame PROVE CallProgress(t)'
    <3>1. CallRange(t)' = CallRange(t)
      BY <1>1, <1>2, <1>3, <2>3, <2>4, RangeAfter
    <3>2. \A p \in CallRange(t) : p \in VirtPages /\ pte'[p] = Unmapped
      BY <1>3, <1>4, <1>7, <2>1
    <3> QED
      BY <2>3, <2>4, <3>1, <3>2 DEF CallProgress
  <2> QED
    BY <1>3, <1>5, <2>1, <2>2, <2>3, <2>4 DEF TypeOK
<1> QED
  BY <1>6, <1>7

LEMMA MapPageFailsStep ==
  ASSUME IInv, NEW t \in Threads, MapPageFails(t)
  PROVE  IInv'
<1>1. /\ op[t].pc = "map" /\ op[t].pc # "idle"
      /\ UNCHANGED <<inDune, abandoned, heap, live, items, pte, once, happened, given>>
  BY DEF MapPageFails, allocVars, dedicateVars
<1>2. PICK mine, start, i, n :
        /\ mine = op[t].base /\ start = op[t].page /\ i = op[t].i
        /\ n = ChunkPages(mine)
  OBVIOUS
<1>3. /\ TypeOK /\ PagesApart /\ FreeUnmapped /\ OneDedicates
      /\ op[t] \in Frame /\ mine \in Nat
      /\ start \in Nat /\ i \in Nat /\ n \in Nat \ {0}
      /\ CallRange(t) = start .. start + n - 1
  BY <1>1, <1>2, Typed, InCall DEF IInv, CallRange
<1>4. /\ i < n
      /\ \A p \in CallRange(t) :
           p \in VirtPages
           /\ pte[p] = IF p < start + i THEN PageOf(mine) + p - start ELSE Unmapped
  BY <1>1, <1>2 DEF IInv, CallProgress
<1>5. PICK e : e = EntryOf(start + i)
  OBVIOUS
<1>6. e \in 0 .. NumEntries
  <2>1. start + i \in VirtPages
    BY <1>3, <1>4
  <2> QED
    BY <1>5, <2>1, EntryFacts, SizesAssumption
<1>7. PICK made \in tables[e] .. 2 : tables' = [tables EXCEPT ![e] = made]
  BY <1>2, <1>5 DEF MapPageFails
<1>8. /\ tables' \in [0 .. NumEntries -> 0 .. 3]
      /\ \A d \in ProgramEntries : tables'[d] = 3
  <2>1. tables[e] \in 0 .. 3 /\ made \in 0 .. 3
    BY <1>3, <1>6, <1>7 DEF TypeOK
  <2>2. tables[e] # 3
    BY <1>7, <2>1
  <2>3. \A d \in ProgramEntries : d \in 0 .. NumEntries /\ tables[d] = 3
    BY <1>3, SizesAssumption DEF OneDedicates
  <2> QED
    BY <1>3, <1>6, <1>7, <2>1, <2>2, <2>3 DEF TypeOK
<1>9. PICK frame : frame = [op[t] EXCEPT !.pc = "unmap", !.n = op[t].i, !.i = 0]
  OBVIOUS
<1>10. /\ frame \in Frame /\ frame.pc = "unmap" /\ frame.base = mine /\ frame.page = start
       /\ frame.i = 0 /\ frame.n = i
  BY <1>2, <1>3, <1>9 DEF Frame
<1>11. Moves(t, frame) /\ op'[t] = frame /\ \A u \in Threads : u # t => op'[u] = op[u]
  BY <1>3, <1>9, <1>10, Moved DEF MapPageFails
<1>12. CallRange(t)' = CallRange(t)
  BY <1>1, <1>2, <1>3, <1>10, <1>11, RangeAfter
<1>13. CallProgress(t)'
  <2>1. ChunkPages(op[t].base)' = n
    BY <1>1, <1>2, <1>10, <1>11 DEF ChunkPages, ChunkAt
  <2>2. \A p \in CallRange(t) :
          p \in VirtPages
          /\ pte'[p] = IF start + 0 <= p /\ p < start + i THEN PageOf(mine) + p - start
                       ELSE Unmapped
    BY <1>1, <1>3, <1>4
  <2>3. 0 <= i
    BY <1>3
  <2> QED
    BY <1>4, <1>10, <1>11, <1>12, <2>1, <2>2, <2>3 DEF CallProgress
<1>14. CallRange(t) \cap FreePages(items) = {} /\ items' \in Seq(Span) /\ Coalesced(items')
  BY <1>1, <1>3 DEF PagesApart, TypeOK, FreeUnmapped
<1>15. OneDedicates' /\ \A d \in 0 .. NumEntries : Dedicated(d) => Dedicated(d)'
  BY <1>1, <1>3, <1>8, <1>10, <1>11 DEF OneDedicates, Dedicated
<1> QED
  BY <1>1, <1>2, <1>3, <1>8, <1>10, <1>11, <1>12, <1>13, <1>14, <1>15, InsideStep DEF TypeOK

LEMMA MapPageStep ==
  ASSUME IInv, NEW t \in Threads, MapPage(t)
  PROVE  IInv'
<1>1. /\ op[t].pc = "map" /\ op[t].pc # "idle"
      /\ UNCHANGED <<inDune, abandoned, heap, items, once, happened, given>>
  BY DEF MapPage, dedicateVars
<1>2. PICK mine, start, i, n :
        /\ mine = op[t].base /\ start = op[t].page /\ i = op[t].i
        /\ n = ChunkPages(mine)
  OBVIOUS
<1>3. /\ TypeOK /\ ChunksApart /\ PagesApart /\ FreeUnmapped /\ OneDedicates /\ NothingRemappedYet
      /\ op[t] \in Frame /\ mine \in Nat /\ HasChunk(mine) /\ PageOf(mine) \in HeapPages
      /\ start \in Nat /\ i \in Nat /\ n \in Nat \ {0} /\ inDune
      /\ CallRange(t) = start .. start + n - 1
  BY <1>1, <1>2, Typed, InCall DEF IInv, CallRange
<1>4. /\ i < n
      /\ \A p \in CallRange(t) :
           p \in VirtPages
           /\ pte[p] = IF p < start + i THEN PageOf(mine) + p - start ELSE Unmapped
  BY <1>1, <1>2 DEF IInv, CallProgress
<1>5. start + i \in CallRange(t) /\ start + i \in VirtPages /\ PageOf(mine) \in Nat
  <2>1. start + i \in CallRange(t)
    BY <1>3, <1>4
  <2>2. PageOf(mine) \in Nat
    BY <1>3, PageFacts
  <2> QED
    BY <1>4, <2>1, <2>2
<1>6. /\ pte' = [pte EXCEPT ![start + i] = PageOf(mine) + i]
      /\ tables' = [tables EXCEPT ![EntryOf(start + i)] = 3]
      /\ IF i + 1 < n
         THEN Moves(t, [op[t] EXCEPT !.i = @ + 1]) /\ UNCHANGED live
         ELSE Returns(t, {Pointer(AddressOf(start) + OffsetIn(mine), mine)})
  BY <1>2 DEF MapPage, BackingPage
<1>7. /\ pte' \in [VirtPages -> HeapPages \cup {Unmapped, Invalidated}]
      /\ pte'[start + i] = PageOf(mine) + i
      /\ \A p \in VirtPages : p # start + i => pte'[p] = pte[p]
  <2>1. i \in 0 .. ChunkPages(mine) - 1
    BY <1>2, <1>3, <1>4
  <2>2. PageOf(mine) + i \in HeapPages
    BY <1>3, <2>1, BackingPages
  <2>3. PICK q, v : q = start + i /\ v = PageOf(mine) + i
    OBVIOUS
  <2> QED
    BY <1>3, <1>5, <1>6, <2>2, <2>3, OneEntry
<1>8. /\ tables' \in [0 .. NumEntries -> 0 .. 3]
      /\ \A d \in ProgramEntries : tables'[d] = 3
  <2>1. PICK e : e = EntryOf(start + i) /\ e \in 0 .. NumEntries
    BY <1>5, EntryFacts, SizesAssumption
  <2>2. tables' = [tables EXCEPT ![e] = 3]
    BY <1>6, <2>1
  <2>3. \A d \in ProgramEntries : d \in 0 .. NumEntries /\ tables[d] = 3
    BY <1>3, SizesAssumption DEF OneDedicates
  <2> QED
    BY <1>3, <2>1, <2>2, <2>3 DEF TypeOK
<1>9. ASSUME NEW p \in CallRange(t)
      PROVE  /\ p \in VirtPages
             /\ pte'[p] = IF p < start + (i + 1) THEN PageOf(mine) + p - start ELSE Unmapped
  <2>1. p \in Int /\ p \in VirtPages
    BY <1>3, <1>4, <1>9
  <2>2. PICK b \in Nat : b = PageOf(mine)
    BY <1>5
  <2>3. CASE p = start + i
    <3>1. p < start + (i + 1) /\ b + i = b + p - start
      BY <1>3, <2>2, <2>3
    <3>2. pte'[p] = b + i
      BY ONLY <1>7, <2>2, <2>3
    <3> QED
      BY ONLY <2>1, <2>2, <3>1, <3>2
  <2>4. CASE p # start + i
    <3>1. p < start + (i + 1) <=> p < start + i
      BY <1>3, <2>1, <2>4
    <3>2. pte'[p] = pte[p]
      BY ONLY <1>7, <2>1, <2>4
    <3>3. pte[p] = IF p < start + i THEN PageOf(mine) + p - start ELSE Unmapped
      BY ONLY <1>4, <1>9
    <3> QED
      BY ONLY <2>1, <3>1, <3>2, <3>3
  <2> QED
    BY ONLY <2>3, <2>4
<1>10. /\ CallRange(t) \cap FreePages(items) = {}
       /\ \A p \in VirtPages : pte'[p] # pte[p] => p \in CallRange(t)
       /\ items' \in Seq(Span) /\ Coalesced(items')
  <2>1. CallRange(t) \cap FreePages(items) = {}
    BY <1>3 DEF PagesApart
  <2>2. \A p \in VirtPages : pte'[p] # pte[p] => p \in CallRange(t)
    BY ONLY <1>5, <1>7
  <2>3. items' \in Seq(Span)
    BY <1>1, <1>3 DEF TypeOK
  <2>4. Coalesced(items')
    BY <1>1, <1>3 DEF FreeUnmapped
  <2> QED
    BY ONLY <2>1, <2>2, <2>3, <2>4
<1>11. CASE i + 1 < n
  <2>1. PICK frame : frame = [op[t] EXCEPT !.i = @ + 1]
    OBVIOUS
  <2>2. /\ frame \in Frame /\ frame.pc = "map" /\ frame.base = mine /\ frame.page = start
        /\ frame.i = i + 1
    <3>1. i + 1 \in Nat /\ frame = [op[t] EXCEPT !.i = i + 1]
      BY <1>2, <1>3, <2>1
    <3> QED
      BY <1>1, <1>2, <1>3, <3>1 DEF Frame
  <2>3. Moves(t, frame) /\ op'[t] = frame /\ \A u \in Threads : u # t => op'[u] = op[u]
    BY <1>3, <1>6, <1>11, <2>1, <2>2, Moved
  <2>4. CallRange(t)' = CallRange(t)
    BY <1>1, <1>2, <1>3, <2>2, <2>3, RangeAfter
  <2>5. CallProgress(t)'
    <3>1. ChunkPages(op[t].base)' = n
      BY <1>1, <1>2, <2>2, <2>3 DEF ChunkPages, ChunkAt
    <3> QED
      BY <1>9, <1>11, <2>2, <2>3, <2>4, <3>1 DEF CallProgress
  <2>6. OneDedicates' /\ \A d \in 0 .. NumEntries : Dedicated(d) => Dedicated(d)'
    BY <1>1, <1>3, <1>8, <2>2, <2>3 DEF OneDedicates, Dedicated
  <2> QED
    BY <1>1, <1>2, <1>3, <1>6, <1>7, <1>8, <1>10, <1>11, <2>2, <2>3, <2>4, <2>5, <2>6,
       InsideStep DEF TypeOK
<1>12. CASE ~(i + 1 < n)
  <2>1. PICK kept, ptr : kept = live /\ ptr = AddressOf(start) + OffsetIn(mine)
    OBVIOUS
  <2>2. /\ ptr \in Nat /\ PageOf(ptr) = start /\ OffsetIn(ptr) = OffsetIn(mine)
    BY <1>3, <2>1, PageFacts, AddressFacts
  <2>3. ptr # mine
    <3>1. start \in VirtPages
      BY <1>3, <1>4
    <3> QED
      BY <1>3, <2>2, <3>1, EntryFacts
  <2>4. Returns(t, {Pointer(ptr, mine)})
    BY <1>6, <1>12, <2>1
  <2>5. /\ op'[t].pc = "idle" /\ op' \in [Threads -> Frame]
        /\ \A u \in Threads : u # t => op'[u] = op[u]
        /\ live \subseteq live' /\ live' \ kept = {Pointer(ptr, mine)} /\ live' # live
        /\ live' \subseteq [ptr : Nat, base : HeapUnits]
        /\ Pointer(ptr, mine).ptr = ptr /\ Pointer(ptr, mine).base = mine
        /\ NewPages(t, kept) = Held(ptr, mine)'
        /\ CallProgress(t)'
    BY <1>1, <1>2, <2>1, <2>2, <2>4, Returned
  <2>6. AliasRange(ptr, mine)' = CallRange(t) /\ NewPages(t, kept) = CallRange(t)
    <3>1. AliasRange(ptr, mine)' = AliasRange(ptr, mine) /\ Held(ptr, mine)' = Held(ptr, mine)
      BY <1>1, HeapSame
    <3>2. AliasRange(ptr, mine) = CallRange(t)
      BY <1>2, <1>3, <2>2 DEF AliasRange
    <3> QED
      BY <2>3, <2>5, <3>1, <3>2 DEF Held
  <2>7. Backed(ptr, mine)'
    <3>1. ASSUME NEW p \in CallRange(t)
          PROVE  p \in VirtPages /\ pte'[p] = PageOf(mine) + p - PageOf(ptr)
      <4>1. p \in Int /\ p < start + (i + 1)
        BY <1>3, <1>4, <1>12, <3>1
      <4> QED
        BY <1>9, <2>2, <3>1, <4>1
    <3> QED
      BY <2>2, <2>6, <3>1 DEF Backed
  <2>8. HandsOver(t, kept, mine) /\ ChunksApart'
    BY <1>1, <1>2, <1>10, <2>1, <2>5, <2>6, SameOwner
  <2>9. TypeOK'
    BY <1>1, <1>3, <1>7, <1>8, <2>5 DEF TypeOK
  <2>10. NothingRemappedYet' /\ OneDedicates'
    BY <1>1, <1>3, <1>8, <2>5 DEF NothingRemappedYet, OneDedicates
  <2>11. \A d \in 0 .. NumEntries : Dedicated(d) => Dedicated(d)'
    BY <1>1, <2>5 DEF Dedicated
  <2>12. \A a \in live' \ kept : Backed(a.ptr, a.base)'
    BY <2>5, <2>7
  <2> QED
    BY <1>1, <1>10, <2>5, <2>8, <2>9, <2>10, <2>11, <2>12, Preserved
<1> QED
  BY <1>11, <1>12

LEMMA InvalidateStep ==
  ASSUME IInv, NEW t \in Threads, Invalidate(t)
  PROVE  IInv'
<1>1. /\ op[t].pc = "invalidate" /\ op[t].pc # "idle"
      /\ UNCHANGED <<inDune, abandoned, heap, items, tables, once, happened, given>>
  BY DEF Invalidate, dedicateVars
<1>2. PICK mine, ptr, start, i, n, then :
        /\ mine = op[t].base /\ ptr = op[t].ptr /\ start = op[t].page
        /\ i = op[t].i /\ n = op[t].n /\ then = op[t].then
  OBVIOUS
<1>3. /\ TypeOK /\ ChunksApart /\ PagesApart /\ FreeUnmapped /\ OneDedicates /\ NothingRemappedYet
      /\ op[t] \in Frame /\ mine \in HeapUnits /\ ptr \in Nat /\ PageOf(ptr) \in Nat
      /\ start \in Nat /\ i \in Nat /\ n \in Nat /\ inDune
      /\ CallRange(t) = PageOf(ptr) .. start + n - 1
  BY <1>1, <1>2, Typed, InCall, PageFacts DEF IInv, CallRange
<1>4. /\ i <= n /\ PageOf(ptr) <= start
      /\ \A p \in CallRange(t) :
           /\ p \in VirtPages
           /\ start <= p => IF p < start + i THEN pte[p] = Invalidated ELSE pte[p] \in HeapPages
      /\ then = "return" =>
           ptr # mine /\ Backed(ptr, mine) /\ start = PageOf(ptr) + ChunkPages(mine)
      /\ then # "return" => start = PageOf(ptr)
  BY <1>1, <1>2 DEF IInv, CallProgress
<1>5. CallRange(t) \cap FreePages(items) = {} /\ items' \in Seq(Span) /\ Coalesced(items')
  BY <1>1, <1>3 DEF PagesApart, TypeOK, FreeUnmapped
<1>6. CASE i < n
  <2>1. /\ pte' = [pte EXCEPT ![start + i] = Invalidated]
        /\ Moves(t, [op[t] EXCEPT !.i = @ + 1]) /\ UNCHANGED live
    BY <1>2, <1>6 DEF Invalidate
  <2>2. start + i \in CallRange(t) /\ start + i \in VirtPages
    BY <1>3, <1>4, <1>6
  <2>3. PICK frame : frame = [op[t] EXCEPT !.i = @ + 1]
    OBVIOUS
  <2>4. /\ frame \in Frame /\ frame.pc = "invalidate" /\ frame.base = mine /\ frame.ptr = ptr
        /\ frame.page = start /\ frame.i = i + 1 /\ frame.n = n /\ frame.then = then
    <3>1. i + 1 \in Nat /\ frame = [op[t] EXCEPT !.i = i + 1]
      BY <1>2, <1>3, <2>3
    <3> QED
      BY <1>1, <1>2, <1>3, <3>1 DEF Frame
  <2>5. Moves(t, frame) /\ op'[t] = frame /\ \A u \in Threads : u # t => op'[u] = op[u]
    BY <1>3, <2>1, <2>3, <2>4, Moved
  <2>6. /\ pte' \in [VirtPages -> HeapPages \cup {Unmapped, Invalidated}]
        /\ pte'[start + i] = Invalidated
        /\ \A p \in VirtPages : p # start + i => pte'[p] = pte[p]
    BY <1>3, <2>1, <2>2, OneEntry
  <2>7. CallRange(t)' = CallRange(t)
    BY <1>1, <1>2, <1>3, <2>4, <2>5, RangeAfter
  <2>8. ASSUME NEW p \in CallRange(t)
        PROVE  /\ p \in VirtPages
               /\ start <= p => IF p < start + (i + 1) THEN pte'[p] = Invalidated
                                ELSE pte'[p] \in HeapPages
    <3>1. p \in Int
      BY <1>3, <2>8
    <3> QED
      BY <1>3, <1>4, <2>6, <2>8, <3>1
  <2>9. then = "return" => Backed(ptr, mine)'
    <3> SUFFICES ASSUME then = "return" PROVE Backed(ptr, mine)'
      OBVIOUS
    <3>1. ptr # mine /\ Backed(ptr, mine) /\ start = PageOf(ptr) + ChunkPages(mine)
      BY <1>4
    <3>2. AliasRange(ptr, mine)' = AliasRange(ptr, mine)
      BY <1>1, HeapSame
    <3>3. \A p \in AliasRange(ptr, mine) : p # start + i
      <4>1. ChunkPages(mine) \in Nat
        BY <1>1, <1>2, InCall
      <4>2. AliasRange(ptr, mine) = PageOf(ptr) .. start - 1
        BY <1>3, <3>1, <4>1 DEF AliasRange
      <4> QED
        BY <1>3, <4>2
    <3> QED
      BY <2>6, <3>1, <3>2, <3>3 DEF Backed
  <2>10. CallProgress(t)'
    <3>1. ChunkPages(op[t].base)' = ChunkPages(mine)
      BY <1>1, <1>2, <2>4, <2>5 DEF ChunkPages, ChunkAt
    <3>2. then = "return" => Backed(op[t].ptr, op[t].base)'
      BY <2>4, <2>5, <2>9 DEF Backed, AliasRange, ChunkPages, ChunkAt
    <3>3. i + 1 <= n
      BY <1>3, <1>6
    <3> QED
      BY <1>4, <2>4, <2>5, <2>7, <2>8, <3>1, <3>2, <3>3 DEF CallProgress
  <2>11. OneDedicates' /\ \A d \in 0 .. NumEntries : Dedicated(d) => Dedicated(d)'
    BY <1>1, <1>3, <2>4, <2>5 DEF OneDedicates, Dedicated
  <2>12. \A p \in VirtPages : pte'[p] # pte[p] => p \in CallRange(t)
    BY <2>2, <2>6
  <2> QED
    BY <1>1, <1>2, <1>3, <1>5, <2>1, <2>4, <2>5, <2>6, <2>7, <2>10, <2>11, <2>12,
       InsideStep DEF TypeOK
<1>7. CASE ~(i < n)
  <2>1. pte' = pte /\ AfterInvalidation(t) /\ i = n
    BY <1>2, <1>3, <1>4, <1>7 DEF Invalidate
  <2>2. \A p \in CallRange(t) : start <= p => pte[p] = Invalidated
    BY <1>3, <1>4, <2>1
  <2>3. ASSUME NEW frame \in Frame, Moves(t, frame), frame.base = mine, then # "return",
               UNCHANGED live,
               frame.pc = "sysfree" \/ (frame.pc = "vp_alloc" /\ frame.i = 0)
        PROVE  IInv'
    <3>1. op'[t] = frame /\ \A u \in Threads : u # t => op'[u] = op[u]
      BY <1>3, <2>3, Moved
    <3>2. CallRange(t)' = {} /\ CallProgress(t)'
      BY <2>3, <3>1 DEF CallRange, CallProgress
    <3>3. \A p \in CallRange(t) : pte'[p] \notin HeapPages
      BY <1>3, <1>4, <2>1, <2>2, <2>3, MarksApart
    <3>4. OneDedicates' /\ \A d \in 0 .. NumEntries : Dedicated(d) => Dedicated(d)'
      BY <1>1, <1>3, <2>3, <3>1 DEF OneDedicates, Dedicated
    <3> QED
      BY <1>1, <1>2, <1>3, <1>5, <2>1, <2>3, <3>1, <3>2, <3>3, <3>4, InsideStep DEF TypeOK
  <2>4. CASE then = "sysfree"
    <3>1. PICK frame : frame = [Idle EXCEPT !.pc = "sysfree", !.base = mine]
      OBVIOUS
    <3>2. frame \in Frame /\ frame.pc = "sysfree" /\ frame.base = mine
      BY <1>3, <3>1 DEF Idle, Frame
    <3>3. Moves(t, frame) /\ UNCHANGED live
      BY <1>2, <2>1, <2>4, <3>1 DEF AfterInvalidation
    <3> QED
      BY <2>3, <2>4, <3>2, <3>3
  <2>5. CASE then = "vp_alloc"
    <3>1. PICK frame : frame = Remap(mine)
      OBVIOUS
    <3>2. frame \in Frame /\ frame.pc = "vp_alloc" /\ frame.base = mine /\ frame.i = 0
      BY <1>3, <3>1 DEF Remap, Idle, Frame
    <3>3. Moves(t, frame) /\ UNCHANGED live
      BY <1>2, <2>1, <2>5, <3>1 DEF AfterInvalidation
    <3> QED
      BY <2>3, <2>5, <3>2, <3>3
  <2>6. CASE then = "return"
    <3>1. Returns(t, {Pointer(ptr, mine)})
      BY <1>2, <2>1, <2>6 DEF AfterInvalidation
    <3>2. PICK kept : kept = live
      OBVIOUS
    <3>3. /\ op'[t].pc = "idle" /\ op' \in [Threads -> Frame]
          /\ \A u \in Threads : u # t => op'[u] = op[u]
          /\ live \subseteq live' /\ live' \ kept = {Pointer(ptr, mine)} /\ live' # live
          /\ live' \subseteq [ptr : Nat, base : HeapUnits]
          /\ Pointer(ptr, mine).ptr = ptr /\ Pointer(ptr, mine).base = mine
          /\ NewPages(t, kept) = Held(ptr, mine)'
          /\ CallProgress(t)'
      BY <1>1, <1>2, <1>3, <3>1, <3>2, Returned
    <3>4. ptr # mine /\ Backed(ptr, mine) /\ start = PageOf(ptr) + ChunkPages(mine)
      BY <1>4, <2>6
    <3>5. /\ AliasRange(ptr, mine)' = AliasRange(ptr, mine)
          /\ NewPages(t, kept) = AliasRange(ptr, mine)
      BY <1>1, <3>3, <3>4, HeapSame DEF Held
    <3>6. Backed(ptr, mine)'
      BY <2>1, <3>4, <3>5 DEF Backed
    <3>7. /\ AliasRange(ptr, mine) \subseteq CallRange(t)
          /\ \A p \in CallRange(t) : p \notin AliasRange(ptr, mine) => pte[p] = Invalidated
      <4>1. ChunkPages(mine) \in Nat
        BY <1>1, <1>2, InCall
      <4>2. AliasRange(ptr, mine) = PageOf(ptr) .. start - 1
        BY <1>3, <3>4, <4>1 DEF AliasRange
      <4> QED
        BY <1>3, <2>2, <4>2
    <3>8. HandsOver(t, kept, mine) /\ ChunksApart'
      <4>1. \A p \in VirtPages : pte'[p] \in HeapPages /\ p \in CallRange(t) =>
              p \in NewPages(t, kept)
        BY <2>1, <3>5, <3>7, MarksApart
      <4> QED
        BY <1>1, <1>2, <1>5, <2>1, <3>2, <3>3, <3>5, <3>7, <4>1, SameOwner
    <3>9. TypeOK'
      BY <1>1, <1>3, <2>1, <3>3 DEF TypeOK
    <3>10. \A a \in live' \ kept : Backed(a.ptr, a.base)'
      BY <3>3, <3>6
    <3> QED
      BY <1>1, <1>3, <2>1, <3>3, <3>8, <3>9, <3>10, QuietStep DEF virtVars, dedicateVars
  <2> QED
    BY <1>2, <2>1, <2>4, <2>5, <2>6 DEF AfterInvalidation
<1> QED
  BY <1>6, <1>7

LEMMA SysReallocStep ==
  ASSUME IInv, NEW t \in Threads, SysRealloc(t)
  PROVE  IInv'
<1>1. /\ op[t].pc = "sysrealloc" /\ op[t].pc # "idle"
      /\ UNCHANGED <<inDune, abandoned, items, pte, tables, once, happened, given>>
  BY DEF SysRealloc, virtVars, dedicateVars
<1>2. PICK b, p, o, n : b = op[t].base /\ p = op[t].ptr /\ o = ChunkAt(b) /\ n = ChunkPages(b)
  OBVIOUS
<1>3. PICK kept, rest : kept = live /\ rest = heap \ {o}
  OBVIOUS
<1>4. /\ TypeOK /\ ChunksApart /\ BasesApart /\ PagesApart
      /\ HasChunk(b) /\ Backed(p, b) /\ (~inDune => p = b)
      /\ b \in HeapUnits /\ b \in Nat /\ p \in Nat /\ PageOf(p) \in Nat /\ n \in Nat \ {0}
      /\ o \in heap /\ o.base = b
      /\ CallRange(t) = Held(p, b)
  <2>1. /\ TypeOK /\ ChunksApart /\ BasesApart /\ PagesApart
        /\ HasChunk(b) /\ Backed(p, b) /\ (~inDune => p = b) /\ CallRange(t) = Held(p, b)
    BY <1>1, <1>2 DEF IInv, BasesApart, CallProgress, NothingRemappedYet, CallRange
  <2>2. b \in HeapUnits /\ p \in Nat
    BY <1>2, <2>1, Typed
  <2> QED
    BY <1>2, <2>1, <2>2, ChunkFacts, PageFacts
<1>5. PICK c : /\ c \in ChunksFor(FALSE, rest)
               /\ heap' = rest \cup {c}
               /\ AfterSysRealloc(t, c)
  <2>1. PICK e \in {d \in ChunksFor(FALSE, rest) : d.base = o.base} \cup ChunksFor(FALSE, heap) :
          heap' = rest \cup {e} /\ AfterSysRealloc(t, e)
    BY <1>2, <1>3 DEF SysRealloc
  <2>2. ChunksFor(FALSE, heap) \subseteq ChunksFor(FALSE, rest)
    <3> DEFINE all == {Chunk(base, len, FALSE) : base \in HeapUnits, len \in 1 .. MaxLen}
    <3>1. \A d : FitsHeap(d, heap) => FitsHeap(d, rest)
      BY <1>3 DEF FitsHeap
    <3>2. \A chunks : ChunksFor(FALSE, chunks) =
                        {d \in all : FitsHeap(d, chunks) /\ (FALSE => d.len = 1)}
      BY DEF ChunksFor
    <3> HIDE DEF all
    <3> QED
      BY <3>1, <3>2
  <2> QED
    BY <2>1, <2>2
<1>6. /\ ChunksApart'
      /\ c \in [base : HeapUnits, len : 1 .. MaxLen, zero : BOOLEAN]
      /\ c.base \in HeapUnits /\ c.base \in Nat /\ c.len \in Nat \ {0}
      /\ HasChunk(c.base)' /\ ChunkAt(c.base)' = c
      /\ \A d \in rest : d.base # c.base
  BY <1>3, <1>4, <1>5, NewChunk
<1>7. PICK new : new = SpannedPages(c.base, c.len)
  OBVIOUS
<1>8. new \in Nat \ {0} /\ ChunkPages(c.base)' = new
  BY <1>6, <1>7, SpannedFacts DEF ChunkPages
<1>9. \A x : HasChunk(x) /\ x # b => ChunkAt(x) \in rest /\ ChunkAt(x) \in heap' /\ x # c.base
  BY <1>3, <1>4, <1>5, <1>6, ChunkFacts
<1>10. /\ \A a \in live : a.base # c.base /\ ChunkAt(a.base) \in heap'
       /\ \A u \in Threads : u # t /\ op[u].pc # "idle" =>
            op[u].base # c.base /\ ChunkAt(op[u].base) \in heap'
  <2>1. /\ \A a \in live : HasChunk(a.base) /\ a.base # b
        /\ \A u \in Threads : u # t /\ op[u].pc # "idle" => HasChunk(op[u].base) /\ op[u].base # b
    BY <1>1, <1>2, <1>4 DEF BasesApart
  <2> QED
    BY <1>9, <2>1
<1>11. p # b => /\ OffsetIn(p) = OffsetIn(b)
                /\ CallRange(t) = PageOf(p) .. PageOf(p) + n - 1
                /\ \A q \in CallRange(t) : /\ q \in VirtPages /\ pte[q] \in HeapPages
                                           /\ pte[q] = PageOf(b) + q - PageOf(p)
  BY <1>2, <1>4, Resolved DEF Held, AliasRange, Backed
<1>12. ASSUME op' \in [Threads -> Frame], \A u \in Threads : u # t => op'[u] = op[u],
              live \subseteq live', live' \subseteq [ptr : Nat, base : HeapUnits],
              \A x, y \in live' \ kept : x = y,
              \A x \in live' \ kept : /\ x.base = c.base /\ op'[t].pc = "idle"
                                      /\ Backed(x.ptr, x.base)' /\ (~inDune => x.ptr = x.base),
              op'[t].pc # "idle" \/ live' # live,
              op'[t].pc # "idle" =>
                inDune /\ op'[t].base = c.base /\ op'[t].pc \in {"vp_alloc", "invalidate"},
              NewPages(t, kept) = CallRange(t), CallProgress(t)'
       PROVE  IInv'
  <2>1. \A d \in heap' :
          \/ d.zero
          \/ d.base = c.base /\ (op'[t].pc # "idle" \/ live' # kept)
          \/ d \in heap /\ (op[t].pc # "idle" => op[t].base # d.base)
                        /\ \A a \in live \ kept : a.base # d.base
    <3>1. \A d \in rest : d \in heap /\ d.base # b
      BY <1>2, <1>3, <1>4, ChunkFacts
    <3> QED
      BY <1>2, <1>3, <1>5, <1>12, <3>1
  <2>2. OldPages(t, kept) = CallRange(t)
    BY <1>3 DEF OldPages
  <2>3. /\ FreePages(items') = FreePages(items) /\ FreePages(items) \cap abandoned = {}
        /\ CallRange(t) \cap (FreePages(items) \cup abandoned) = {}
    BY <1>1, <1>4 DEF PagesApart
  <2>4. HandsOver(t, kept, c.base)
    BY <1>1, <1>3, <1>6, <1>10, <1>12, <2>1, <2>2, <2>3 DEF HandsOver
  <2>5. TypeOK'
    BY <1>1, <1>3, <1>4, <1>5, <1>6, <1>12 DEF TypeOK
  <2> QED
    BY <1>1, <1>6, <1>12, <2>4, <2>5, QuietStep DEF virtVars, dedicateVars
<1>13. ASSUME NEW q \in Nat, Returns(t, {Pointer(q, c.base)}), Held(q, c.base)' = CallRange(t),
              Backed(q, c.base)', ~inDune => q = c.base
       PROVE  IInv'
  <2>1. /\ op'[t].pc = "idle" /\ op' \in [Threads -> Frame]
        /\ \A u \in Threads : u # t => op'[u] = op[u]
        /\ live \subseteq live' /\ live' \ kept = {Pointer(q, c.base)} /\ live' # live
        /\ live' \subseteq [ptr : Nat, base : HeapUnits]
        /\ Pointer(q, c.base).ptr = q /\ Pointer(q, c.base).base = c.base
        /\ NewPages(t, kept) = Held(q, c.base)'
        /\ CallProgress(t)'
    <3>1. PICK mine : mine = c.base
      OBVIOUS
    <3> QED
      BY <1>3, <1>4, <1>6, <1>10, <1>13, ReturnedFor
  <2>2. \A x \in live' \ kept : x.ptr = q /\ x.base = c.base
    BY <2>1
  <2>3. \A x \in live' \ kept : Backed(x.ptr, x.base)'
    BY <1>13, <2>2
  <2> QED
    BY <1>12, <1>13, <2>1, <2>2, <2>3
<1>14. ASSUME NEW frame \in Frame, Moves(t, frame), UNCHANGED live, inDune,
              frame.base = c.base, frame.pc \in {"vp_alloc", "invalidate"},
              op'[t] = frame => CallRange(t)' = CallRange(t) /\ CallProgress(t)'
       PROVE  IInv'
  <2>1. op' \in [Threads -> Frame] /\ op'[t] = frame /\ \A u \in Threads : u # t => op'[u] = op[u]
    BY <1>4, <1>14, Moved
  <2>2. NewPages(t, kept) = CallRange(t)
    BY <1>3, <1>14, <2>1 DEF NewPages
  <2> QED
    BY <1>3, <1>4, <1>12, <1>14, <2>1, <2>2 DEF TypeOK
<1>15. CASE ~inDune /\ Returns(t, {Pointer(c.base, c.base)})
  <2>1. Held(c.base, c.base)' = CallRange(t) /\ Backed(c.base, c.base)'
    BY <1>4, <1>15 DEF Held, Backed
  <2> QED
    BY <1>6, <1>13, <1>15, <2>1
<1>16. CASE inDune /\ p = b /\ Moves(t, Remap(c.base)) /\ UNCHANGED live
  <2>2. PICK frame : frame = Remap(c.base)
    OBVIOUS
  <2>3. frame \in Frame /\ frame.pc = "vp_alloc" /\ frame.base = c.base /\ frame.i = 0
    BY <1>4, <1>6, <2>2, Typed DEF Remap, Idle, Frame
  <2>4. op'[t] = frame => CallRange(t)' = CallRange(t) /\ CallProgress(t)'
    BY <1>4, <1>16, <2>3 DEF Held, CallRange, CallProgress
  <2> QED
    BY <1>14, <1>16, <2>2, <2>3, <2>4
<1>17. CASE inDune /\ p # b /\ c.base = b /\ new = n /\ Returns(t, {Pointer(p, b)})
  <2>2. AliasRange(p, c.base)' = CallRange(t)
    BY <1>8, <1>11, <1>17 DEF AliasRange
  <2>3. Held(p, c.base)' = CallRange(t) /\ Backed(p, c.base)'
    BY <1>1, <1>11, <1>17, <2>2 DEF Held, Backed
  <2> QED
    BY <1>4, <1>13, <1>17, <2>3
<1>18. CASE /\ inDune /\ p # b /\ c.base = b /\ new < n
            /\ Moves(t, Invalidation(p, b, PageOf(RoundUp(p + c.len)), n - new, "return"))
            /\ UNCHANGED live
  <2>1. PICK q : q = PageOf(RoundUp(p + c.len))
    OBVIOUS
  <2>2. q = PageOf(p) + new
    <3>1. OffsetIn(p) = OffsetIn(b) /\ p \in Nat /\ b \in Nat /\ c.len \in Nat \ {0}
      BY <1>4, <1>6, <1>11, <1>18
    <3>2. SpannedPages(p, c.len) = new
      BY <1>7, <1>18, <3>1, SpannedAlike
    <3>3. q = PageOf(p) + SpannedPages(p, c.len)
      BY <2>1, <3>1, SpannedFacts
    <3> QED
      BY <3>2, <3>3
  <2>3. PICK frame : frame = Invalidation(p, b, q, n - new, "return")
    OBVIOUS
  <2>4. Moves(t, frame) /\ UNCHANGED live
    BY <1>18, <2>1, <2>3
  <2>5. /\ frame \in Frame /\ frame.pc = "invalidate" /\ frame.base = b
        /\ frame.ptr = p /\ frame.page = q /\ frame.i = 0
        /\ frame.n = n - new /\ frame.then = "return"
    <3>1. q \in Nat /\ n - new \in Nat
      BY <1>4, <1>8, <1>18, <2>2
    <3> QED
      BY <1>4, <2>3, <3>1 DEF Invalidation, Idle, Frame
  <2>6. ASSUME op'[t] = frame PROVE CallRange(t)' = CallRange(t) /\ CallProgress(t)'
    <3>1. CallRange(t)' = CallRange(t)
      <4>1. CallRange(t)' = PageOf(p) .. q + (n - new) - 1
        BY <2>5, <2>6 DEF CallRange
      <4> QED
        BY <1>4, <1>8, <1>11, <1>18, <2>2, <4>1
    <3>2. ChunkPages(op[t].base)' = new
      BY <1>6, <1>7, <1>18, <2>5, <2>6 DEF ChunkPages
    <3>3. Backed(op[t].ptr, op[t].base)'
      <4>1. AliasRange(p, b)' = PageOf(p) .. PageOf(p) + new - 1
        BY <1>8, <1>18 DEF AliasRange
      <4>2. AliasRange(p, b)' \subseteq CallRange(t)
        BY <1>4, <1>8, <1>11, <1>18, <4>1
      <4>3. Backed(p, b)'
        BY <1>1, <1>11, <1>18, <4>2 DEF Backed
      <4> QED
        BY <2>5, <2>6, <4>3 DEF Backed, AliasRange, ChunkPages, ChunkAt
    <3>4. 0 <= n - new /\ PageOf(p) <= q
      BY <1>4, <1>8, <1>18, <2>2
    <3>5. \A r \in CallRange(t) :
            /\ r \in VirtPages
            /\ q <= r => IF r < q + 0 THEN pte'[r] = Invalidated ELSE pte'[r] \in HeapPages
      <4>1. \A r \in CallRange(t) : r \in Int
        BY <1>11, <1>18
      <4> QED
        BY <1>1, <1>4, <1>8, <1>11, <1>18, <2>2, <4>1
    <3>6. CallProgress(t)'
      BY <1>18, <2>2, <2>5, <2>6, <3>1, <3>2, <3>3, <3>4, <3>5 DEF CallProgress
    <3> QED
      BY <3>1, <3>6
  <2> QED
    BY <1>14, <1>18, <2>4, <2>5, <2>6
<1>19. CASE /\ inDune /\ p # b
            /\ Moves(t, Invalidation(p, c.base, PageOf(p), n, "vp_alloc"))
            /\ UNCHANGED live
  <2>1. PICK frame : frame = Invalidation(p, c.base, PageOf(p), n, "vp_alloc")
    OBVIOUS
  <2>2. Moves(t, frame) /\ UNCHANGED live
    BY <1>19, <2>1
  <2>3. /\ frame \in Frame /\ frame.pc = "invalidate" /\ frame.base = c.base
        /\ frame.ptr = p /\ frame.page = PageOf(p) /\ frame.i = 0
        /\ frame.n = n /\ frame.then = "vp_alloc"
    BY <1>4, <1>6, <2>1 DEF Invalidation, Idle, Frame
  <2>4. ASSUME op'[t] = frame PROVE CallRange(t)' = CallRange(t) /\ CallProgress(t)'
    <3>1. CallRange(t)' = CallRange(t)
      BY <1>11, <1>19, <2>3, <2>4 DEF CallRange
    <3>2. \A r \in CallRange(t) :
            /\ r \in VirtPages
            /\ PageOf(p) <= r => IF r < PageOf(p) + 0 THEN pte'[r] = Invalidated
                                 ELSE pte'[r] \in HeapPages
      <4>1. \A r \in CallRange(t) : r \in Int
        BY <1>11, <1>19
      <4> QED
        BY <1>1, <1>4, <1>11, <1>19, <4>1
    <3>3. 0 <= n /\ PageOf(p) <= PageOf(p)
      BY <1>4
    <3>4. CallProgress(t)'
      BY <2>3, <2>4, <3>1, <3>2, <3>3 DEF CallProgress
    <3> QED
      BY <3>1, <3>4
  <2> QED
    BY <1>14, <1>19, <2>2, <2>3, <2>4
<1> QED
  BY <1>2, <1>5, <1>7, <1>15, <1>16, <1>17, <1>18, <1>19 DEF AfterSysRealloc, WasRemapped

-----------------------------------------------------------------------------
(* The invariant is inductive. *)

LEMMA InitIInv ==
  Init => IInv
<1> SUFFICES ASSUME Init PROVE IInv
  OBVIOUS
<1>1. /\ inDune = FALSE /\ heap = {} /\ items = <<>> /\ live = {} /\ abandoned = {}
      /\ given = {} /\ once = "new" /\ happened = FALSE
      /\ pte = [p \in VirtPages |-> Unmapped]
      /\ tables = [e \in 0 .. NumEntries |-> IF e \in ProgramEntries THEN 3 ELSE 0]
      /\ op = [t \in Threads |-> Idle]
  BY DEF Init
<1>2. FreePages(items) = {} /\ Coalesced(items) /\ items \in Seq(Span)
  BY <1>1 DEF FreePages, Coalesced
<1>3. \A p \in VirtPages : pte[p] = Unmapped
  BY <1>1
<1>4. Idle \in Frame
  <2>1. 0 \in HeapUnits
    <3>1. EntryPages \in Nat /\ PageSize \in Nat /\ EntryPages > 0 /\ PageSize > 0
      BY SizesAssumption
    <3>2. EntryPages * PageSize > 0 /\ EntryPages * PageSize \in Nat
      BY <3>1, SMT
    <3> QED
      BY <3>2 DEF HeapUnits
  <2> QED
    BY <2>1 DEF Idle, Frame
<1>5. \A t \in Threads : op[t].pc = "idle" /\ CallRange(t) = {}
  BY <1>1, IdleFacts DEF CallRange
<1>6. TypeOK
  <2>1. /\ tables \in [0 .. NumEntries -> 0 .. 3]
        /\ pte \in [VirtPages -> HeapPages \cup {Unmapped, Invalidated}]
        /\ op \in [Threads -> Frame]
    BY <1>1, <1>4
  <2> QED
    BY <1>1, <1>2, <2>1 DEF TypeOK
<1>7. ChunksApart /\ BasesApart /\ ChunksOwned
  BY <1>1, <1>5 DEF ChunksApart, BasesApart, ChunksOwned
<1>8. PagesApart /\ FreeUnmapped
  BY <1>1, <1>2, <1>5 DEF PagesApart, FreeUnmapped
<1>9. \A t \in Threads : CallProgress(t)
  BY <1>5 DEF CallProgress
<1>10. MappedOwned
  BY <1>3, MarksApart DEF MappedOwned
<1>11. NothingRemappedYet
  BY <1>1, <1>5 DEF NothingRemappedYet
<1>12. UsedWasGiven
  BY <1>1, <1>2, <1>3, <1>5 DEF UsedWasGiven, Used
<1>13. OneDedicates
  BY <1>1, <1>5, SizesAssumption DEF OneDedicates
<1> QED
  BY <1>1, <1>6, <1>7, <1>8, <1>9, <1>10, <1>11, <1>12, <1>13 DEF IInv

\* The parts of the invariant that do not speak of inDune.
LEMMA Untouched ==
  ASSUME IInv, UNCHANGED <<heap, items, pte, tables, once, happened, given, live, abandoned, op>>
  PROVE  /\ ChunksApart' /\ BasesApart' /\ PagesApart' /\ FreeUnmapped'
         /\ (\A t \in Threads : CallProgress(t))'
         /\ (\A a \in live : Backed(a.ptr, a.base))'
         /\ MappedOwned' /\ ChunksOwned' /\ UsedWasGiven' /\ OneDedicates'
<1>1. ChunksApart' /\ FreeUnmapped' /\ ChunksOwned' /\ OneDedicates'
  BY DEF IInv, ChunksApart, FreeUnmapped, ChunksOwned, OneDedicates
<1>2. BasesApart'
  BY DEF IInv, BasesApart, HasChunk
<1>3. /\ \A t \in Threads : CallRange(t)' = CallRange(t)
      /\ \A p, b : Held(p, b)' = Held(p, b)
      /\ \A p, b : AliasRange(p, b)' = AliasRange(p, b)
      /\ \A p, b : Backed(p, b)' = Backed(p, b)
  BY DEF CallRange, Held, AliasRange, Backed, ChunkPages, ChunkAt
<1>4. PagesApart' /\ MappedOwned'
  BY <1>3 DEF IInv, PagesApart, MappedOwned
<1>5. (\A a \in live : Backed(a.ptr, a.base))'
  BY <1>3 DEF IInv
<1>6. ASSUME NEW t \in Threads PROVE CallProgress(t)'
  <2>1. CallProgress(t)
    BY DEF IInv
  <2>2. CallRange(t)' = CallRange(t) /\ ChunkPages(op[t].base)' = ChunkPages(op[t].base)
        /\ Backed(op[t].ptr, op[t].base)' = Backed(op[t].ptr, op[t].base)
    BY DEF CallRange, Held, AliasRange, Backed, ChunkPages, ChunkAt
  <2> QED
    BY <2>1, <2>2 DEF CallProgress
<1>7. UsedWasGiven'
  <2>1. /\ \A p : Used(p)' = Used(p)
        /\ \A e : Dedicated(e)' = Dedicated(e)
    BY <1>3 DEF Used, Dedicated
  <2> QED
    BY <2>1 DEF IInv, UsedWasGiven
<1> QED
  BY <1>1, <1>2, <1>4, <1>5, <1>6, <1>7

LEMMA StutterIInv ==
  ASSUME IInv, UNCHANGED vars
  PROVE  IInv'
<1>1. TypeOK' /\ NothingRemappedYet'
  BY DEF vars, IInv, TypeOK, NothingRemappedYet
<1> QED
  BY <1>1, Untouched DEF vars, IInv

LEMMA EnterDuneStep ==
  ASSUME IInv, EnterDune
  PROVE  IInv'
<1>1. /\ UNCHANGED <<heap, items, pte, tables, once, happened, given, live, abandoned, op>>
      /\ inDune' = TRUE
  BY DEF EnterDune, allocVars, virtVars, dedicateVars
<1>2. TypeOK' /\ NothingRemappedYet'
  BY <1>1 DEF IInv, TypeOK, NothingRemappedYet
<1> QED
  BY <1>1, <1>2, Untouched DEF IInv

LEMMA NextIInv ==
  ASSUME RegionsApart, IInv, [Next]_vars
  PROVE  IInv'
<1>1. CASE UNCHANGED vars
  BY <1>1, StutterIInv
<1>2. CASE EnterDune
  BY <1>2, EnterDuneStep
<1>3. ASSUME NEW t \in Threads, Call(t) PROVE IInv'
  BY <1>3, StutterIInv, DedicateVmemStep, AllocateStep, FreeStep, ReallocStep
     DEF Call, AllocateFails
<1>4. ASSUME NEW t \in Threads, Step(t) PROVE IInv'
  BY <1>4, VpAllocStep, NoVirtualMemoryStep, DedicateOnceStep, DedicateEntryStep,
     DedicateDoneStep, MapPageStep, MapPageFailsStep, UnmapPageStep, GiveBackStep,
     InvalidateStep, SysFreeStep, SysReallocFailsStep, SysReallocToZeroStep, SysReallocStep
     DEF Step
<1> QED
  BY <1>1, <1>2, <1>3, <1>4 DEF Next

-----------------------------------------------------------------------------
(* What the invariant implies. *)

\* The pages that the properties speak of are those of the invariant.
LEMMA OwnersPages ==
  ASSUME IInv
  PROVE  /\ \A a \in live : AliasPages(a) = Held(a.ptr, a.base)
         /\ \A t \in Threads : OpPages(t) = CallRange(t)
<1>1. TypeOK /\ ChunksApart /\ BasesApart
  BY DEF IInv
<1>2. ASSUME NEW a \in live PROVE AliasPages(a) = Held(a.ptr, a.base)
  <2>1. HasChunk(a.base) /\ Backed(a.ptr, a.base) /\ a.ptr \in Nat
    BY <1>1, Typed DEF IInv, BasesApart
  <2> QED
    BY <1>1, <2>1, FootprintFacts DEF AliasPages, Held, Backed
<1>3. ASSUME NEW t \in Threads PROVE OpPages(t) = CallRange(t)
  <2>1. /\ op[t].pc # "idle" => HasChunk(op[t].base) /\ ChunkPages(op[t].base) \in Nat
                                /\ op[t].base \in Nat
        /\ op[t].page \in Nat /\ op[t].ptr \in Nat /\ op[t].n \in Nat
    BY <1>1, Typed, ChunkFacts DEF BasesApart
  <2>2. CASE op[t].pc \in {"map", "unmap", "vp_free"}
    <3> DEFINE o == OffsetIn(op[t].base)
               ptr == AddressOf(op[t].page) + o
    <3>1. o \in Nat /\ o < PageSize
      BY <2>1, <2>2, PageFacts
    <3>2. ptr \in Nat /\ PageOf(ptr) = op[t].page /\ OffsetIn(ptr) = OffsetIn(op[t].base)
      BY <2>1, <3>1, AddressFacts
    <3> HIDE DEF o
    <3>3. OpPages(t) = Footprint(ptr, op[t].base)
      BY <2>2 DEF OpPages, o
    <3> HIDE DEF ptr
    <3>4. OpPages(t) = AliasRange(ptr, op[t].base)
      BY <1>1, <2>1, <2>2, <3>2, <3>3, FootprintFacts
    <3> QED
      BY <2>2, <3>2, <3>4 DEF CallRange, AliasRange
  <2>3. CASE op[t].pc = "sysrealloc"
    <3>1. Backed(op[t].ptr, op[t].base)
      BY <2>3 DEF IInv, CallProgress
    <3>2. OpPages(t) = IF WasRemapped(t) THEN Footprint(op[t].ptr, op[t].base) ELSE {}
      BY <2>3 DEF OpPages
    <3> QED
      BY <1>1, <2>1, <2>3, <3>1, <3>2, FootprintFacts DEF CallRange, Held, WasRemapped, Backed
  <2>4. CASE op[t].pc = "invalidate"
    BY <2>4 DEF OpPages, CallRange
  <2>5. CASE op[t].pc \notin {"map", "unmap", "vp_free", "sysrealloc", "invalidate"}
    BY <2>5 DEF OpPages, CallRange
  <2> QED
    BY <2>2, <2>3, <2>4, <2>5
<1> QED
  BY <1>2, <1>3

\* A page has an owner when a pointer or a call has it.
LEMMA OwnerMeans ==
  ASSUME IInv, NEW p
  PROVE  HasOwner(p) <=> \/ \E a \in live : p \in Held(a.ptr, a.base)
                         \/ \E t \in Threads : p \in CallRange(t)
<1>1. \A t \in Threads : p \in CallRange(t) => HasChunk(op[t].base)
  <2>1. \A t \in Threads : op[t].pc = "idle" => CallRange(t) = {}
    BY DEF CallRange
  <2> QED
    BY <2>1 DEF IInv, BasesApart
<1> QED
  BY <1>1, OwnersPages DEF HasOwner

LEMMA DangleFromIInv ==
  ASSUME IInv PROVE OnlyAbandonedDangle
<1> SUFFICES ASSUME NEW p \in VirtPages, pte[p] \in HeapPages
             PROVE  HasOwner(p) <=> p \notin abandoned
  BY DEF OnlyAbandonedDangle, HasOwner
<1>1. MappedOwned /\ PagesApart
  BY DEF IInv
<1> QED
  BY <1>1, OwnerMeans DEF MappedOwned, PagesApart

LEMMA PointersFromIInv ==
  ASSUME IInv PROVE LivePointersWork
<1> SUFFICES ASSUME NEW a \in live PROVE LivePointerWorks(a)
  BY DEF LivePointersWork
<1>1. /\ TypeOK /\ ChunksApart /\ BasesApart /\ HasChunk(a.base) /\ Backed(a.ptr, a.base)
  BY DEF IInv, BasesApart
<1>2. PICK ptr, base, len : ptr = a.ptr /\ base = a.base /\ len = ChunkAt(base).len
  OBVIOUS
<1>3. /\ ptr \in Nat /\ base \in Nat /\ len \in Nat \ {0}
      /\ Units(ChunkAt(base)) = base .. base + len - 1
      /\ ChunkPages(base) = SpannedPages(base, len)
  BY <1>1, <1>2, Typed, ChunkFacts DEF Units, ChunkPages
<1>4. ASSUME NEW u \in base .. base + len - 1
      PROVE  ptr + u - base = u \/ (Remapped(ptr + u - base) /\ Resolve(ptr + u - base) = u)
  <2>1. CASE ptr = base
    BY <1>3, <2>1
  <2>2. CASE ptr # base
    <3>1. PICK k \in Nat : k = u - base /\ k <= len - 1 /\ u = base + k /\ ptr + u - base = ptr + k
      BY <1>3
    <3>2. OffsetIn(ptr) = OffsetIn(base)
          /\ \A p \in AliasRange(ptr, base) :
               p \in VirtPages /\ pte[p] \in HeapPages /\ pte[p] = PageOf(base) + p - PageOf(ptr)
      BY <1>1, <1>2, <1>3, <2>2, Resolved DEF Backed
    <3>3. /\ PageOf(ptr + k) - PageOf(ptr) = PageOf(base + k) - PageOf(base)
          /\ OffsetIn(ptr + k) = OffsetIn(base + k)
          /\ PageOf(ptr) <= PageOf(ptr + k)
      BY <1>3, <3>2, InStep
    <3>4. /\ PageOf(ptr + k) \in Nat /\ PageOf(ptr) \in Nat /\ PageOf(base) \in Nat
          /\ PageOf(base + k) \in Nat /\ PageOf(base + len - 1) \in Nat
          /\ ptr + k \in Nat /\ base + k \in Nat /\ base + len - 1 \in Nat
      <4>1. ptr + k \in Nat /\ base + k \in Nat /\ base + len - 1 \in Nat
        BY <1>3
      <4> QED
        BY <1>3, <4>1, PageFacts
    <3>5. PageOf(base + k) <= PageOf(base + len - 1)
      <4>1. PICK j \in Nat : j = len - 1 - k /\ (base + k) + j = base + len - 1
        BY <1>3, <3>1
      <4>2. PageOf(base + k) <= PageOf((base + k) + j)
        BY <3>4, InStep
      <4> QED
        BY <4>1, <4>2
    <3>6. SpannedPages(base, len) = PageOf(base + len - 1) - PageOf(base) + 1
      BY <1>3, SpannedFacts
    <3>7. PageOf(ptr + k) \in AliasRange(ptr, base)
      BY <1>3, <3>3, <3>4, <3>5, <3>6 DEF AliasRange
    <3>8. PageOf(base) + PageOf(ptr + k) - PageOf(ptr) = PageOf(base + k)
      BY <3>3, <3>4
    <3>9. /\ PageOf(ptr + k) \in VirtPages /\ pte[PageOf(ptr + k)] \in HeapPages
          /\ pte[PageOf(ptr + k)] = PageOf(base + k)
      BY <3>2, <3>7, <3>8
    <3>10. AddressOf(PageOf(u)) + OffsetIn(u) = u
      <4>1. /\ PageSize \in Nat /\ u \in Nat
            /\ u = PageSize * PageOf(u) + OffsetIn(u) /\ PageOf(u) \in Nat
        BY <3>1, <3>4, PageFacts, SizesAssumption
      <4>2. AddressOf(PageOf(u)) = PageSize * PageOf(u)
        BY <4>1, SMT DEF AddressOf
      <4> QED
        BY <4>1, <4>2
    <3>11. Remapped(ptr + k) /\ Resolve(ptr + k) = u
      BY <3>1, <3>3, <3>9, <3>10 DEF Remapped, Resolve
    <3> QED
      BY <3>1, <3>11
  <2> QED
    BY <2>1, <2>2
<1>5. \A b \in live : b.base = a.base => b = a
  BY <1>1 DEF BasesApart
<1>6. \A u \in Units(ChunkAt(a.base)) :
        LET q == a.ptr + u - a.base IN q = u \/ (Remapped(q) /\ Resolve(q) = u)
  BY <1>2, <1>3, <1>4
<1> QED
  BY <1>1, <1>5, <1>6 DEF LivePointerWorks

LEMMA OwnersFromIInv ==
  ASSUME IInv PROVE PagesHaveOneOwner
<1>1. PagesApart /\ FreeUnmapped /\ UsedWasGiven
  BY DEF IInv
<1>2. ASSUME NEW p \in VirtPages
      PROVE  /\ \A a, b \in live : p \in AliasPages(a) /\ p \in AliasPages(b) => a = b
             /\ \A t, u \in Threads : p \in OpPages(t) /\ p \in OpPages(u) => t = u
             /\ \A a \in live, t \in Threads : ~(p \in AliasPages(a) /\ p \in OpPages(t))
             /\ p \in FreePages(items) => /\ \A a \in live : p \notin AliasPages(a)
                                          /\ \A t \in Threads : p \notin OpPages(t)
                                          /\ pte[p] = Unmapped
  BY <1>1, OwnersPages DEF PagesApart, FreeUnmapped
<1>3. ASSUME NEW p \in VirtPages, EntryOf(p) \in ProgramEntries,
             p \notin UNION {SpanPages(r) : r \in given}
      PROVE  /\ p \notin FreePages(items)
             /\ \A a \in live : p \notin AliasPages(a)
             /\ \A t \in Threads : p \notin OpPages(t)
  BY <1>1, <1>3, OwnersPages DEF UsedWasGiven, Used
<1> QED
  BY <1>1, <1>2, <1>3 DEF PagesHaveOneOwner, FreeUnmapped

LEMMA ChunksFromIInv ==
  ASSUME IInv PROVE ChunksReachable /\ SysFreeGetsChunk
  BY DEF IInv, ChunksOwned, ChunksReachable, BasesApart, SysFreeGetsChunk

\* pt_map_page finds the entry it writes empty.
LEMMA MapsUnmapped ==
  ASSUME IInv, NEW t \in Threads, op[t].pc = "map"
  PROVE  op[t].page + op[t].i \in VirtPages /\ pte[op[t].page + op[t].i] = Unmapped
<1>1. /\ op[t].i \in Nat /\ op[t].page \in Nat /\ ChunkPages(op[t].base) \in Nat
      /\ CallRange(t) = op[t].page .. op[t].page + ChunkPages(op[t].base) - 1
  BY Typed, InCall DEF IInv, CallRange
<1>2. op[t].i < ChunkPages(op[t].base)
  BY DEF IInv, CallProgress
<1>3. op[t].page + op[t].i \in CallRange(t) /\ ~(op[t].page + op[t].i < op[t].page + op[t].i)
  BY <1>1, <1>2
<1> QED
  BY <1>3 DEF IInv, CallProgress

\* pt_unmap_page finds the entry it clears mapped to the heap.
LEMMA UnmapsMapped ==
  ASSUME IInv, NEW t \in Threads, op[t].pc = "unmap", op[t].i < op[t].n
  PROVE  pte[op[t].page + op[t].i] \in HeapPages
<1>1. PICK page \in Nat, i \in Nat, m \in Nat, base, n \in Nat :
        /\ page = op[t].page /\ i = op[t].i /\ m = op[t].n /\ base = op[t].base
        /\ n = ChunkPages(base)
  BY Typed, InCall DEF IInv
<1>2. /\ ChunksApart /\ HasChunk(base) /\ PageOf(base) \in HeapPages
      /\ CallRange(t) = page .. page + n - 1
  BY <1>1, InCall DEF IInv, CallRange
<1>3. m < n /\ \A p \in CallRange(t) :
                 pte[p] = IF page + i <= p /\ p < page + m THEN PageOf(base) + p - page
                          ELSE Unmapped
  BY <1>1 DEF IInv, CallProgress
<1>4. page + i \in CallRange(t) /\ page + i <= page + i /\ page + i < page + m
  <2>1. i < m
    BY ONLY <1>1, op[t].i < op[t].n
  <2>2. m < n
    BY <1>3
  <2>3. page + i \in page .. page + n - 1 /\ page + i <= page + i /\ page + i < page + m
    BY ONLY <2>1, <2>2, page \in Nat, i \in Nat, m \in Nat, n \in Nat
  <2> QED
    BY ONLY <1>2, <2>3
<1>5. PageOf(base) + (page + i) - page = PageOf(base) + i
  BY <1>1, <1>2, SizesAssumption DEF HeapPages
<1>6. PageOf(base) + i \in HeapPages
  <2>1. i \in 0 .. ChunkPages(base) - 1
    BY <1>1, <1>3
  <2> QED
    BY <1>2, <2>1, BackingPages
<1> QED
  BY <1>1, <1>3, <1>4, <1>5, <1>6

LEMMA AssertsFromIInv ==
  ASSUME IInv PROVE NeverReplacesMapping /\ InvalidatesValidPages
<1>1. ASSUME NEW t \in Threads, op[t].pc = "invalidate", NEW i \in op[t].i .. op[t].n - 1
      PROVE  op[t].page + i \in VirtPages /\ pte[op[t].page + i] \in HeapPages
  <2>1. /\ op[t].i \in Nat /\ op[t].page \in Nat /\ op[t].n \in Nat /\ PageOf(op[t].ptr) \in Nat
        /\ CallRange(t) = PageOf(op[t].ptr) .. op[t].page + op[t].n - 1
    BY <1>1, Typed, PageFacts DEF IInv, CallRange
  <2>2. PageOf(op[t].ptr) <= op[t].page
    BY <1>1 DEF IInv, CallProgress
  <2>3. /\ op[t].page + i \in CallRange(t) /\ op[t].page <= op[t].page + i
        /\ ~(op[t].page + i < op[t].page + op[t].i)
    <3>1. PICK page \in Nat, a \in Nat, n \in Nat, low \in Nat :
            page = op[t].page /\ a = op[t].i /\ n = op[t].n /\ low = PageOf(op[t].ptr)
      BY <2>1
    <3>2. i \in Int /\ a <= i /\ i <= n - 1
      BY <1>1, <3>1
    <3>3. page + i \in low .. page + n - 1 /\ page <= page + i /\ ~(page + i < page + a)
      BY <2>2, <3>1, <3>2
    <3> QED
      BY <2>1, <3>1, <3>3
  <2> QED
    BY <1>1, <2>3 DEF IInv, CallProgress
<1>2. NeverReplacesMapping
  BY MapsUnmapped, MarksApart DEF NeverReplacesMapping
<1>3. InvalidatesValidPages
  BY <1>1 DEF InvalidatesValidPages
<1> QED
  BY <1>2, <1>3

\* An entry that was invalidated stays so, and its page is not free.
LEMMA RetiredFromIInv ==
  ASSUME IInv, IInv', [Next]_vars
  PROVE  \A p \in VirtPages :
           pte[p] = Invalidated => pte'[p] = Invalidated /\ p \notin FreePages(items')
<1> SUFFICES ASSUME NEW p \in VirtPages, pte[p] = Invalidated
             PROVE  pte'[p] = Invalidated
  BY MarksApart DEF IInv, FreeUnmapped
<1>1. TypeOK
  BY DEF IInv
<1>2. ASSUME NEW t \in Threads, MapPage(t) PROVE pte'[p] = Invalidated
  <2>1. PICK q, v : q = op[t].page + op[t].i /\ v = BackingPage(t)
    OBVIOUS
  <2>2. pte' = [pte EXCEPT ![q] = v] /\ op[t].pc = "map"
    BY <1>2, <2>1 DEF MapPage
  <2>3. pte[q] = Unmapped /\ q \in VirtPages
    BY <2>1, <2>2, MapsUnmapped
  <2> QED
    BY <1>1, <2>2, <2>3, MarksApart DEF TypeOK
<1>3. ASSUME NEW t \in Threads, UnmapPage(t) PROVE pte'[p] = Invalidated
  <2>1. PICK q : q = op[t].page + op[t].i
    OBVIOUS
  <2>2. op[t].pc = "unmap"
    BY <1>3 DEF UnmapPage
  <2>3. CASE op[t].i < op[t].n
    <3>1. pte' = [pte EXCEPT ![q] = Unmapped]
      BY <1>3, <2>1, <2>3 DEF UnmapPage
    <3>2. pte[q] # Invalidated
      BY <2>1, <2>2, <2>3, UnmapsMapped, MarksApart
    <3> QED
      BY <1>1, <3>1, <3>2 DEF TypeOK
  <2>4. CASE ~(op[t].i < op[t].n)
    BY <1>3, <2>4 DEF UnmapPage
  <2> QED
    BY <2>3, <2>4
<1>4. ASSUME NEW t \in Threads, Invalidate(t) PROVE pte'[p] = Invalidated
  <2>1. PICK q : q = op[t].page + op[t].i
    OBVIOUS
  <2>2. pte' = [pte EXCEPT ![q] = Invalidated] \/ pte' = pte
    BY <1>4, <2>1 DEF Invalidate
  <2> QED
    BY <1>1, <2>2 DEF TypeOK
<1>5. ASSUME NEW t \in Threads, Call(t) PROVE pte' = pte
  BY <1>5 DEF Call, DedicateVmem, Allocate, AllocateFails, Free, Realloc, virtVars, vars
<1>6. ASSUME NEW t \in Threads, Step(t) PROVE pte'[p] = Invalidated
  <2>1. CASE MapPage(t) \/ UnmapPage(t) \/ Invalidate(t)
    BY <1>2, <1>3, <1>4, <2>1
  <2>2. CASE ~(MapPage(t) \/ UnmapPage(t) \/ Invalidate(t))
    BY <1>6, <2>2 DEF Step, VpAlloc, NoVirtualMemory, DedicateOnce, DedicateEntry, DedicateDone,
       MapPageFails, GiveBack, SysFree, SysReallocFails, SysReallocToZero, SysRealloc, virtVars
  <2> QED
    BY <2>1, <2>2
<1>7. EnterDune \/ UNCHANGED vars => pte' = pte
  BY DEF EnterDune, virtVars, vars
<1> QED
  BY <1>5, <1>6, <1>7 DEF Next

-----------------------------------------------------------------------------
(* Falling back. *)

\* A thread that is about to fall back saw no span that would do.
NothingFitted ==
  \A t \in Threads : op[t].pc = "no_vm" => NoFit(items, ChunkPages(op[t].base))

\* Where the frames that the calls move to stand.
LEMMA FrameFacts ==
  ASSUME NEW f \in Frame
  PROVE  /\ \A x : [f EXCEPT !.i = x].pc = f.pc
         /\ \A s : [f EXCEPT !.pc = s].pc = s /\ [f EXCEPT !.pc = s].base = f.base
         /\ \A x : [f EXCEPT !.i = x].page = f.page /\ [f EXCEPT !.i = x].base = f.base
                  /\ [f EXCEPT !.i = x].n = f.n
         /\ \A s, x : [f EXCEPT !.pc = s, !.page = x].pc = s
                     /\ [f EXCEPT !.pc = s, !.page = x].i = f.i
                     /\ [f EXCEPT !.pc = s, !.page = x].base = f.base
         /\ \A s, x, y : [f EXCEPT !.pc = s, !.n = x, !.i = y].pc = s
                        /\ [f EXCEPT !.pc = s, !.n = x, !.i = y].page = f.page
                        /\ [f EXCEPT !.pc = s, !.n = x, !.i = y].base = f.base
         /\ \A s, x, y : [f EXCEPT !.pc = s, !.i = x, !.n = y].pc = s
         /\ \A s, x : [Idle EXCEPT !.pc = s, !.base = x].pc = s
         /\ \A s, x, y : [Idle EXCEPT !.pc = s, !.ptr = x, !.base = y].pc = s
         /\ \A b : Remap(b).pc = "vp_alloc"
         /\ \A p, b, page, n, s : Invalidation(p, b, page, n, s).pc = "invalidate"
                                 /\ Invalidation(p, b, page, n, s).i = 0
                                 /\ Invalidation(p, b, page, n, s).base = b
                                 /\ Invalidation(p, b, page, n, s).n = n
         /\ Idle.pc = "idle"
<1>1. f = [pc |-> f.pc, base |-> f.base, ptr |-> f.ptr, page |-> f.page, i |-> f.i, n |-> f.n,
           then |-> f.then]
  BY DEF Frame
<1> QED
  BY <1>1 DEF Idle, Remap, Invalidation

\* A thread on its own goes from that look at the list to its next step with
\* nothing in between: every step but vp_alloc leaves it elsewhere.
LEMMA NothingFittedStep ==
  ASSUME \A t, u \in Threads : t = u, TypeOK, NothingFitted, [Next]_vars
  PROVE  NothingFitted'
<1>1. CASE UNCHANGED <<op, items, heap>>
  <2>1. \A b : ChunkPages(b)' = ChunkPages(b)
    BY <1>1, HeapSame
  <2> QED
    BY <1>1, <2>1 DEF NothingFitted
<1>2. CASE EnterDune \/ UNCHANGED vars
  BY <1>1, <1>2 DEF EnterDune, vars, allocVars, virtVars
<1>3. ASSUME NEW t \in Threads, op'[t].pc # "no_vm" PROVE NothingFitted'
  BY <1>3 DEF NothingFitted
<1>4. ASSUME NEW t \in Threads, NEW frame, Moves(t, frame), frame.pc # "no_vm"
      PROVE  NothingFitted'
  <2>1. op'[t] = frame
    BY <1>4 DEF Moves, TypeOK
  <2> QED
    BY <1>3, <1>4, <2>1
<1>5. ASSUME NEW t \in Threads, Call(t) PROVE NothingFitted'
  <2>1. CASE UNCHANGED op
    <3>1. op[t] = Idle
      BY <1>5 DEF Call, DedicateVmem, Allocate, AllocateFails, Free, Realloc
    <3> QED
      BY <1>3, <2>1, <3>1, IdleFacts
  <2>2. Idle.pc = "idle" /\ \A b : Remap(b).pc = "vp_alloc"
    BY Typed, FrameFacts
  <2>3. CASE Allocate(t)
    <3>1. UNCHANGED op \/ Moves(t, Idle) \/ \E b : Moves(t, Remap(b))
      BY <2>3 DEF Allocate, Returns
    <3> QED
      BY <1>4, <2>1, <2>2, <3>1
  <2>4. ASSUME NEW a \in live, Free(t, a) PROVE NothingFitted'
    <3>1. \/ \E b : Moves(t, [Idle EXCEPT !.pc = "sysfree", !.base = b])
          \/ \E p, b, page, n, s : Moves(t, Invalidation(p, b, page, n, s))
      BY <2>4, Zenon DEF Free
    <3>2. /\ \A b : [Idle EXCEPT !.pc = "sysfree", !.base = b].pc # "no_vm"
          /\ \A p, b, page, n, s : Invalidation(p, b, page, n, s).pc # "no_vm"
      BY Typed, FrameFacts
    <3> QED
      BY <1>4, <3>1, <3>2, Zenon
  <2>5. ASSUME NEW a \in live, Realloc(t, a) PROVE NothingFitted'
    <3>1. PICK b : Moves(t, [Idle EXCEPT !.pc = "sysrealloc", !.ptr = a.ptr, !.base = b])
      BY <2>5, Zenon DEF Realloc
    <3>2. [Idle EXCEPT !.pc = "sysrealloc", !.ptr = a.ptr, !.base = b].pc = "sysrealloc"
      BY Typed, FrameFacts
    <3> QED
      BY <1>4, <3>1, <3>2
  <2>6. CASE (\E region \in UserRegions : DedicateVmem(t, region)) \/ AllocateFails(t)
    BY <2>1, <2>6 DEF DedicateVmem, AllocateFails, vars
  <2> QED
    BY <1>5, <2>3, <2>4, <2>5, <2>6 DEF Call
<1>6. ASSUME NEW t \in Threads, Step(t) PROVE NothingFitted'
  <2> DEFINE f == op[t]
  <2>0. f \in Frame
    BY Typed
  <2>1. CASE VpAlloc(t)
    <3>1. CASE /\ NoFit(items, ChunkPages(f.base))
               /\ Moves(t, [f EXCEPT !.pc = "no_vm"])
               /\ UNCHANGED items
      <4>1. op'[t] = [f EXCEPT !.pc = "no_vm"]
        BY <3>1 DEF Moves, TypeOK
      <4>2. [f EXCEPT !.pc = "no_vm"].base = f.base
        BY <2>0, FrameFacts
      <4>3. \A b : ChunkPages(b)' = ChunkPages(b)
        BY <2>1, HeapSame DEF VpAlloc, allocVars
      <4>4. NoFit(items, ChunkPages(op[t].base))'
        BY <3>1, <4>1, <4>2, <4>3
      <4> QED
        BY <4>4 DEF NothingFitted
    <3>2. ASSUME NEW x, Moves(t, [f EXCEPT !.pc = "map", !.page = x]) PROVE NothingFitted'
      <4>1. [f EXCEPT !.pc = "map", !.page = x].pc = "map"
        BY <2>0, FrameFacts
      <4> QED
        BY <1>4, <3>2, <4>1
    <3> QED
      BY <2>1, <3>1, <3>2 DEF VpAlloc
  <2>2. ASSUME \/ Moves(t, Idle)
               \/ \E b : Moves(t, Remap(b))
               \/ \E s \in {"once", "dedicate"} : Moves(t, [f EXCEPT !.pc = s])
               \/ f.pc # "no_vm" /\ \E x : Moves(t, [f EXCEPT !.i = x])
               \/ \E x, y : Moves(t, [f EXCEPT !.pc = "unmap", !.n = x, !.i = y])
               \/ \E x, y : Moves(t, [f EXCEPT !.pc = "vp_free", !.i = x, !.n = y])
               \/ \E x : Moves(t, [Idle EXCEPT !.pc = "sysfree", !.base = x])
               \/ \E p, b, page, n, s : Moves(t, Invalidation(p, b, page, n, s))
        PROVE  NothingFitted'
    <3> HIDE DEF f
    <3>1. /\ Idle.pc # "no_vm"
          /\ \A b : Remap(b).pc # "no_vm"
          /\ \A s \in {"once", "dedicate"} : [f EXCEPT !.pc = s].pc # "no_vm"
          /\ f.pc # "no_vm" => \A x : [f EXCEPT !.i = x].pc # "no_vm"
      BY <2>0, FrameFacts
    <3>2. /\ \A x, y : [f EXCEPT !.pc = "unmap", !.n = x, !.i = y].pc # "no_vm"
          /\ \A x, y : [f EXCEPT !.pc = "vp_free", !.i = x, !.n = y].pc # "no_vm"
          /\ \A x : [Idle EXCEPT !.pc = "sysfree", !.base = x].pc # "no_vm"
          /\ \A p, b, page, n, s : Invalidation(p, b, page, n, s).pc # "no_vm"
      BY <2>0, FrameFacts
    <3> QED
      BY <1>4, <2>2, <3>1, <3>2, Zenon
  <2>3. CASE NoVirtualMemory(t) \/ DedicateOnce(t)
    BY <2>2, <2>3 DEF NoVirtualMemory, DedicateOnce, Returns
  <2>4. CASE DedicateEntry(t) \/ DedicateDone(t)
    BY <2>2, <2>4 DEF DedicateEntry, DedicateDone
  <2>5. CASE MapPage(t) \/ MapPageFails(t)
    BY <2>2, <2>5 DEF MapPage, MapPageFails, Returns
  <2>6. CASE UnmapPage(t) \/ GiveBack(t)
    BY <2>2, <2>6 DEF UnmapPage, GiveBack, Returns
  <2>7. CASE Invalidate(t)
    BY <2>2, <2>7 DEF Invalidate, AfterInvalidation, Returns
  <2>8. CASE SysFree(t) \/ SysReallocFails(t) \/ SysReallocToZero(t)
    BY <2>2, <2>8 DEF SysFree, SysReallocFails, SysReallocToZero, Returns
  <2>9. ASSUME NEW c, AfterSysRealloc(t, c) PROVE NothingFitted'
    BY <2>2, <2>9, Zenon DEF AfterSysRealloc, Returns
  <2> QED
    BY <1>6, <2>1, <2>3, <2>4, <2>5, <2>6, <2>7, <2>8, <2>9 DEF Step, SysRealloc
<1> QED
  BY <1>2, <1>5, <1>6 DEF Next

\* Where no span fits there is no run of pages for the alias of the chunk.
LEMMA ExhaustedWhenNothingFits ==
  ASSUME IInv, NothingFitted, NEW t \in Threads, op[t].pc = "no_vm", NEW p \in VirtPages
  PROVE  ~(PageRun(p, Cardinality(Footprint(op[t].base, op[t].base)))
             \subseteq FreePages(items))
<1> DEFINE b == op[t].base
           n == ChunkPages(b)
<1>1. ChunksApart /\ HasChunk(b) /\ items \in Seq(Span) /\ Coalesced(items)
  BY DEF IInv, BasesApart, FreeUnmapped, TypeOK
<1>2. b \in Nat /\ n \in Nat \ {0}
  BY <1>1, ChunkFacts
<1>3. Footprint(b, b) = PageOf(b) .. PageOf(b) + n - 1
  BY <1>1, <1>2, FootprintFacts DEF AliasRange
<1>4. Cardinality(Footprint(b, b)) = n
  <2>1. PICK first \in Nat, last \in Int : first = PageOf(b) /\ last = PageOf(b) + n - 1
    BY <1>2, PageFacts
  <2>2. Cardinality(first .. last) = IF first > last THEN 0 ELSE last - first + 1
    BY FS_Interval
  <2> HIDE DEF n
  <2> QED
    BY <1>2, <1>3, <2>1, <2>2
<1>5. NoFit(items, n)
  BY DEF NothingFitted
<1>6. p \in Int
  BY EntryFacts
<1> HIDE DEF n
<1> QED
  BY <1>1, <1>2, <1>4, <1>5, <1>6, NoFitNoRun

-----------------------------------------------------------------------------
(* The calls to the page tables. *)

CallsNow == [t \in Threads |-> CallOf(t)]

InTables == {"map", "unmap", "invalidate"}

LEMMA CallsAre ==
  ASSUME NEW t \in Threads
  PROVE  /\ op[t].pc = "map" =>
              CallOf(t) = [kind |-> "map", start |-> op[t].page, n |-> ChunkPages(op[t].base),
                           pa |-> PageOf(op[t].base)]
         /\ op[t].pc = "unmap" =>
              CallOf(t) = [kind |-> "undo", start |-> op[t].page, n |-> ChunkPages(op[t].base),
                           pa |-> PageOf(op[t].base)]
         /\ op[t].pc = "invalidate" =>
              CallOf(t) = [kind |-> "invalidate", start |-> op[t].page, n |-> op[t].n, pa |-> 0]
         /\ op[t].pc \notin InTables => CallOf(t) = Flat!NoCall
         /\ op[t].pc \in InTables => CallOf(t) # Flat!NoCall
<1>1. op[t].pc = "map" => CallOf(t).kind = "map"
  BY DEF CallOf
<1>2. op[t].pc = "unmap" => CallOf(t).kind = "undo"
  BY DEF CallOf
<1>3. op[t].pc = "invalidate" => CallOf(t).kind = "invalidate"
  BY DEF CallOf
<1>4. Flat!NoCall.kind = "none"
  BY DEF Flat!NoCall
<1>5. op[t].pc \in InTables => CallOf(t) # Flat!NoCall
  BY <1>1, <1>2, <1>3, <1>4 DEF InTables
<1>6. op[t].pc \notin InTables => CallOf(t) = Flat!NoCall
  BY DEF CallOf, InTables, Flat!NoCall
<1> QED
  BY <1>5, <1>6 DEF CallOf

\* A step of t leaves the frames of the other threads and the chunks of their
\* calls alone.
LEMMA OtherCalls ==
  ASSUME IInv, IInv', NEW t \in Threads, Call(t) \/ Step(t), NEW u \in Threads, u # t
  PROVE  /\ op'[u] = op[u] /\ CallOf(u)' = CallOf(u)
         /\ op[u].pc \in InTables => CallRange(u)' = CallRange(u)
<1>1. TypeOK /\ BasesApart /\ ChunksApart /\ ChunksApart'
  BY DEF IInv
<1>2. \A frame : Moves(t, frame) => op'[u] = op[u]
  BY <1>1 DEF TypeOK, Moves
<1>3. op'[u] = op[u]
  <2>1. Call(t) => UNCHANGED op \/ \E frame : Moves(t, frame)
    BY Zenon DEF Call, DedicateVmem, Allocate, AllocateFails, Free, Realloc, Returns, vars
  <2>2. CASE VpAlloc(t) \/ NoVirtualMemory(t) \/ DedicateOnce(t)
    BY <1>2, <2>2 DEF VpAlloc, NoVirtualMemory, DedicateOnce, Returns
  <2>3. CASE DedicateEntry(t) \/ DedicateDone(t) \/ MapPage(t) \/ MapPageFails(t) \/ UnmapPage(t)
             \/ GiveBack(t)
    BY <1>2, <2>3 DEF DedicateEntry, DedicateDone, MapPage, MapPageFails, UnmapPage, GiveBack,
       Returns
  <2>4. CASE Invalidate(t) \/ SysFree(t) \/ SysReallocFails(t) \/ SysReallocToZero(t)
    BY <1>2, <2>4 DEF Invalidate, AfterInvalidation, SysFree, SysReallocFails, SysReallocToZero,
       Returns
  <2>5. CASE SysRealloc(t)
    BY <1>2, <2>5, Zenon DEF SysRealloc, AfterSysRealloc, Returns
  <2> QED
    BY <1>2, <2>1, <2>2, <2>3, <2>4, <2>5 DEF Step
<1>4. ASSUME op[u].pc # "idle"
      PROVE  ChunkPages(op[u].base)' = ChunkPages(op[u].base)
  <2>1. PICK b : b = op[u].base
    OBVIOUS
  <2>2. HasChunk(b) /\ ChunkAt(b) \in heap /\ ChunkAt(b).base = b
    BY <1>1, <1>4, <2>1, ChunkFacts DEF BasesApart
  <2>3. op[t].pc # "idle" => op[t].base # b
    BY <1>1, <1>4, <2>1 DEF BasesApart
  <2>4. ChunkAt(b) \in heap'
    <3>1. op[t].pc \in {"sysfree", "sysrealloc"} => HasChunk(op[t].base)
      BY <1>1 DEF BasesApart
    <3>2. op[t].pc \in {"sysfree", "sysrealloc"} => ChunkAt(op[t].base).base = op[t].base
      BY <1>1, <3>1, ChunkFacts
    <3>3. Call(t) => heap \subseteq heap'
      BY DEF Call, DedicateVmem, Allocate, AllocateFails, Free, Realloc, vars, allocVars
    <3>4. CASE SysFree(t)
      BY <2>2, <2>3, <3>4 DEF SysFree
    <3>5. CASE SysReallocToZero(t) \/ SysRealloc(t)
      <4>1. op[t].pc = "sysrealloc" /\ heap \ {ChunkAt(op[t].base)} \subseteq heap'
        BY <3>5 DEF SysReallocToZero, SysRealloc
      <4> QED
        BY <2>2, <2>3, <3>2, <4>1
    <3> QED
      BY <2>2, <3>3, <3>4, <3>5 DEF Step, VpAlloc, NoVirtualMemory, DedicateOnce, DedicateEntry,
         DedicateDone, MapPage, MapPageFails, UnmapPage, GiveBack, Invalidate, SysReallocFails,
         allocVars
  <2>5. ChunkPages(b)' = ChunkPages(b)
    BY <1>1, <2>2, <2>4, ChunkStays
  <2> QED
    BY <1>3, <2>1, <2>5
<1>5. op[u].pc \in InTables => op[u].pc # "idle"
  BY DEF InTables
<1>6. op[u].pc \in InTables => CallRange(u)' = CallRange(u)
  BY <1>3, <1>4, <1>5 DEF CallRange, InTables
<1>7. CallOf(u)' = CallOf(u)
  BY <1>3, <1>4 DEF CallOf
<1> QED
  BY <1>3, <1>6, <1>7

LEMMA CallsStep ==
  ASSUME IInv, IInv', NEW t \in Threads, Call(t) \/ Step(t), NEW c, CallOf(t)' = c
  PROVE  CallsNow' = [CallsNow EXCEPT ![t] = c]
<1>1. \A u \in Threads : CallsNow'[u] = [CallsNow EXCEPT ![t] = c][u]
  BY OtherCalls DEF CallsNow
<1> QED
  BY <1>1 DEF CallsNow

\* The pages a call names are among those it owns.
LEMMA NamedPages ==
  ASSUME IInv, NEW t \in Threads
  PROVE  /\ op[t].pc \in InTables => Flat!CallPages(CallOf(t)) \subseteq CallRange(t)
         /\ op[t].pc \notin InTables => Flat!CallPages(CallOf(t)) = {}
         /\ op[t].pc \in {"map", "unmap"} =>
              Flat!CallPages(CallOf(t)) = op[t].page .. op[t].page + ChunkPages(op[t].base) - 1
         /\ op[t].pc = "invalidate" =>
              Flat!CallPages(CallOf(t)) = op[t].page .. op[t].page + op[t].n - 1
<1>1. op[t].page \in Nat /\ op[t].n \in Nat /\ op[t].ptr \in Nat /\ PageOf(op[t].ptr) \in Nat
  BY Typed, PageFacts DEF IInv
<1>2. op[t].pc = "invalidate" => PageOf(op[t].ptr) <= op[t].page
  BY DEF IInv, CallProgress
<1>3. op[t].pc \in {"map", "unmap"} =>
        /\ Flat!CallPages(CallOf(t)) = op[t].page .. op[t].page + ChunkPages(op[t].base) - 1
        /\ CallRange(t) = op[t].page .. op[t].page + ChunkPages(op[t].base) - 1
  BY CallsAre DEF Flat!CallPages, CallRange
<1>4. op[t].pc = "invalidate" =>
        /\ Flat!CallPages(CallOf(t)) = op[t].page .. op[t].page + op[t].n - 1
        /\ CallRange(t) = PageOf(op[t].ptr) .. op[t].page + op[t].n - 1
  BY CallsAre DEF Flat!CallPages, CallRange
<1>5. op[t].pc \notin InTables => Flat!CallPages(CallOf(t)) = {}
  BY CallsAre DEF Flat!CallPages, Flat!NoCall
<1> QED
  BY <1>1, <1>2, <1>3, <1>4, <1>5 DEF InTables

\* A call about a run of pages that dangless may map.
LEMMA RunIsCall ==
  ASSUME NEW start \in Nat, NEW n \in Nat \ {0}, start .. start + n - 1 \subseteq VirtPages
  PROVE  /\ \A pa \in HeapPages :
              [kind |-> "map", start |-> start, n |-> n, pa |-> pa] \in Flat!Calls
         /\ [kind |-> "invalidate", start |-> start, n |-> n, pa |-> 0] \in Flat!Calls
<1>1. IsFiniteSet(VirtPages)
  <2>1. PICK e \in Int : e = (NumEntries + 1) * EntryPages - 1
    BY SizesAssumption
  <2>2. VirtPages = EntryPages .. e
    BY <2>1 DEF VirtPages
  <2> QED
    BY <2>1, <2>2, FS_Interval, SizesAssumption
<1>2. n <= Cardinality(VirtPages) /\ Cardinality(VirtPages) \in Nat
  <2>1. Cardinality(start .. start + n - 1) = n
    <3>1. start + n - 1 \in Int /\ ~(start > start + n - 1) /\ (start + n - 1) - start + 1 = n
      OBVIOUS
    <3> QED
      BY <3>1, FS_Interval
  <2> QED
    BY <1>1, <2>1, FS_Subset, FS_CardinalityType
<1>3. PICK r : r = <<start, n>>
  OBVIOUS
<1>4. start \in VirtPages
  BY start \in start .. start + n - 1
<1>5. r \in VirtPages \X (1 .. Cardinality(VirtPages)) /\ r[1] = start /\ r[2] = n
  BY <1>2, <1>3, <1>4
<1>6. r[1] .. r[1] + r[2] - 1 \subseteq VirtPages
  BY <1>5
<1>7. Flat!Cardinality(VirtPages) = Cardinality(VirtPages)
  BY DEF Flat!Cardinality, Cardinality
<1> QED
  BY <1>5, <1>6, <1>7 DEF Flat!Calls

\* A call whose pages are known to be as it needs them begins.
LEMMA BeginsFlat ==
  ASSUME IInv, IInv', NEW t \in Threads, Call(t) \/ Step(t), pte' = pte,
         op[t].pc \notin InTables, NEW f \in Frame, op'[t] = f, f.i = 0, NEW n \in Nat \ {0},
         \/ f.pc = "map" /\ ChunkPages(op[t].base)' = n
         \/ f.pc = "invalidate" /\ f.n = n
  PROVE  Flat!Begin(t)
<1>1. f.page \in Nat /\ f.base \in HeapUnits /\ f.ptr \in Nat /\ PageOf(f.ptr) \in Nat
      /\ PageOf(f.base) \in HeapPages
  BY PageFacts, HeapPageOf DEF Frame
<1>2. PICK c : c = [kind |-> f.pc, start |-> f.page, n |-> n,
                    pa |-> IF f.pc = "map" THEN PageOf(f.base) ELSE 0]
  OBVIOUS
<1>3. CallOf(t)' = c
  BY <1>2 DEF CallOf
<1> DEFINE pages == f.page .. f.page + n - 1
<1>4. Flat!CallPages(c) = pages /\ c.kind = f.pc
  BY <1>2 DEF Flat!CallPages
<1>5. CallProgress(t)' /\ TypeOK /\ PagesApart'
  BY DEF IInv
<1>6. pages \subseteq CallRange(t)'
  <2>1. CASE f.pc = "map"
    <3>1. CallRange(t)' = f.page .. f.page + n - 1
      BY <2>1 DEF CallRange
    <3> QED
      BY <3>1
  <2>2. CASE f.pc = "invalidate"
    <3>1. CallRange(t)' = PageOf(f.ptr) .. f.page + n - 1
      BY <2>2 DEF CallRange
    <3>2. PageOf(f.ptr) <= f.page
      BY <1>5, <2>2 DEF CallProgress
    <3> QED
      BY <1>1, <3>1, <3>2
  <2> QED
    BY <2>1, <2>2
<1>7. \A p \in pages :
        p \in VirtPages /\ IF f.pc = "map" THEN pte[p] = Unmapped ELSE pte[p] \in HeapPages
  <2> SUFFICES ASSUME NEW p \in pages
               PROVE  /\ p \in VirtPages
                      /\ IF f.pc = "map" THEN pte[p] = Unmapped ELSE pte[p] \in HeapPages
    OBVIOUS
  <2>1. p \in CallRange(t)' /\ f.page <= p /\ ~(p < f.page + f.i) /\ p \in Int
    BY <1>1, <1>6
  <2>2. CASE f.pc = "map"
    BY <1>5, <2>1, <2>2 DEF CallProgress
  <2>3. CASE f.pc = "invalidate"
    BY <1>5, <2>1, <2>3 DEF CallProgress
  <2> QED
    BY <2>2, <2>3
<1>8. c \in Flat!Calls
  BY <1>1, <1>2, <1>7, RunIsCall
<1>9. \A u \in Threads : Flat!CallPages(CallsNow[u]) \cap pages = {}
  <2> SUFFICES ASSUME NEW u \in Threads PROVE Flat!CallPages(CallOf(u)) \cap pages = {}
    BY DEF CallsNow
  <2>1. CASE op[u].pc \notin InTables
    BY <2>1, NamedPages
  <2>2. CASE op[u].pc \in InTables
    <3>1. u # t /\ CallRange(u)' = CallRange(u)
      BY <2>2, OtherCalls
    <3>2. CallRange(u)' \cap CallRange(t)' = {}
      BY <1>5, <3>1 DEF PagesApart
    <3> QED
      BY <1>6, <2>2, <3>1, <3>2, NamedPages
  <2> QED
    BY <2>1, <2>2
<1>10. CallsNow[t] = Flat!NoCall
  BY CallsAre DEF CallsNow
<1>11. CallsNow' = [CallsNow EXCEPT ![t] = c]
  BY <1>3, CallsStep
<1>12. \A p \in pages : IF c.kind = "map" THEN pte[p] = Flat!Unmapped ELSE pte[p] \in Nat
  BY <1>4, <1>7, SizesAssumption DEF Flat!Unmapped, Unmapped, HeapPages
<1> HIDE DEF pages
<1> QED
  BY <1>4, <1>8, <1>9, <1>10, <1>11, <1>12 DEF Flat!Begin, CallsNow

\* A call that stays the same writes one of its pages.
LEMMA ChangesFlat ==
  ASSUME IInv, IInv', NEW t \in Threads, Call(t) \/ Step(t), CallOf(t)' = CallOf(t),
         NEW q \in Flat!CallPages(CallOf(t)),
         pte' = [pte EXCEPT ![q] = Flat!Target(CallOf(t), q)]
  PROVE  Flat!Change(t)
<1>1. CallsNow[t] = CallOf(t)
  BY DEF CallsNow
<1>2. CallsNow' = [CallsNow EXCEPT ![t] = CallOf(t)]
  BY CallsStep
<1>3. CallsNow' = CallsNow
  BY <1>2 DEF CallsNow
<1> QED
  BY <1>1, <1>3 DEF Flat!Change, CallsNow

\* A call returns, at its last write or after it.
LEMMA EndsFlat ==
  ASSUME IInv, IInv', NEW t \in Threads, Call(t) \/ Step(t), op[t].pc \in InTables,
         CallOf(t)' = Flat!NoCall,
         \/ pte' = pte
         \/ \E q \in Flat!CallPages(CallOf(t)) :
              pte' = [pte EXCEPT ![q] = Flat!Target(CallOf(t), q)],
         \A p \in Flat!CallPages(CallOf(t)) : pte'[p] = Flat!Target(CallOf(t), p)
  PROVE  Flat!End(t)
<1>1. CallsNow[t] = CallOf(t) /\ CallOf(t) # Flat!NoCall
  BY CallsAre DEF CallsNow
<1>2. CallsNow' = [CallsNow EXCEPT ![t] = Flat!NoCall]
  BY CallsStep
<1> QED
  BY <1>1, <1>2 DEF Flat!End, CallsNow

\* A step that is not about the page tables.
LEMMA QuietFlat ==
  ASSUME IInv, IInv', NEW t \in Threads, Call(t) \/ Step(t), pte' = pte,
         op[t].pc \notin InTables, op'[t].pc \notin InTables
  PROVE  UNCHANGED Flat!vars
<1>1. CallOf(t) = Flat!NoCall
  BY CallsAre
<1>2. CallOf(t)' = Flat!NoCall
  BY DEF CallOf, InTables, Flat!NoCall
<1>3. CallsNow' = [CallsNow EXCEPT ![t] = CallOf(t)]
  BY <1>1, <1>2, CallsStep
<1>4. CallsNow' = CallsNow
  BY <1>3 DEF CallsNow
<1> QED
  BY <1>4 DEF Flat!vars, CallsNow

\* What is named by the frame and the heap stays what it is with them.
LEMMA CallKept ==
  ASSUME NEW t \in Threads, heap' = heap, op'[t].pc = op[t].pc, op'[t].page = op[t].page,
         op'[t].base = op[t].base, op'[t].n = op[t].n \/ op[t].pc # "invalidate"
  PROVE  CallOf(t)' = CallOf(t)
<1>1. ChunkPages(op[t].base)' = ChunkPages(op[t].base)
  BY DEF ChunkPages, ChunkAt
<1> QED
  BY <1>1 DEF CallOf

LEMMA CallOver ==
  ASSUME NEW t \in Threads, op'[t].pc \notin InTables
  PROVE  CallOf(t)' = Flat!NoCall
  BY DEF CallOf, InTables, Flat!NoCall

\* The frame a thread moves to.
LEMMA MovesTo ==
  ASSUME TypeOK, TypeOK', NEW t \in Threads, NEW f, Moves(t, f)
  PROVE  f \in Frame /\ op'[t] = f
<1>1. op'[t] = f
  BY DEF TypeOK, Moves
<1> QED
  BY <1>1 DEF TypeOK

\* vremap_map hands its pages to pt_map_region.
LEMMA VpAllocFlat ==
  ASSUME IInv, IInv', NEW t \in Threads, VpAlloc(t)
  PROVE  [Flat!Next]_Flat!vars
<1>1. /\ op[t].pc = "vp_alloc" /\ op[t].pc \notin InTables /\ pte' = pte /\ heap' = heap
      /\ Step(t) /\ TypeOK /\ TypeOK' /\ op[t] \in Frame /\ op[t].i = 0
      /\ ChunkPages(op[t].base) \in Nat \ {0}
  <2>1. op[t].pc = "vp_alloc" /\ pte' = pte /\ heap' = heap /\ Step(t)
    BY DEF VpAlloc, allocVars, Step
  <2>2. TypeOK /\ TypeOK' /\ op[t].i = 0
    BY <2>1 DEF IInv, CallProgress
  <2> QED
    BY <2>1, <2>2, InCall DEF InTables, TypeOK
<1>2. ASSUME NEW s, Moves(t, [op[t] EXCEPT !.pc = "map", !.page = s])
      PROVE  Flat!Begin(t)
  <2>1. PICK f : f = [op[t] EXCEPT !.pc = "map", !.page = s]
    OBVIOUS
  <2>2. f.pc = "map" /\ f.i = 0 /\ f.base = op[t].base
    BY <1>1, <2>1, FrameFacts
  <2>3. f \in Frame /\ op'[t] = f
    BY <1>1, <1>2, <2>1, MovesTo
  <2>4. PICK n : n = ChunkPages(op[t].base)
    OBVIOUS
  <2>5. ChunkPages(op[t].base)' = n
    BY <1>1, <2>2, <2>3, <2>4 DEF ChunkPages, ChunkAt
  <2> QED
    BY <1>1, <2>2, <2>3, <2>4, <2>5, BeginsFlat
<1>3. CASE Moves(t, [op[t] EXCEPT !.pc = "no_vm"])
  <2>1. PICK f : f = [op[t] EXCEPT !.pc = "no_vm"]
    OBVIOUS
  <2>2. f.pc = "no_vm" /\ op'[t] = f
    BY <1>1, <1>3, <2>1, MovesTo, FrameFacts
  <2> QED
    BY <1>1, <2>2, QuietFlat DEF InTables
<1>4. \/ \E s : Moves(t, [op[t] EXCEPT !.pc = "map", !.page = s])
      \/ Moves(t, [op[t] EXCEPT !.pc = "no_vm"])
  BY Zenon DEF VpAlloc
<1> QED
  BY <1>2, <1>3, <1>4 DEF Flat!Next

LEMMA MapPageFlat ==
  ASSUME IInv, IInv', NEW t \in Threads, MapPage(t)
  PROVE  [Flat!Next]_Flat!vars
<1>1. /\ op[t].pc = "map" /\ op[t].pc \in InTables /\ heap' = heap /\ Step(t)
      /\ TypeOK /\ TypeOK' /\ CallProgress(t)
  BY DEF MapPage, Step, InTables, IInv
<1>2. PICK base, start, i, n :
        base = op[t].base /\ start = op[t].page /\ i = op[t].i /\ n = ChunkPages(base)
  OBVIOUS
<1>3. /\ start \in Nat /\ i \in Nat /\ n \in Nat \ {0} /\ i < n /\ op[t] \in Frame
      /\ PageOf(base) \in Nat
      /\ CallRange(t) = start .. start + n - 1
  <2>1. PageOf(base) \in HeapPages /\ n \in Nat \ {0}
    BY <1>1, <1>2, InCall
  <2> QED
    BY <1>1, <1>2, <2>1, Typed, SizesAssumption DEF CallProgress, CallRange, HeapPages
<1>4. /\ CallOf(t) = [kind |-> "map", start |-> start, n |-> n, pa |-> PageOf(base)]
      /\ Flat!CallPages(CallOf(t)) = start .. start + n - 1
  BY <1>1, <1>2, CallsAre, NamedPages
<1>5. \A p : Flat!Target(CallOf(t), p) = PageOf(base) + p - start
  BY <1>4 DEF Flat!Target
<1>6. PICK q : q = start + i
  OBVIOUS
<1>7. q \in start .. start + n - 1 /\ PageOf(base) + i = PageOf(base) + q - start
  BY <1>3, <1>6
<1>8. pte' = [pte EXCEPT ![q] = PageOf(base) + i]
  BY <1>2, <1>6 DEF MapPage, BackingPage
<1>9. pte' = [pte EXCEPT ![q] = Flat!Target(CallOf(t), q)]
  BY <1>5, <1>7, <1>8
<1>10. CASE i + 1 < n
  <2>1. PICK f : f = [op[t] EXCEPT !.i = i + 1]
    OBVIOUS
  <2>2. Moves(t, f)
    BY <1>2, <1>10, <2>1 DEF MapPage
  <2>3. op'[t] = f
    BY <1>1, <2>2, MovesTo
  <2>4. f.pc = op[t].pc /\ f.page = op[t].page /\ f.base = op[t].base
    BY <1>3, <2>1, FrameFacts
  <2>5. CallOf(t)' = CallOf(t)
    BY <1>1, <2>3, <2>4, CallKept
  <2>6. Flat!Change(t)
    BY <1>1, <1>4, <1>7, <1>9, <2>5, ChangesFlat
  <2> QED
    BY <2>6 DEF Flat!Next
<1>11. CASE ~(i + 1 < n)
  <2>1. Moves(t, Idle)
    BY <1>2, <1>11 DEF MapPage, Returns
  <2>2. op'[t].pc = "idle"
    BY <1>1, <2>1, MovesTo, FrameFacts
  <2>3. CallOf(t)' = Flat!NoCall
    BY <2>2, CallOver DEF InTables
  <2>4. ASSUME NEW p \in start .. start + n - 1
        PROVE  pte'[p] = Flat!Target(CallOf(t), p)
    <3>1. p \in VirtPages /\ (p < start + i => pte[p] = PageOf(base) + p - start)
      BY <1>1, <1>2, <1>3, <2>4 DEF CallProgress
    <3>2. p < start + i \/ p = q
      BY <1>3, <1>6, <1>11, <2>4
    <3>3. pte'[p] = IF p = q THEN PageOf(base) + q - start ELSE pte[p]
      BY <1>1, <1>7, <1>8, <3>1 DEF TypeOK
    <3> QED
      BY <1>5, <3>1, <3>2, <3>3
  <2>5. Flat!End(t)
    BY <1>1, <1>4, <1>7, <1>9, <2>3, <2>4, EndsFlat
  <2> QED
    BY <2>5 DEF Flat!Next
<1> QED
  BY <1>10, <1>11

\* The call gives up, and has to undo what it mapped.
LEMMA MapPageFailsFlat ==
  ASSUME IInv, IInv', NEW t \in Threads, MapPageFails(t)
  PROVE  Flat!GiveUp(t)
<1>1. op[t].pc = "map" /\ heap' = heap /\ pte' = pte /\ Step(t) /\ TypeOK /\ TypeOK'
  BY DEF MapPageFails, Step, IInv, allocVars
<1>2. PICK f : f = [op[t] EXCEPT !.pc = "unmap", !.n = op[t].i, !.i = 0]
  OBVIOUS
<1>3. f.pc = "unmap" /\ f.page = op[t].page /\ f.base = op[t].base
  BY <1>1, <1>2, Typed, FrameFacts
<1>4. op'[t] = f
  BY <1>1, <1>2, MovesTo DEF MapPageFails
<1>5. PICK n, pa : n = ChunkPages(op[t].base) /\ pa = PageOf(op[t].base)
  OBVIOUS
<1>6. CallOf(t) = [kind |-> "map", start |-> op[t].page, n |-> n, pa |-> pa]
  BY <1>1, <1>5, CallsAre
<1>7. ChunkPages(op[t].base)' = n
  BY <1>1, <1>3, <1>4, <1>5 DEF ChunkPages, ChunkAt
<1>8. CallOf(t)' = [kind |-> "undo", start |-> op[t].page, n |-> n, pa |-> pa]
  BY <1>3, <1>4, <1>5, <1>7 DEF CallOf
<1>9. CallOf(t)' = [CallOf(t) EXCEPT !.kind = "undo"]
  BY <1>6, <1>8
<1>10. CallsNow' = [CallsNow EXCEPT ![t] = [CallOf(t) EXCEPT !.kind = "undo"]]
  BY <1>1, <1>9, CallsStep
<1>11. CallsNow[t] = CallOf(t) /\ CallOf(t).kind = "map"
  BY <1>6 DEF CallsNow
<1>12. CallsNow' = [CallsNow EXCEPT ![t].kind = "undo"]
  BY <1>10, <1>11
<1> QED
  BY <1>1, <1>11, <1>12 DEF Flat!GiveUp, CallsNow

LEMMA UnmapPageFlat ==
  ASSUME IInv, IInv', NEW t \in Threads, UnmapPage(t)
  PROVE  [Flat!Next]_Flat!vars
<1>1. /\ op[t].pc = "unmap" /\ op[t].pc \in InTables /\ heap' = heap /\ Step(t)
      /\ TypeOK /\ TypeOK' /\ CallProgress(t)
  BY DEF UnmapPage, Step, InTables, IInv, allocVars
<1>2. PICK base, start, i, m, n :
        /\ base = op[t].base /\ start = op[t].page /\ i = op[t].i /\ m = op[t].n
        /\ n = ChunkPages(base)
  OBVIOUS
<1>3. /\ start \in Nat /\ i \in Nat /\ m \in Nat /\ n \in Nat \ {0} /\ op[t] \in Frame
      /\ i <= m /\ m < n
      /\ CallRange(t) = start .. start + n - 1
  BY <1>1, <1>2, Typed, InCall DEF CallProgress, CallRange
<1>4. /\ CallOf(t) = [kind |-> "undo", start |-> start, n |-> n, pa |-> PageOf(base)]
      /\ Flat!CallPages(CallOf(t)) = start .. start + n - 1
  BY <1>1, <1>2, CallsAre, NamedPages
<1>5. \A p : Flat!Target(CallOf(t), p) = Unmapped
  BY <1>4 DEF Flat!Target, Flat!Unmapped, Unmapped
<1>6. CASE i < m
  <2>1. PICK f, q : f = [op[t] EXCEPT !.i = i + 1] /\ q = start + i
    OBVIOUS
  <2>2. Moves(t, f) /\ pte' = [pte EXCEPT ![q] = Unmapped]
    BY <1>2, <1>6, <2>1 DEF UnmapPage
  <2>3. op'[t] = f
    BY <1>1, <2>2, MovesTo
  <2>4. f.pc = op[t].pc /\ f.page = op[t].page /\ f.base = op[t].base
    BY <1>3, <2>1, FrameFacts
  <2>5. CallOf(t)' = CallOf(t)
    BY <1>1, <2>3, <2>4, CallKept
  <2>6. q \in start .. start + n - 1
    BY <1>3, <1>6, <2>1
  <2>7. Flat!Change(t)
    BY <1>1, <1>4, <1>5, <2>2, <2>5, <2>6, ChangesFlat
  <2> QED
    BY <2>7 DEF Flat!Next
<1>7. CASE ~(i < m)
  <2>1. Moves(t, [op[t] EXCEPT !.pc = "vp_free", !.i = 0, !.n = 0]) /\ pte' = pte
    BY <1>2, <1>7 DEF UnmapPage
  <2>2. op'[t].pc = "vp_free"
    <3>1. PICK f : f = [op[t] EXCEPT !.pc = "vp_free", !.i = 0, !.n = 0]
      OBVIOUS
    <3>2. f.pc = "vp_free"
      BY <1>3, <3>1, FrameFacts
    <3> QED
      BY <1>1, <2>1, <3>1, <3>2, MovesTo
  <2>3. CallOf(t)' = Flat!NoCall
    BY <2>2, CallOver DEF InTables
  <2>4. ASSUME NEW p \in start .. start + n - 1
        PROVE  pte'[p] = Flat!Target(CallOf(t), p)
    <3>1. ~(start + i <= p /\ p < start + m)
      BY <1>3, <1>7, <2>4
    <3>2. pte[p] = Unmapped
      BY <1>1, <1>2, <1>3, <2>4, <3>1 DEF CallProgress
    <3> QED
      BY <1>5, <2>1, <3>2
  <2>5. Flat!End(t)
    BY <1>1, <1>4, <2>1, <2>3, <2>4, EndsFlat
  <2> QED
    BY <2>5 DEF Flat!Next
<1> QED
  BY <1>6, <1>7

LEMMA InvalidateFlat ==
  ASSUME IInv, IInv', NEW t \in Threads, Invalidate(t)
  PROVE  [Flat!Next]_Flat!vars
<1>1. /\ op[t].pc = "invalidate" /\ op[t].pc \in InTables /\ heap' = heap /\ Step(t)
      /\ TypeOK /\ TypeOK' /\ CallProgress(t)
  BY DEF Invalidate, Step, InTables, IInv
<1>2. PICK start, i, n : start = op[t].page /\ i = op[t].i /\ n = op[t].n
  OBVIOUS
<1>3. /\ start \in Nat /\ i \in Nat /\ n \in Nat /\ op[t] \in Frame /\ i <= n
  BY <1>1, <1>2, Typed DEF CallProgress
<1>4. /\ CallOf(t) = [kind |-> "invalidate", start |-> start, n |-> n, pa |-> 0]
      /\ Flat!CallPages(CallOf(t)) = start .. start + n - 1
      /\ Flat!CallPages(CallOf(t)) \subseteq CallRange(t)
  BY <1>1, <1>2, CallsAre, NamedPages
<1>5. \A p : Flat!Target(CallOf(t), p) = Invalidated
  BY <1>4 DEF Flat!Target, Flat!Invalidated, Invalidated
<1>6. CASE i < n
  <2>1. PICK f, q : f = [op[t] EXCEPT !.i = i + 1] /\ q = start + i
    OBVIOUS
  <2>2. Moves(t, f) /\ pte' = [pte EXCEPT ![q] = Invalidated]
    BY <1>2, <1>6, <2>1 DEF Invalidate
  <2>3. op'[t] = f
    BY <1>1, <2>2, MovesTo
  <2>4. f.pc = op[t].pc /\ f.page = op[t].page /\ f.base = op[t].base /\ f.n = op[t].n
    BY <1>3, <2>1, FrameFacts
  <2>5. CallOf(t)' = CallOf(t)
    BY <1>1, <2>3, <2>4, CallKept
  <2>6. q \in start .. start + n - 1
    BY <1>3, <1>6, <2>1
  <2>7. Flat!Change(t)
    BY <1>1, <1>4, <1>5, <2>2, <2>5, <2>6, ChangesFlat
  <2> QED
    BY <2>7 DEF Flat!Next
<1>7. CASE ~(i < n)
  <2>1. AfterInvalidation(t) /\ pte' = pte
    BY <1>2, <1>7 DEF Invalidate
  <2>2. op'[t].pc \in {"sysfree", "vp_alloc", "idle"}
    <3>1. PICK f : f = [Idle EXCEPT !.pc = "sysfree", !.base = op[t].base]
      OBVIOUS
    <3>2. Moves(t, f) \/ Moves(t, Remap(op[t].base)) \/ Moves(t, Idle)
      BY <2>1, <3>1 DEF AfterInvalidation, Returns
    <3>3. f.pc = "sysfree" /\ Remap(op[t].base).pc = "vp_alloc" /\ Idle.pc = "idle"
      BY <1>3, <3>1, FrameFacts
    <3> QED
      BY <1>1, <3>2, <3>3, MovesTo
  <2>3. CallOf(t)' = Flat!NoCall
    BY <2>2, CallOver DEF InTables
  <2>4. ASSUME NEW p \in start .. start + n - 1
        PROVE  pte'[p] = Flat!Target(CallOf(t), p)
    <3>1. start <= p /\ p < start + i /\ p \in CallRange(t)
      BY <1>3, <1>4, <1>7, <2>4
    <3>2. pte[p] = Invalidated
      BY <1>1, <1>2, <3>1 DEF CallProgress
    <3> QED
      BY <1>5, <2>1, <3>2
  <2>5. Flat!End(t)
    BY <1>1, <1>4, <2>1, <2>3, <2>4, EndsFlat
  <2> QED
    BY <2>5 DEF Flat!Next
<1> QED
  BY <1>6, <1>7

\* A call that has to invalidate pages begins to.
LEMMA InvalidationFlat ==
  ASSUME IInv, IInv', NEW t \in Threads, Call(t) \/ Step(t), pte' = pte,
         op[t].pc \notin InTables,
         NEW p, NEW b, NEW page, NEW n \in Nat \ {0}, NEW s,
         Moves(t, Invalidation(p, b, page, n, s))
  PROVE  Flat!Begin(t)
<1>1. PICK f : f = Invalidation(p, b, page, n, s)
  OBVIOUS
<1>2. TypeOK /\ TypeOK'
  BY DEF IInv
<1>3. f \in Frame /\ op'[t] = f
  BY <1>1, <1>2, MovesTo
<1>4. op[t] \in Frame
  BY <1>2 DEF TypeOK
<1>5. f.pc = "invalidate" /\ f.i = 0 /\ f.n = n
  BY <1>1, <1>4, FrameFacts
<1> QED
  BY <1>3, <1>5, BeginsFlat

LEMMA FreeFlat ==
  ASSUME IInv, IInv', NEW t \in Threads, NEW a \in live, Free(t, a)
  PROVE  [Flat!Next]_Flat!vars
<1>1. /\ Call(t) /\ op[t] = Idle /\ op[t].pc \notin InTables /\ heap' = heap /\ pte' = pte
      /\ TypeOK /\ TypeOK' /\ ChunksApart /\ BasesApart'
  BY IdleFacts DEF Free, Call, InTables, IInv, virtVars
<1>2. PICK b : b = Resolve(a.ptr)
  OBVIOUS
<1>3. PICK f : f = Invalidation(a.ptr, b, PageOf(a.ptr), ChunkPages(b), "sysfree")
  OBVIOUS
<1>4. PICK g : g = [Idle EXCEPT !.pc = "sysfree", !.base = a.ptr]
  OBVIOUS
<1>5. op[t] \in Frame
  BY <1>1 DEF TypeOK
<1>6. f.pc = "invalidate" /\ f.base = b /\ g.pc = "sysfree"
  BY <1>3, <1>4, <1>5, FrameFacts
<1>7. Moves(t, f) \/ Moves(t, g)
  BY <1>2, <1>3, <1>4 DEF Free
<1>8. CASE Moves(t, f)
  <2>1. op'[t] = f
    BY <1>1, <1>8, MovesTo
  <2>2. HasChunk(b)
    BY <1>1, <1>6, <2>1 DEF BasesApart, HasChunk
  <2>3. PICK n \in Nat \ {0} : n = ChunkPages(b)
    BY <1>1, <2>2, ChunkFacts
  <2>4. Flat!Begin(t)
    BY <1>1, <1>3, <1>8, <2>3, InvalidationFlat
  <2> QED
    BY <2>4 DEF Flat!Next
<1>9. CASE Moves(t, g)
  <2>1. op'[t].pc = "sysfree"
    BY <1>1, <1>6, <1>9, MovesTo
  <2> QED
    BY <1>1, <2>1, QuietFlat DEF InTables
<1> QED
  BY <1>7, <1>8, <1>9

LEMMA SysReallocFlat ==
  ASSUME IInv, IInv', NEW t \in Threads, SysRealloc(t)
  PROVE  [Flat!Next]_Flat!vars
<1>1. /\ Step(t) /\ op[t].pc = "sysrealloc" /\ op[t].pc \notin InTables /\ pte' = pte
      /\ TypeOK /\ TypeOK' /\ ChunksApart /\ HasChunk(op[t].base) /\ op[t] \in Frame
  <2>1. Step(t) /\ op[t].pc = "sysrealloc" /\ pte' = pte
    BY DEF SysRealloc, Step, virtVars
  <2> QED
    BY <2>1 DEF IInv, BasesApart, TypeOK, InTables
<1>2. PICK c, chunks : c \in ChunksFor(FALSE, chunks) /\ AfterSysRealloc(t, c)
  BY DEF SysRealloc
<1>3. c.base \in Nat /\ c.len \in Nat \ {0}
  <2> DEFINE all == {Chunk(base, len, FALSE) : base \in HeapUnits, len \in 1 .. MaxLen}
  <2>1. ChunksFor(FALSE, chunks) = {d \in all : FitsHeap(d, chunks) /\ (FALSE => d.len = 1)}
    BY DEF ChunksFor
  <2>2. \A d \in all : d.base \in HeapUnits /\ d.len \in 1 .. MaxLen
    BY DEF Chunk
  <2> HIDE DEF all
  <2>3. c.base \in HeapUnits /\ c.len \in 1 .. MaxLen
    BY <1>2, <2>1, <2>2
  <2> QED
    BY <2>3, HeapPageOf, SizesAssumption
<1>4. PICK p, base, old, new :
        /\ p = op[t].ptr /\ base = op[t].base /\ old = ChunkPages(base)
        /\ new = SpannedPages(c.base, c.len)
  OBVIOUS
<1>5. old \in Nat \ {0} /\ new \in Nat \ {0}
  BY <1>1, <1>3, <1>4, ChunkFacts, SpannedFacts
<1>6. \/ Moves(t, Idle)
      \/ Moves(t, Remap(c.base))
      \/ /\ new < old
         /\ Moves(t, Invalidation(p, base, PageOf(RoundUp(p + c.len)), old - new, "return"))
      \/ Moves(t, Invalidation(p, c.base, PageOf(p), old, "vp_alloc"))
  BY <1>2, <1>4, Zenon DEF AfterSysRealloc, Returns
<1>7. CASE Moves(t, Idle) \/ Moves(t, Remap(c.base))
  <2>1. Idle.pc = "idle" /\ Remap(c.base).pc = "vp_alloc"
    BY <1>1, FrameFacts
  <2>2. op'[t].pc \in {"idle", "vp_alloc"}
    BY <1>1, <1>7, <2>1, MovesTo
  <2> QED
    BY <1>1, <2>2, QuietFlat DEF InTables
<1>8. ASSUME NEW b, NEW page, NEW n, n \in Nat \ {0}, NEW s,
             Moves(t, Invalidation(p, b, page, n, s))
      PROVE  [Flat!Next]_Flat!vars
  <2>1. Flat!Begin(t)
    BY <1>1, <1>8, InvalidationFlat
  <2> QED
    BY <2>1 DEF Flat!Next
<1>9. CASE /\ new < old
           /\ Moves(t, Invalidation(p, base, PageOf(RoundUp(p + c.len)), old - new, "return"))
  <2>1. PICK n \in Nat \ {0} : n = old - new
    BY <1>5, <1>9
  <2> QED
    BY <1>8, <1>9, <2>1
<1>10. CASE Moves(t, Invalidation(p, c.base, PageOf(p), old, "vp_alloc"))
  BY <1>5, <1>8, <1>10
<1> QED
  BY <1>6, <1>7, <1>9, <1>10

\* The other steps have nothing to do with the page tables.
LEMMA QuietSteps ==
  ASSUME IInv, IInv', NEW t \in Threads,
         \/ \E region \in UserRegions : DedicateVmem(t, region)
         \/ Allocate(t) \/ AllocateFails(t) \/ \E a \in live : Realloc(t, a)
         \/ NoVirtualMemory(t) \/ DedicateOnce(t) \/ DedicateEntry(t) \/ DedicateDone(t)
         \/ GiveBack(t) \/ SysFree(t) \/ SysReallocFails(t) \/ SysReallocToZero(t)
  PROVE  UNCHANGED Flat!vars
<1>1. TypeOK /\ TypeOK' /\ op[t] \in Frame /\ Idle.pc = "idle"
  BY IdleFacts DEF IInv, TypeOK
<1>2. (Call(t) \/ Step(t)) /\ pte' = pte
  BY DEF Call, Step, DedicateVmem, Allocate, AllocateFails, Realloc, NoVirtualMemory, DedicateOnce,
     DedicateEntry, DedicateDone, GiveBack, SysFree, SysReallocFails, SysReallocToZero, vars,
     virtVars
<1>3. op[t].pc \notin InTables
  BY <1>1 DEF DedicateVmem, Allocate, AllocateFails, Realloc, NoVirtualMemory, DedicateOnce,
     DedicateEntry, DedicateDone, GiveBack, SysFree, SysReallocFails, SysReallocToZero, InTables
<1>4. op'[t].pc \notin InTables
  <2>1. ASSUME NEW s, Moves(t, [op[t] EXCEPT !.pc = s]) PROVE op'[t].pc = s
    <3>1. PICK f : f = [op[t] EXCEPT !.pc = s]
      OBVIOUS
    <3>2. f.pc = s
      BY <1>1, <3>1, FrameFacts
    <3> QED
      BY <1>1, <2>1, <3>1, <3>2, MovesTo
  <2>2. ASSUME NEW x, Moves(t, [op[t] EXCEPT !.i = x]) PROVE op'[t].pc = op[t].pc
    <3>1. PICK f : f = [op[t] EXCEPT !.i = x]
      OBVIOUS
    <3>2. f.pc = op[t].pc
      BY <1>1, <3>1, FrameFacts
    <3> QED
      BY <1>1, <2>2, <3>1, <3>2, MovesTo
  <2>3. \A b : Moves(t, Remap(b)) => op'[t].pc = "vp_alloc"
    BY <1>1, MovesTo, FrameFacts
  <2>4. Moves(t, Idle) => op'[t].pc = "idle"
    BY <1>1, MovesTo
  <2>5. ASSUME NEW x, NEW y, Moves(t, [Idle EXCEPT !.pc = "sysrealloc", !.ptr = x, !.base = y])
        PROVE  op'[t].pc = "sysrealloc"
    <3>1. PICK f : f = [Idle EXCEPT !.pc = "sysrealloc", !.ptr = x, !.base = y]
      OBVIOUS
    <3>2. f.pc = "sysrealloc"
      BY <1>1, <3>1, FrameFacts
    <3> QED
      BY <1>1, <2>5, <3>1, <3>2, MovesTo
  <2>6. CASE UNCHANGED op
    BY <1>3, <2>6
  <2>7. CASE Allocate(t) \/ NoVirtualMemory(t) \/ DedicateOnce(t) \/ DedicateDone(t) \/ GiveBack(t)
             \/ SysFree(t) \/ SysReallocFails(t) \/ SysReallocToZero(t)
    <3>1. \/ Moves(t, [op[t] EXCEPT !.pc = "once"])
          \/ Moves(t, [op[t] EXCEPT !.pc = "dedicate"])
          \/ \E b : Moves(t, Remap(b))
          \/ Moves(t, Idle)
          \/ UNCHANGED op
      BY <2>7, Zenon DEF Allocate, NoVirtualMemory, DedicateOnce, DedicateDone, GiveBack, SysFree,
         SysReallocFails, SysReallocToZero, Returns
    <3> QED
      BY <2>1, <2>3, <2>4, <2>6, <3>1 DEF InTables
  <2>8. CASE DedicateEntry(t)
    BY <1>3, <2>2, <2>8 DEF DedicateEntry
  <2>9. CASE \E a \in live : Realloc(t, a)
    <3>1. \E x, y : Moves(t, [Idle EXCEPT !.pc = "sysrealloc", !.ptr = x, !.base = y])
      BY <2>9, Zenon DEF Realloc
    <3> QED
      BY <2>5, <3>1 DEF InTables
  <2>10. (\E region \in UserRegions : DedicateVmem(t, region)) \/ AllocateFails(t) => UNCHANGED op
    BY DEF DedicateVmem, AllocateFails, vars
  <2> QED
    BY <2>6, <2>7, <2>8, <2>9, <2>10
<1> QED
  BY <1>2, <1>3, <1>4, QuietFlat

LEMMA FlatStep ==
  ASSUME IInv, IInv', [Next]_vars
  PROVE  [Flat!Next]_Flat!vars
<1>1. CASE UNCHANGED <<op, pte, heap>>
  <2>1. \A t \in Threads : CallOf(t)' = CallOf(t)
    BY <1>1 DEF CallOf, ChunkPages, ChunkAt
  <2> QED
    BY <1>1, <2>1 DEF Flat!vars
<1>2. ASSUME NEW t \in Threads, Call(t) PROVE [Flat!Next]_Flat!vars
  <2>1. CASE \E a \in live : Free(t, a)
    BY <2>1, FreeFlat
  <2>2. CASE ~ \E a \in live : Free(t, a)
    <3>1. UNCHANGED Flat!vars
      BY <1>2, <2>2, QuietSteps DEF Call
    <3> QED
      BY <3>1
  <2> QED
    BY <2>1, <2>2
<1>3. ASSUME NEW t \in Threads, Step(t) PROVE [Flat!Next]_Flat!vars
  <2>1. CASE VpAlloc(t) \/ MapPage(t) \/ UnmapPage(t) \/ Invalidate(t) \/ SysRealloc(t)
    BY <2>1, VpAllocFlat, MapPageFlat, UnmapPageFlat, InvalidateFlat, SysReallocFlat
  <2>2. CASE MapPageFails(t)
    <3>1. Flat!GiveUp(t)
      BY <2>2, MapPageFailsFlat
    <3> QED
      BY <3>1 DEF Flat!Next
  <2>3. CASE \/ NoVirtualMemory(t) \/ DedicateOnce(t) \/ DedicateEntry(t) \/ DedicateDone(t)
             \/ GiveBack(t) \/ SysFree(t) \/ SysReallocFails(t) \/ SysReallocToZero(t)
    <3>1. UNCHANGED Flat!vars
      BY <2>3, QuietSteps
    <3> QED
      BY <3>1
  <2> QED
    BY <1>3, <2>1, <2>2, <2>3 DEF Step
<1>4. CASE EnterDune
  BY <1>1, <1>4 DEF EnterDune, allocVars, virtVars
<1>5. CASE UNCHANGED vars
  BY <1>1, <1>5 DEF vars
<1> QED
  BY <1>2, <1>3, <1>4, <1>5 DEF Next

LEMMA FlatInit ==
  ASSUME Init
  PROVE  Flat!Init
<1>1. \A t \in Threads : CallOf(t) = Flat!NoCall
  BY IdleFacts, CallsAre DEF Init, InTables
<1>2. pte = [p \in VirtPages |-> Flat!Unmapped]
  BY DEF Init, Unmapped, Flat!Unmapped
<1> QED
  BY <1>1, <1>2 DEF Flat!Init

-----------------------------------------------------------------------------
(* The theorems. *)

\* What each state says of the ownership of chunks and pages, and of how far
\* each call has got, survives every step of every thread: dangless_malloc.c,
\* virtual_remap.c and virtmem_alloc.c keep it, in any interleaving.
THEOREM OwnershipInvariant ==
  ASSUME RegionsApart
  PROVE  Spec => []IInv
<1>1. Init => IInv
  BY InitIInv
<1>2. IInv /\ [Next]_vars => IInv'
  BY NextIInv
<1> QED
  BY <1>1, <1>2, PTL DEF Spec

\* The state keeps its types for any number of threads and any sizes.
THEOREM DanglessTypeCorrect ==
  ASSUME RegionsApart
  PROVE  Spec => []TypeOK
<1>1. IInv => TypeOK
  BY DEF IInv
<1> QED
  BY <1>1, OwnershipInvariant, PTL

\* A page through which memory can be reached belongs to a pointer the program
\* holds or to a call in progress, or realloc(p, 0) left it behind: free,
\* realloc and a failed mapping leave no alias.
THEOREM OnlyReallocToZeroDangles ==
  ASSUME RegionsApart
  PROVE  Spec => []OnlyAbandonedDangle
<1>1. IInv => OnlyAbandonedDangle
  BY DangleFromIInv
<1> QED
  BY <1>1, OwnershipInvariant, PTL

\* A program that never calls realloc(p, 0) has no dangling pointer that still
\* reaches memory.
THEOREM NothingDangles ==
  ASSUME RegionsApart, ~ReallocToZero
  PROVE  Spec => []NoDanglingAlias
<1> DEFINE NoneLeft == abandoned = {}
<1>1. Init => NoneLeft
  BY DEF Init
<1>2. NoneLeft /\ [Next]_vars => NoneLeft'
  <2> SUFFICES ASSUME abandoned = {}, [Next]_vars PROVE abandoned' = {}
    OBVIOUS
  <2>1. CASE EnterDune \/ UNCHANGED vars
    BY <2>1 DEF EnterDune, vars
  <2>2. ASSUME NEW t \in Threads, Call(t) PROVE abandoned' = {}
    BY <2>2 DEF Call, DedicateVmem, Allocate, AllocateFails, Free, Realloc, vars
  <2>3. ASSUME NEW t \in Threads, Step(t) PROVE abandoned' = {}
    BY <2>3 DEF Step, VpAlloc, NoVirtualMemory, DedicateOnce, DedicateEntry, DedicateDone,
       MapPage, MapPageFails, UnmapPage, GiveBack, Invalidate, SysFree, SysReallocFails,
       SysReallocToZero, SysRealloc
  <2> QED
    BY <2>1, <2>2, <2>3 DEF Next
<1>3. OnlyAbandonedDangle /\ NoneLeft => NoDanglingAlias
  <2>1. \A p : HasOwner(p) \in BOOLEAN
    BY Zenon DEF HasOwner
  <2> QED
    BY <2>1 DEF OnlyAbandonedDangle, NoDanglingAlias
<1> HIDE DEF NoneLeft
<1> QED
  BY <1>1, <1>2, <1>3, OnlyReallocToZeroDangles, PTL DEF Spec

\* Every pointer the program holds reaches all of its own chunk and no other
\* pointer stands for that chunk, whatever other threads free or reallocate.
THEOREM PointersReachTheirMemory ==
  ASSUME RegionsApart
  PROVE  Spec => []LivePointersWork
<1>1. IInv => LivePointersWork
  BY PointersFromIInv
<1> QED
  BY <1>1, OwnershipInvariant, PTL

\* A virtual page is free, or in one alias, or in the hands of one call; pages
\* of the program's entries that it did not dedicate are none of these.
THEOREM PagesOwnedOnce ==
  ASSUME RegionsApart
  PROVE  Spec => []PagesHaveOneOwner
<1>1. IInv => PagesHaveOneOwner
  BY OwnersFromIInv
<1> QED
  BY <1>1, OwnershipInvariant, PTL

\* No path through malloc, free or realloc loses a chunk of the system
\* allocator, but for requests of zero bytes.
THEOREM NoChunkLost ==
  ASSUME RegionsApart
  PROVE  Spec => []ChunksReachable
<1>1. IInv => ChunksReachable
  BY ChunksFromIInv
<1> QED
  BY <1>1, OwnershipInvariant, PTL

\* sysfree is called once for a chunk, when no pointer stands for it any more.
THEOREM ChunksFreedOnce ==
  ASSUME RegionsApart
  PROVE  Spec => []SysFreeGetsChunk
<1>1. IInv => SysFreeGetsChunk
  BY ChunksFromIInv
<1> QED
  BY <1>1, OwnershipInvariant, PTL

\* What dangless asserts holds, in builds without assertions as well: pt_map_page
\* replaces no valid entry, and virtual_invalidate is called for virtual pages
\* that stay valid until it comes to them.
THEOREM AssertionsNeverFail ==
  ASSUME RegionsApart
  PROVE  Spec => []AssertionsHold
<1>1. IInv => AssertionsHold
  BY AssertsFromIInv DEF AssertionsHold
<1> QED
  BY <1>1, OwnershipInvariant, PTL

\* A page that was invalidated stays so and never becomes free again: a
\* dangling pointer faults for as long as the program runs.
THEOREM PagesRetireForEver ==
  ASSUME RegionsApart
  PROVE  Spec => RetiredForEver
<1>1. IInv /\ IInv' /\ [Next]_vars
        => [\A p \in VirtPages :
              pte[p] = Invalidated => pte'[p] = Invalidated /\ p \notin FreePages(items')]_vars
  BY RetiredFromIInv
<1> QED
  BY <1>1, OwnershipInvariant, PTL DEF Spec, RetiredForEver

\* A program with one thread gets an unprotected pointer for want of virtual
\* memory only when the free list has no run of pages for its alias, and what
\* dangless may dedicate has been dedicated.
THEOREM FallsBackOnlyExhausted ==
  ASSUME RegionsApart, \A t, u \in Threads : t = u
  PROVE  Spec => FallbackMeansExhausted
<1> DEFINE Exhausted ==
             \A t \in Threads : FallsBack(t) =>
               /\ \A p \in VirtPages :
                    ~(PageRun(p, Cardinality(Footprint(op[t].base, op[t].base)))
                        \subseteq FreePages(items))
               /\ AutoDedicate => happened
<1>1. Init => NothingFitted
  BY IdleFacts DEF Init, NothingFitted
<1>2. IInv /\ NothingFitted /\ [Next]_vars => NothingFitted'
  <2>1. IInv => TypeOK
    BY DEF IInv
  <2> QED
    BY <2>1, NothingFittedStep
<1>3. IInv /\ NothingFitted /\ [Next]_vars => [Exhausted]_vars
  <2> SUFFICES ASSUME IInv, NothingFitted, [Next]_vars, NEW t \in Threads, FallsBack(t)
               PROVE  /\ \A p \in VirtPages :
                           ~(PageRun(p, Cardinality(Footprint(op[t].base, op[t].base)))
                               \subseteq FreePages(items))
                      /\ AutoDedicate => happened
    OBVIOUS
  <2>1. op[t].pc = "no_vm" /\ op'[t].pc = "idle"
    BY DEF FallsBack
  <2>2. NoVirtualMemory(t)
    <3>1. op'[t] # op[t] /\ op[t] # Idle
      BY <2>1, IdleFacts
    <3>2. PICK u \in Threads : Call(u) \/ Step(u)
      BY <3>1 DEF Next, EnterDune, vars
    <3>3. u = t
      OBVIOUS
    <3>4. ~Call(t)
      BY <3>1 DEF Call, DedicateVmem, Allocate, AllocateFails, Free, Realloc
    <3> QED
      BY <2>1, <3>2, <3>3, <3>4 DEF Step, VpAlloc, DedicateOnce, DedicateEntry, DedicateDone,
         MapPage, MapPageFails, UnmapPage, GiveBack, Invalidate, SysFree, SysReallocFails,
         SysReallocToZero, SysRealloc
  <2>3. AutoDedicate => happened
    <3>1. CASE AutoDedicate /\ ~happened
      <4>1. op'[t] = [op[t] EXCEPT !.pc = "once"]
        BY <2>2, <3>1 DEF NoVirtualMemory, Moves, IInv, TypeOK
      <4>2. op'[t].pc = "once"
        BY <4>1, Typed, FrameFacts DEF IInv
      <4> QED
        BY <2>1, <4>2
    <3> QED
      BY <3>1, SwitchesAssumption DEF IInv, TypeOK
  <2> QED
    BY <2>1, <2>3, ExhaustedWhenNothingFits
<1> HIDE DEF Exhausted
<1>4. Spec => [][Exhausted]_vars
  BY <1>1, <1>2, <1>3, OwnershipInvariant, PTL DEF Spec
<1> QED
  BY <1>4 DEF Exhausted, FallbackMeansExhausted

\* The allocator keeps to what the page tables ask of their callers, and asks no
\* more of them than they promise: together with TablesImplementFlatSpace of
\* PageTable_proofs, what is proved of an allocator that writes entries holds of
\* one that walks the tables.
THEOREM UsesFlatSpace ==
  ASSUME RegionsApart
  PROVE  Spec => UsesAddressSpace
<1>1. Init => Flat!Init
  BY FlatInit
<1>2. IInv /\ IInv' /\ [Next]_vars => [Flat!Next]_Flat!vars
  BY FlatStep
<1> QED
  BY <1>1, <1>2, OwnershipInvariant, PTL DEF Spec, UsesAddressSpace, Flat!Spec
=============================================================================
