------------------------------ MODULE BootProof -------------------------------
(***************************************************************************)
(* bootmain loads every kernel that kernel.ld can lay out, whatever the    *)
(* sizes of its segments, of a sector and of the memory: reading whole     *)
(* sectors overwrites neither the header nor what is already loaded.       *)
(***************************************************************************)
EXTENDS Boot, TLAPS

Header == [paddr : Nat, filesz : Nat, memsz : Nat, off : Nat]

\* The sectors that hold segment s, and what they occupy.
FirstSector(s) == s.paddr \div SECTSIZE
LastSector(s) == (s.paddr + s.memsz - 1) \div SECTSIZE
Lo(s) == FirstSector(s) * SECTSIZE
Hi(s) == (LastSector(s) + 1) * SECTSIZE

\* The header is in memory.
HeaderIntact == \A x \in ELF .. ELF + ELFSIZE - 1 : mem[x] = x - ELF

\* Segment s is in memory.
InMemory(s) ==
  \A k \in 0 .. s.memsz - 1 : mem[s.paddr + k] = IF k < s.filesz THEN s.off + k ELSE Zero

TypeInv ==
  /\ phs \in Images
  /\ pc \in {"header", "next", "load", "entry", "returned"}
  /\ ph \in Nat \ {0}
  /\ pc = "load" => ph <= Len(phs)
  /\ pc = "entry" => ph > Len(phs)
  /\ seg \in [pa : Int, epa : Int, offset : Int]

\* readseg of the header: the first bytes are there.
HeaderInv ==
  pc = "header" =>
    /\ ph = 1
    /\ seg.pa % SECTSIZE = 0
    /\ ELF <= seg.pa /\ seg.epa = ELF + ELFSIZE
    /\ SectorBytes(seg.offset) - seg.pa = -ELF
    /\ \A x \in ELF .. ELF + ELFSIZE - 1 : x < seg.pa => mem[x] = x - ELF

\* readseg of a segment stays within its sectors.
SegmentInv ==
  pc = "load" =>
    LET s == phs[ph]
    IN /\ s.memsz = 0 => seg.pa >= seg.epa
       /\ s.memsz > 0 =>
            /\ seg.pa % SECTSIZE = 0
            /\ Lo(s) <= seg.pa /\ seg.epa = s.paddr + s.filesz
            /\ SectorBytes(seg.offset) - seg.pa = s.off - s.paddr
            /\ \A x \in s.paddr .. s.paddr + s.filesz - 1 : x < seg.pa => mem[x] = s.off + x - s.paddr

\* What is loaded stays.
LoadedInv ==
  pc \in {"next", "load", "entry"} =>
    HeaderIntact /\ \A i \in 1 .. Len(phs) : i < ph => InMemory(phs[i])

IInv == TypeInv /\ HeaderInv /\ SegmentInv /\ LoadedInv

-----------------------------------------------------------------------------
(***************************************************************************)
(* Sectors.                                                                *)
(***************************************************************************)

\* Division.
LEMMA Quotient ==
  ASSUME NEW b \in Nat, b > 0, NEW x \in Nat
  PROVE  /\ x \div b \in Nat /\ x % b \in 0..b - 1
         /\ x = (x \div b) * b + (x % b)
<1>1. x = b * (x \div b) + (x % b)
  OBVIOUS
<1>2. x \div b \in Nat /\ x % b \in 0..b - 1
  OBVIOUS
<1>3. b * (x \div b) = (x \div b) * b
  BY <1>2
<1> QED
  BY <1>1, <1>2, <1>3

\* Products are in the order of their factors.
LEMMA Ordered ==
  ASSUME NEW b \in Nat, NEW m \in Nat, NEW n \in Nat, m <= n
  PROVE  m * b \in Nat /\ n * b \in Nat /\ m * b <= n * b /\ (m + 1) * b = m * b + b
  OBVIOUS

\* A sector that begins at or before a byte ends with its sector.
LEMMA WithinSector ==
  ASSUME NEW b \in Nat, b > 0, NEW m \in Nat, NEW x \in Nat, m * b <= x
  PROVE  (m + 1) * b <= (x \div b + 1) * b
<1> DEFINE q == x \div b
<1>1. q \in Nat /\ q * b <= x /\ x < q * b + b
  BY Quotient
<1> HIDE DEF q
<1>2. m <= q
  <2> SUFFICES ASSUME ~(m <= q) PROVE FALSE
    OBVIOUS
  <2>1. q + 1 <= m /\ q + 1 \in Nat
    BY <1>1
  <2>2. (q + 1) * b <= m * b /\ m * b \in Nat
    BY <2>1, Ordered
  <2>3. (q + 1) * b = q * b + b /\ q * b \in Nat
    BY <1>1, Ordered
  <2> QED
    BY <1>1, <2>2, <2>3
<1>3. m + 1 <= q + 1 /\ m + 1 \in Nat /\ q + 1 \in Nat
  BY <1>1, <1>2
<1>4. (m + 1) * b <= (q + 1) * b
  BY <1>3, Ordered
<1> QED
  BY <1>4 DEF q

\* A multiple of the sector size, and the next one.
LEMMA Aligned ==
  ASSUME NEW x \in Nat, x % SECTSIZE = 0
  PROVE  /\ \E m \in Nat : x = m * SECTSIZE
         /\ (x + SECTSIZE) % SECTSIZE = 0
<1>1. SECTSIZE \in Nat /\ SECTSIZE > 0
  BY BootAssumption
<1>2. x \div SECTSIZE \in Nat /\ x = (x \div SECTSIZE) * SECTSIZE + 0
  BY <1>1, Quotient
<1>3. PICK m \in Nat : x = m * SECTSIZE
  <2>1. PICK m \in Nat : m = x \div SECTSIZE
    BY <1>2
  <2>2. x = m * SECTSIZE + 0 /\ m * SECTSIZE \in Nat
    BY <1>1, <1>2, <2>1
  <2>3. x = m * SECTSIZE
    BY <2>2
  <2> QED
    BY <2>3
<1>4. (x + SECTSIZE) % SECTSIZE = 0
  <2> DEFINE y == x + SECTSIZE  q == y \div SECTSIZE  r == y % SECTSIZE
  <2>1. y \in Nat /\ y = (m + 1) * SECTSIZE /\ y = m * SECTSIZE + SECTSIZE /\ m * SECTSIZE \in Nat
    BY <1>1, <1>3
  <2>2. q \in Nat /\ r \in 0..SECTSIZE - 1 /\ y = q * SECTSIZE + r
    BY <1>1, <2>1, Quotient
  <2> HIDE DEF q, r, y
  <2>3. ~(q <= m)
    <3> SUFFICES ASSUME q <= m PROVE FALSE
      OBVIOUS
    <3>1. q * SECTSIZE <= m * SECTSIZE /\ q * SECTSIZE \in Nat
      BY <1>1, <2>2, Ordered
    <3> QED
      BY <1>1, <2>1, <2>2, <3>1
  <2>4. (m + 1) * SECTSIZE <= q * SECTSIZE /\ q * SECTSIZE \in Nat
    <3>1. m + 1 <= q /\ m + 1 \in Nat
      BY <2>2, <2>3
    <3> QED
      BY <1>1, <2>2, <3>1, Ordered
  <2>5. r = 0
    BY <2>1, <2>2, <2>4
  <2> QED
    BY <2>5 DEF y, r
<1> QED
  BY <1>3, <1>4

\* What Linked says of a segment, in bytes.
LEMMA Layout ==
  ASSUME NEW hs \in Images, NEW i \in 1..Len(hs)
  PROVE  LET s == hs[i]
         IN /\ s \in Header /\ s.filesz <= s.memsz
            /\ s.memsz = 0 => s.off = 0 /\ s.filesz = 0
            /\ s.memsz > 0 =>
                 /\ Lo(s) \in Nat /\ Hi(s) \in Nat
                 /\ Lo(s) % SECTSIZE = 0 /\ Lo(s) = s.paddr - (s.off % SECTSIZE)
                 /\ Lo(s) <= s.paddr /\ s.paddr + s.memsz <= Hi(s)
                 /\ ELF + ELFSIZE <= Lo(s) /\ Hi(s) <= MEM
                 /\ \A j \in 1..Len(hs) : i < j /\ hs[j].memsz > 0 => Hi(s) <= Lo(hs[j])
<1> DEFINE s == hs[i]
<1>1. /\ SECTSIZE \in Nat /\ SECTSIZE > 0 /\ hs \in Seq(Header) /\ Linked(hs)
      /\ ELF \in Nat /\ ELFSIZE \in Nat /\ MEM \in Nat
  BY BootAssumption DEF Header
<1>2. DOMAIN hs = 1..Len(hs) /\ Len(hs) \in Nat /\ \A j \in 1..Len(hs) : hs[j] \in Header
  BY <1>1
<1>3. /\ s \in Header /\ s.filesz \in Nat /\ s.memsz \in Nat /\ s.paddr \in Nat /\ s.off \in Nat
      /\ s.filesz <= s.memsz
  BY <1>1, <1>2 DEF Header, Linked
<1>4. ASSUME s.memsz = 0 PROVE s.off = 0 /\ s.filesz = 0
  <2>1. s.off = 0
    BY <1>1, <1>2, <1>4 DEF Linked
  <2> QED
    BY <1>3, <1>4, <2>1
<1>5. ASSUME s.memsz > 0
      PROVE  /\ Lo(s) \in Nat /\ Hi(s) \in Nat
             /\ Lo(s) % SECTSIZE = 0 /\ Lo(s) = s.paddr - (s.off % SECTSIZE)
             /\ Lo(s) <= s.paddr /\ s.paddr + s.memsz <= Hi(s)
             /\ ELF + ELFSIZE <= Lo(s) /\ Hi(s) <= MEM
             /\ \A j \in 1..Len(hs) : i < j /\ hs[j].memsz > 0 => Hi(s) <= Lo(hs[j])
  <2>1. /\ s.off % SECTSIZE = s.paddr % SECTSIZE
        /\ ELF + ELFSIZE <= Lo(s) /\ Hi(s) <= MEM
        /\ \A j \in 1..Len(hs) : i < j /\ hs[j].memsz > 0 => LastSector(s) < FirstSector(hs[j])
    BY <1>1, <1>2, <1>5 DEF Linked, Lo, Hi, FirstSector, LastSector
  <2>2. /\ FirstSector(s) \in Nat /\ s.paddr % SECTSIZE \in 0..SECTSIZE - 1
        /\ s.paddr = FirstSector(s) * SECTSIZE + (s.paddr % SECTSIZE)
    BY <1>1, <1>3, Quotient DEF FirstSector
  <2> DEFINE x == s.paddr + s.memsz - 1
  <2>3. x \in Nat
    BY <1>3, <1>5
  <2>4. LastSector(s) \in Nat /\ x < LastSector(s) * SECTSIZE + SECTSIZE
    BY <1>1, <2>3, Quotient DEF LastSector
  <2>5. Lo(s) \in Nat /\ Lo(s) = s.paddr - (s.off % SECTSIZE) /\ Lo(s) <= s.paddr
    <3>1. PICK r \in 0..SECTSIZE - 1 : r = s.paddr % SECTSIZE /\ r = s.off % SECTSIZE
      BY <2>1, <2>2
    <3>2. PICK n \in Nat : n = FirstSector(s)
      BY <2>2
    <3>3. PICK y \in Nat : y = n * SECTSIZE
      BY <1>1
    <3>4. s.paddr = y + r
      BY <2>2, <3>1, <3>2, <3>3
    <3>5. PICK p \in Nat : p = s.paddr
      BY <1>3
    <3>6. p = y + r /\ r \in Nat
      BY <1>1, <3>4, <3>5
    <3>7. y = p - r /\ y <= p
      BY <3>6
    <3> QED
      BY <3>1, <3>2, <3>3, <3>5, <3>7 DEF Lo
  <2>6. Hi(s) = LastSector(s) * SECTSIZE + SECTSIZE /\ Hi(s) \in Nat
    <3>1. PICK n \in Nat : n = LastSector(s)
      BY <2>4
    <3>2. (n + 1) * SECTSIZE = n * SECTSIZE + SECTSIZE /\ (n + 1) * SECTSIZE \in Nat
      BY <1>1
    <3> QED
      BY <3>1, <3>2 DEF Hi
  <2>7. s.paddr + s.memsz <= Hi(s)
    BY <1>3, <2>3, <2>4, <2>6
  <2>8. ASSUME NEW j \in 1..Len(hs), i < j, hs[j].memsz > 0 PROVE Hi(s) <= Lo(hs[j])
    <3>1. FirstSector(hs[j]) \in Nat /\ LastSector(s) + 1 \in Nat
      <4>1. PICK y \in Nat : y = hs[j].paddr
        BY <1>2 DEF Header
      <4>2. y \div SECTSIZE \in Nat
        BY <1>1, Quotient
      <4> QED
        BY <2>4, <4>1, <4>2 DEF FirstSector
    <3>2. LastSector(s) + 1 <= FirstSector(hs[j])
      BY <2>1, <2>4, <2>8, <3>1
    <3>3. PICK m \in Nat : m = LastSector(s) + 1
      BY <3>1
    <3>4. PICK n \in Nat : n = FirstSector(hs[j])
      BY <3>1
    <3>5. m * SECTSIZE <= n * SECTSIZE
      BY <1>1, <3>2, <3>3, <3>4, Ordered
    <3> QED
      BY <3>3, <3>4, <3>5 DEF Hi, Lo
  <2>9. Lo(s) % SECTSIZE = 0
    <3>1. PICK n \in Nat : n = FirstSector(s)
      BY <2>2
    <3>2. PICK y \in Nat : y = n * SECTSIZE
      BY <1>1
    <3>3. y \div SECTSIZE \in Nat /\ y % SECTSIZE \in 0..SECTSIZE - 1 /\ y = (y \div SECTSIZE) * SECTSIZE + (y % SECTSIZE)
      BY <1>1, Quotient
    <3>4. (n + 1) * SECTSIZE <= (y \div SECTSIZE + 1) * SECTSIZE
      BY <1>1, <3>2, WithinSector
    <3>5. PICK q \in Nat : q = y \div SECTSIZE
      BY <3>3
    <3>6. (n + 1) * SECTSIZE = y + SECTSIZE /\ (q + 1) * SECTSIZE = q * SECTSIZE + SECTSIZE /\ q * SECTSIZE \in Nat
      BY <1>1, <3>2
    <3>7. y % SECTSIZE = 0
      BY <1>1, <3>3, <3>4, <3>5, <3>6
    <3> QED
      BY <3>1, <3>2, <3>7 DEF Lo
  <2> QED
    BY <2>1, <2>5, <2>6, <2>7, <2>8, <2>9
<1> QED
  BY <1>3, <1>4, <1>5

-----------------------------------------------------------------------------
(***************************************************************************)
(* The steps of bootmain.                                                  *)
(***************************************************************************)

LEMMA InitInv ==
  ASSUME Init
  PROVE  IInv
<1>1. /\ phs \in Images /\ pc = "header" /\ ph = 1 /\ seg = readsegStart(ELF, ELFSIZE, 0)
  BY DEF Init
<1>2. SECTSIZE \in Nat /\ SECTSIZE > 0 /\ ELF \in Nat /\ ELFSIZE \in Nat /\ ELF % SECTSIZE = 0
  BY BootAssumption
<1>3. 0 % SECTSIZE = 0 /\ 0 \div SECTSIZE = 0
  BY <1>2
<1>4. seg.pa = ELF /\ seg.epa = ELF + ELFSIZE /\ seg.offset = 1 /\ seg \in [pa : Int, epa : Int, offset : Int]
  BY <1>1, <1>2, <1>3 DEF readsegStart
<1>5. SectorBytes(seg.offset) = 0
  BY <1>2, <1>4 DEF SectorBytes
<1>6. HeaderInv
  BY <1>1, <1>2, <1>4, <1>5 DEF HeaderInv
<1> QED
  BY <1>1, <1>4, <1>6 DEF IInv, TypeInv, SegmentInv, LoadedInv

\* A step that changes memory only from lo on, above the header and the
\* segments that are loaded, keeps them.
LEMMA KeepLoaded ==
  ASSUME TypeInv, LoadedInv, pc = "load", phs' = phs, NEW lo \in Nat,
         lo = MEM \/ (phs[ph].memsz > 0 /\ Lo(phs[ph]) <= lo),
         \A x \in 0 .. MEM - 1 : x < lo => mem'[x] = mem[x]
  PROVE  HeaderIntact' /\ \A i \in 1 .. Len(phs) : i < ph => InMemory(phs[i])'
<1>1. phs \in Images /\ ph \in 1..Len(phs) /\ Len(phs) \in Nat
  BY BootAssumption DEF TypeInv
<1>2. ELF \in Nat /\ ELFSIZE \in Nat /\ MEM \in Nat /\ ELF + ELFSIZE <= MEM
  BY BootAssumption
<1>3. ELF + ELFSIZE <= lo
  <2>1. CASE lo = MEM
    BY <1>2, <2>1
  <2>2. CASE phs[ph].memsz > 0 /\ Lo(phs[ph]) <= lo
    <3>1. Lo(phs[ph]) \in Nat /\ ELF + ELFSIZE <= Lo(phs[ph])
      BY <1>1, <2>2, Layout
    <3> QED
      BY <1>2, <2>2, <3>1
  <2> QED
    BY <2>1, <2>2
<1>4. HeaderIntact'
  <2> SUFFICES ASSUME NEW x \in ELF .. ELF + ELFSIZE - 1 PROVE mem'[x] = x - ELF
    BY DEF HeaderIntact
  <2>1. x \in 0 .. MEM - 1 /\ x < lo
    BY <1>2, <1>3
  <2>2. mem[x] = x - ELF
    BY DEF LoadedInv, HeaderIntact
  <2> QED
    BY <2>1, <2>2
<1>5. ASSUME NEW i \in 1 .. Len(phs), i < ph PROVE InMemory(phs[i])'
  <2> DEFINE s == phs[i]
  <2> SUFFICES ASSUME NEW k \in 0 .. s.memsz - 1
               PROVE  mem'[s.paddr + k] = IF k < s.filesz THEN s.off + k ELSE Zero
    BY DEF InMemory
  <2>1. s \in Header /\ s.memsz \in Nat /\ s.paddr \in Nat
    BY <1>1, Layout DEF Header
  <2>2. s.memsz > 0
    BY <2>1
  <2>3. /\ s.paddr + s.memsz <= Hi(s) /\ Hi(s) \in Nat /\ Hi(s) <= MEM
        /\ phs[ph].memsz > 0 => Hi(s) <= Lo(phs[ph]) /\ Lo(phs[ph]) \in Nat
    BY <1>1, <1>5, <2>2, Layout
  <2>4. s.paddr + k \in 0 .. MEM - 1 /\ s.paddr + k < lo
    <3>1. PICK p \in Nat, m \in Nat, h \in Nat : p = s.paddr /\ m = s.memsz /\ h = Hi(s)
      BY <2>1, <2>3
    <3>2. p + m <= h /\ h <= MEM /\ k \in 0 .. m - 1
      BY <2>3, <3>1
    <3>3. h <= lo
      <4>1. CASE lo = MEM
        BY <3>2, <4>1
      <4>2. CASE phs[ph].memsz > 0 /\ Lo(phs[ph]) <= lo
        <5>1. PICK l \in Nat : l = Lo(phs[ph]) /\ h <= l /\ l <= lo
          BY <2>3, <3>1, <4>2
        <5> QED
          BY <5>1
      <4> QED
        BY <4>1, <4>2
    <3>4. p + k \in 0 .. MEM - 1 /\ p + k < lo
      BY <1>2, <3>2, <3>3
    <3> QED
      BY <3>1, <3>4
  <2>5. mem[s.paddr + k] = IF k < s.filesz THEN s.off + k ELSE Zero
    BY <1>5 DEF LoadedInv, InMemory
  <2> QED
    BY <2>4, <2>5
<1> QED
  BY <1>4, <1>5

\* readsect: of the header, or of the segment within its own sectors.
LEMMA ReadsectStep ==
  ASSUME IInv, readsect
  PROVE  IInv'
<1>1. /\ pc \in {"header", "load"} /\ seg.pa < seg.epa /\ UNCHANGED <<phs, magic, pc, ph>>
      /\ seg' = [seg EXCEPT !.pa = @ + SECTSIZE, !.offset = @ + 1]
  BY DEF readsect
<1>2. \A x \in 0 .. MEM - 1 : mem'[x] = IF x \in seg.pa .. seg.pa + SECTSIZE - 1
                                        THEN SectorBytes(seg.offset) + x - seg.pa ELSE mem[x]
  BY DEF readsect
<1>3. /\ SECTSIZE \in Nat /\ SECTSIZE > 0 /\ ELF \in Nat /\ ELFSIZE \in Nat /\ MEM \in Nat
      /\ ELF + ELFSIZE <= MEM
  BY BootAssumption
<1>4. PICK pa \in Int, epa \in Int, of \in Int :
        /\ pa = seg.pa /\ epa = seg.epa /\ of = seg.offset
        /\ seg' \in [pa : Int, epa : Int, offset : Int]
        /\ seg'.pa = pa + SECTSIZE /\ seg'.epa = epa /\ seg'.offset = of + 1
  <2>1. seg \in [pa : Int, epa : Int, offset : Int]
    BY DEF IInv, TypeInv
  <2>2. PICK pa \in Int, epa \in Int, of \in Int : pa = seg.pa /\ epa = seg.epa /\ of = seg.offset
    BY <2>1
  <2>3. seg' = [pa |-> pa + SECTSIZE, epa |-> epa, offset |-> of + 1]
    BY <1>1, <2>1, <2>2
  <2>4. pa + SECTSIZE \in Int /\ of + 1 \in Int
    BY <1>3
  <2>5. seg' \in [pa : Int, epa : Int, offset : Int]
    BY <2>3, <2>4
  <2>6. seg'.pa = pa + SECTSIZE /\ seg'.epa = epa /\ seg'.offset = of + 1
    BY <2>3
  <2> QED
    BY <2>2, <2>5, <2>6
<1>5. TypeInv'
  BY <1>1, <1>4 DEF IInv, TypeInv
<1>6. PICK g \in Int : g = SectorBytes(of) /\ SectorBytes(of + 1) = g + SECTSIZE
  <2>1. (of - 1) * SECTSIZE \in Int /\ (of + 1 - 1) * SECTSIZE = (of - 1) * SECTSIZE + SECTSIZE
    BY <1>3
  <2> QED
    BY <2>1 DEF SectorBytes
<1>7. \A x \in 0 .. MEM - 1 : mem'[x] = IF x \in pa .. pa + SECTSIZE - 1 THEN g + x - pa ELSE mem[x]
  BY <1>2, <1>4, <1>6
<1>8. CASE pc = "header"
  <2>1. /\ ph = 1 /\ pa % SECTSIZE = 0 /\ ELF <= pa /\ epa = ELF + ELFSIZE /\ g - pa = -ELF
        /\ \A x \in ELF .. ELF + ELFSIZE - 1 : x < pa => mem[x] = x - ELF
    BY <1>4, <1>6, <1>8 DEF IInv, HeaderInv
  <2>2. (pa + SECTSIZE) % SECTSIZE = 0
    BY <1>3, <2>1, Aligned
  <2>3. ASSUME NEW x \in ELF .. ELF + ELFSIZE - 1, x < pa + SECTSIZE PROVE mem'[x] = x - ELF
    <3>1. x \in 0 .. MEM - 1 /\ (x < pa \/ x \in pa .. pa + SECTSIZE - 1)
      BY <1>3, <2>3
    <3>2. CASE x < pa
      <4>1. x \notin pa .. pa + SECTSIZE - 1
        BY <3>2
      <4> QED
        BY <1>7, <2>1, <3>1, <3>2, <4>1
    <3>3. CASE x \in pa .. pa + SECTSIZE - 1
      <4>1. mem'[x] = g + x - pa
        BY <1>7, <3>1, <3>3
      <4> QED
        BY <1>3, <2>1, <4>1
    <3> QED
      BY <3>1, <3>2, <3>3
  <2>4. ELF <= pa + SECTSIZE /\ (g + SECTSIZE) - (pa + SECTSIZE) = -ELF
    BY <1>3, <2>1
  <2>5. HeaderInv'
    BY <1>1, <1>4, <1>6, <2>1, <2>2, <2>3, <2>4 DEF HeaderInv
  <2> QED
    BY <1>1, <1>5, <1>8, <2>5 DEF IInv, SegmentInv, LoadedInv
<1>9. CASE pc = "load"
  <2>1. phs \in Images /\ ph \in 1..Len(phs)
    BY <1>9, BootAssumption DEF IInv, TypeInv
  <2>2. PICK s \in Header : s = phs[ph] /\ s.filesz <= s.memsz
    BY <2>1, Layout
  <2>3. s.paddr \in Nat /\ s.filesz \in Nat /\ s.memsz \in Nat /\ s.off \in Nat
    BY DEF Header
  <2>4. s.memsz > 0
    <3>1. s.memsz = 0 => pa >= epa
      BY <1>4, <1>9, <2>2 DEF IInv, SegmentInv
    <3> QED
      BY <1>1, <1>4, <2>3, <3>1
  <2>5. /\ pa % SECTSIZE = 0 /\ Lo(s) <= pa /\ epa = s.paddr + s.filesz /\ g - pa = s.off - s.paddr
        /\ \A x \in s.paddr .. s.paddr + s.filesz - 1 : x < pa => mem[x] = s.off + x - s.paddr
    BY <1>4, <1>6, <1>9, <2>2, <2>4 DEF IInv, SegmentInv
  <2>6. /\ Lo(s) \in Nat /\ Hi(s) \in Nat /\ Lo(s) <= s.paddr /\ s.paddr + s.memsz <= Hi(s) /\ Hi(s) <= MEM
    BY <2>1, <2>2, <2>4, Layout
  <2>7. pa \in Nat /\ pa < epa
    BY <1>1, <1>4, <2>5, <2>6
  <2>8. pa + SECTSIZE <= Hi(s)
    <3>1. PICK m \in Nat : pa = m * SECTSIZE
      BY <2>5, <2>7, Aligned
    <3>2. PICK y \in Nat : y = s.paddr + s.memsz - 1 /\ m * SECTSIZE <= y
      BY <2>2, <2>3, <2>4, <2>5, <2>7, <3>1
    <3>3. (m + 1) * SECTSIZE <= (y \div SECTSIZE + 1) * SECTSIZE
      BY <1>3, <3>2, WithinSector
    <3>4. (m + 1) * SECTSIZE = pa + SECTSIZE
      BY <1>3, <3>1
    <3> QED
      BY <3>2, <3>3, <3>4 DEF Hi, LastSector
  <2>9. \A x \in 0 .. MEM - 1 : x < pa => mem'[x] = mem[x]
    BY <1>7, <2>7
  <2>10. LoadedInv'
    <3>1. HeaderIntact' /\ \A i \in 1 .. Len(phs) : i < ph => InMemory(phs[i])'
      BY <1>1, <1>9, <2>2, <2>4, <2>5, <2>7, <2>9, KeepLoaded DEF IInv
    <3> QED
      BY <1>1, <3>1 DEF LoadedInv, InMemory
  <2>11. (pa + SECTSIZE) % SECTSIZE = 0
    BY <2>5, <2>7, Aligned
  <2>12. ASSUME NEW x \in s.paddr .. s.paddr + s.filesz - 1, x < pa + SECTSIZE
         PROVE  mem'[x] = s.off + x - s.paddr
    <3>1. x \in 0 .. MEM - 1 /\ (x < pa \/ x \in pa .. pa + SECTSIZE - 1)
      BY <1>3, <2>2, <2>3, <2>6, <2>7, <2>12
    <3>2. CASE x < pa
      BY <2>5, <2>9, <3>1, <3>2
    <3>3. CASE x \in pa .. pa + SECTSIZE - 1
      <4>1. mem'[x] = g + x - pa
        BY <1>7, <3>1, <3>3
      <4> QED
        BY <2>3, <2>5, <2>7, <4>1
    <3> QED
      BY <3>1, <3>2, <3>3
  <2>13. Lo(s) <= pa + SECTSIZE /\ (g + SECTSIZE) - (pa + SECTSIZE) = s.off - s.paddr
    BY <1>3, <2>3, <2>5, <2>6, <2>7
  <2>14. SegmentInv'
    <3>1. s = phs'[ph']
      BY <1>1, <2>2
    <3>2. /\ seg'.pa % SECTSIZE = 0 /\ Lo(s) <= seg'.pa /\ seg'.epa = s.paddr + s.filesz
          /\ SectorBytes(seg'.offset) - seg'.pa = s.off - s.paddr
          /\ \A x \in s.paddr .. s.paddr + s.filesz - 1 : x < seg'.pa => mem'[x] = s.off + x - s.paddr
      BY <1>4, <1>6, <2>5, <2>11, <2>12, <2>13
    <3> QED
      BY <2>3, <2>4, <3>1, <3>2 DEF SegmentInv
  <2> QED
    BY <1>1, <1>5, <1>9, <2>10, <2>14 DEF IInv, HeaderInv
<1> QED
  BY <1>1, <1>8, <1>9

\* checkMagic: the whole header is there.
LEMMA CheckMagicStep ==
  ASSUME IInv, checkMagic
  PROVE  IInv'
<1>1. /\ pc = "header" /\ seg.pa >= seg.epa /\ pc' \in {"next", "returned"}
      /\ UNCHANGED <<phs, magic, mem, ph, seg>>
  BY DEF checkMagic, Loaded
<1>2. TypeInv'
  BY <1>1 DEF IInv, TypeInv
<1>3. ph = 1 /\ HeaderIntact
  <2>1. /\ ph = 1 /\ seg.epa = ELF + ELFSIZE
        /\ \A x \in ELF .. ELF + ELFSIZE - 1 : x < seg.pa => mem[x] = x - ELF
    BY <1>1 DEF IInv, HeaderInv
  <2>2. PICK pa \in Int : pa = seg.pa /\ pa >= ELF + ELFSIZE
    BY <1>1, <2>1 DEF IInv, TypeInv
  <2>3. ASSUME NEW x \in ELF .. ELF + ELFSIZE - 1 PROVE mem[x] = x - ELF
    <3>1. x < pa
      BY <2>2, BootAssumption
    <3> QED
      BY <2>1, <2>2, <3>1
  <2> QED
    BY <2>1, <2>3 DEF HeaderIntact
<1>4. LoadedInv'
  <2>1. HeaderIntact' /\ ph' = 1
    BY <1>1, <1>3 DEF HeaderIntact
  <2>2. \A i \in 1 .. Len(phs') : ~(i < ph')
    BY <2>1
  <2> QED
    BY <2>1, <2>2 DEF LoadedInv
<1> QED
  BY <1>1, <1>2, <1>4 DEF IInv, HeaderInv, SegmentInv

\* nextSegment: readseg begins with the first sector of the segment.
LEMMA NextSegmentStep ==
  ASSUME IInv, nextSegment
  PROVE  IInv'
<1>1. pc = "next" /\ UNCHANGED <<phs, magic, mem, ph>> /\ pc' \in {"load", "entry"}
  BY DEF nextSegment
<1>2. LoadedInv'
  BY <1>1 DEF IInv, LoadedInv, HeaderIntact, InMemory
<1>3. CASE ph > Len(phs)
  <2>1. pc' = "entry" /\ seg' = seg
    BY <1>3 DEF nextSegment
  <2> QED
    BY <1>1, <1>2, <1>3, <2>1 DEF IInv, TypeInv, HeaderInv, SegmentInv
<1>4. CASE ~(ph > Len(phs))
  <2>1. pc' = "load" /\ seg' = readsegStart(phs[ph].paddr, phs[ph].filesz, phs[ph].off)
    BY <1>4 DEF nextSegment
  <2>2. phs \in Images /\ ph \in 1..Len(phs)
    BY <1>4, BootAssumption DEF IInv, TypeInv
  <2>3. PICK s \in Header : s = phs[ph] /\ s.filesz <= s.memsz
    BY <2>2, Layout
  <2>4. PICK p \in Nat, f \in Nat, m \in Nat, o \in Nat :
          p = s.paddr /\ f = s.filesz /\ m = s.memsz /\ o = s.off
    BY DEF Header
  <2>5. SECTSIZE \in Nat /\ SECTSIZE > 0
    BY BootAssumption
  <2>6. PICK q \in Nat, r \in Nat : q = o \div SECTSIZE /\ r = o % SECTSIZE /\ o = q * SECTSIZE + r
    BY <2>5, Quotient
  <2>7. seg' = [pa |-> p - r, epa |-> p + f, offset |-> q + 1]
    BY <2>1, <2>3, <2>4, <2>6 DEF readsegStart
  <2>8. p - r \in Int /\ p + f \in Int /\ q + 1 \in Int
    OBVIOUS
  <2>9. seg' \in [pa : Int, epa : Int, offset : Int] /\ seg'.pa = p - r /\ seg'.epa = p + f /\ seg'.offset = q + 1
    BY <2>7, <2>8
  <2>10. SectorBytes(seg'.offset) = q * SECTSIZE
    <3>1. (q + 1) - 1 = q
      OBVIOUS
    <3> QED
      BY <2>9, <3>1 DEF SectorBytes
  <2>11. TypeInv'
    BY <1>1, <2>1, <2>2, <2>9 DEF IInv, TypeInv
  <2>12. ASSUME m = 0 PROVE seg'.pa >= seg'.epa
    <3>1. o = 0 /\ f = 0
      BY <2>2, <2>3, <2>4, <2>12, Layout
    <3>2. r = 0
      BY <2>5, <2>6, <3>1
    <3> QED
      BY <2>9, <3>1, <3>2
  <2>13. ASSUME m > 0
         PROVE  /\ seg'.pa % SECTSIZE = 0
                /\ Lo(s) <= seg'.pa /\ seg'.epa = p + f
                /\ SectorBytes(seg'.offset) - seg'.pa = o - p
                /\ \A x \in p .. p + f - 1 : x < seg'.pa => mem'[x] = o + x - p
    <3>1. Lo(s) \in Nat /\ Lo(s) % SECTSIZE = 0 /\ Lo(s) = p - r
      BY <2>2, <2>3, <2>4, <2>6, <2>13, Layout
    <3>2. PICK y \in Nat : y = q * SECTSIZE
      BY <2>5
    <3>3. y - (p - r) = o - p
      <4>1. o = y + r
        BY <2>6, <3>2
      <4> QED
        BY <4>1
    <3>4. \A x \in p .. p + f - 1 : ~(x < p - r)
      OBVIOUS
    <3>5. Lo(s) <= seg'.pa /\ seg'.pa % SECTSIZE = 0
      BY <2>9, <3>1
    <3> QED
      BY <2>9, <2>10, <3>2, <3>3, <3>4, <3>5
  <2>14. SegmentInv'
    <3>1. s = phs'[ph']
      BY <1>1, <2>3
    <3> QED
      BY <2>4, <2>12, <2>13, <3>1 DEF SegmentInv
  <2> QED
    BY <1>2, <2>1, <2>11, <2>14 DEF IInv, HeaderInv
<1> QED
  BY <1>3, <1>4

\* stosb: the rest of the segment is zero, and the segment is in memory.
LEMMA StosbStep ==
  ASSUME IInv, stosb
  PROVE  IInv'
<1>1. pc = "load" /\ seg.pa >= seg.epa /\ ph' = ph + 1 /\ pc' = "next" /\ UNCHANGED <<phs, magic, seg>>
  BY DEF stosb, Loaded
<1>2. phs \in Images /\ ph \in 1..Len(phs) /\ Len(phs) \in Nat
  BY <1>1, BootAssumption DEF IInv, TypeInv
<1>3. PICK s \in Header : s = phs[ph] /\ s.filesz <= s.memsz
  BY <1>2, Layout
<1>4. PICK p \in Nat, f \in Nat, m \in Nat, o \in Nat :
        p = s.paddr /\ f = s.filesz /\ m = s.memsz /\ o = s.off
  BY DEF Header
<1>5. \A x \in 0 .. MEM - 1 : mem'[x] = IF x \in p + f .. p + m - 1 THEN Zero ELSE mem[x]
  BY <1>3, <1>4 DEF stosb
<1>6. MEM \in Nat
  BY BootAssumption
<1>7. HeaderIntact' /\ \A i \in 1 .. Len(phs) : i < ph => InMemory(phs[i])'
  <2>1. CASE m = 0
    <3>1. \A x \in 0 .. MEM - 1 : mem'[x] = mem[x]
      <4>1. f = 0
        BY <1>3, <1>4, <2>1
      <4>2. \A x \in Int : x \notin p + f .. p + m - 1
        BY <2>1, <4>1
      <4> QED
        BY <1>5, <1>6, <4>2
    <3> QED
      BY <1>1, <1>6, <3>1, KeepLoaded DEF IInv
  <2>2. CASE m > 0
    <3>1. PICK lo \in Nat : lo = p + f
      OBVIOUS
    <3>2. Lo(phs[ph]) \in Nat /\ Lo(phs[ph]) <= p /\ phs[ph].memsz > 0
      BY <1>2, <1>3, <1>4, <2>2, Layout
    <3>3. Lo(phs[ph]) <= lo
      BY <3>1, <3>2
    <3>4. \A x \in 0 .. MEM - 1 : x < lo => mem'[x] = mem[x]
      BY <1>5, <3>1
    <3> QED
      BY <1>1, <3>2, <3>3, <3>4, KeepLoaded DEF IInv
  <2> QED
    BY <2>1, <2>2
<1>8. InMemory(s)'
  <2> SUFFICES ASSUME NEW k \in 0 .. m - 1
               PROVE  mem'[p + k] = IF k < f THEN o + k ELSE Zero
    BY <1>4 DEF InMemory
  <2>1. m > 0
    OBVIOUS
  <2>2. PICK h \in Nat : p + m <= h /\ h <= MEM
    BY <1>2, <1>3, <1>4, <2>1, Layout
  <2>3. PICK x \in 0 .. MEM - 1 : x = p + k
    BY <1>6, <2>2
  <2>4. CASE k < f
    <3>1. /\ seg.epa = p + f /\ \A y \in p .. p + f - 1 : y < seg.pa => mem[y] = o + y - p
      BY <1>1, <1>3, <1>4, <2>1 DEF IInv, SegmentInv
    <3>2. PICK pa \in Int : pa = seg.pa /\ pa >= p + f
      BY <1>1, <3>1 DEF IInv, TypeInv
    <3>3. x \in p .. p + f - 1 /\ x < pa /\ x \notin p + f .. p + m - 1
      BY <2>3, <2>4, <3>2
    <3>4. mem'[x] = o + x - p
      BY <1>5, <3>1, <3>2, <3>3
    <3>5. o + x - p = o + k
      BY <2>3
    <3> QED
      BY <2>3, <2>4, <3>4, <3>5
  <2>5. CASE ~(k < f)
    <3>1. x \in p + f .. p + m - 1
      BY <2>3, <2>5
    <3> QED
      BY <1>5, <2>3, <2>5, <3>1
  <2> QED
    BY <2>4, <2>5
<1>9. LoadedInv'
  <2>1. ASSUME NEW i \in 1 .. Len(phs), i < ph + 1 PROVE InMemory(phs[i])'
    <3>1. i < ph \/ i = ph
      BY <1>2, <2>1
    <3>2. CASE i < ph
      BY <1>7, <3>2
    <3>3. CASE i = ph
      BY <1>1, <1>3, <1>8, <3>3 DEF InMemory
    <3> QED
      BY <3>1, <3>2, <3>3
  <2> QED
    BY <1>1, <1>7, <2>1 DEF LoadedInv, InMemory
<1>10. TypeInv'
  BY <1>1, <1>2 DEF IInv, TypeInv
<1> QED
  BY <1>1, <1>9, <1>10 DEF IInv, HeaderInv, SegmentInv

LEMMA NextStep ==
  ASSUME IInv, [Next]_vars
  PROVE  IInv'
<1>1. CASE readsect
  BY <1>1, ReadsectStep
<1>2. CASE checkMagic
  BY <1>2, CheckMagicStep
<1>3. CASE nextSegment
  BY <1>3, NextSegmentStep
<1>4. CASE stosb
  BY <1>4, StosbStep
<1>5. CASE UNCHANGED vars
  BY <1>5 DEF vars, IInv, TypeInv, HeaderInv, SegmentInv, LoadedInv, HeaderIntact, InMemory
<1> QED
  BY <1>1, <1>2, <1>3, <1>4, <1>5 DEF Next

-----------------------------------------------------------------------------

\* The inductive invariant holds in every state of bootmain.
THEOREM Invariance == Spec => []IInv
  BY InitInv, NextStep, PTL DEF Spec

\* start.c:bootmain enters a kernel that is wholly in memory: each segment has
\* the bytes of the file and then zeros, and from the moment the header is
\* read until the entry is called nothing overwrites it.
THEOREM KernelWhole == Spec => []KernelLoaded
<1>1. IInv => KernelLoaded
  <2> SUFFICES ASSUME IInv PROVE KernelLoaded
    OBVIOUS
  <2>1. pc \in {"next", "load", "entry"} => \A a \in ELF .. ELF + ELFSIZE - 1 : mem[a] = a - ELF
    BY DEF IInv, LoadedInv, HeaderIntact
  <2>2. ASSUME pc = "entry", NEW i \in DOMAIN phs, NEW k \in 0 .. phs[i].memsz - 1
        PROVE  mem[phs[i].paddr + k] = IF k < phs[i].filesz THEN phs[i].off + k ELSE Zero
    <3>1. phs \in Seq(Header) /\ ph \in Nat /\ ph > Len(phs)
      BY <2>2, BootAssumption DEF IInv, TypeInv, Header
    <3>2. i \in 1 .. Len(phs) /\ i < ph
      BY <3>1
    <3>3. InMemory(phs[i])
      BY <2>2, <3>2 DEF IInv, LoadedInv
    <3> QED
      BY <3>3 DEF InMemory
  <2> QED
    BY <2>1, <2>2 DEF KernelLoaded
<1> QED
  BY <1>1, Invariance, PTL
===============================================================================
