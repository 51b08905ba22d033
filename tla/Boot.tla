--------------------------------- MODULE Boot ---------------------------------
(***************************************************************************)
(* The second half of the boot loader, boot/start.c: bootmain reads the    *)
(* ELF header of the kernel from the disk behind the boot sector, loads    *)
(* the program segments sector by sector and jumps to the entry.           *)
(*                                                                         *)
(* A byte of memory is the offset of the byte of the kernel file it was    *)
(* read from, or Zero, or Junk.  The disk's sector n holds the file's      *)
(* sector n - 1.  waitdisk is the disk being ready; it always becomes so.  *)
(***************************************************************************)
EXTENDS Integers, Sequences

CONSTANTS SECTSIZE,    \* 512
          ELF, ELFSIZE,  \* where the header goes, and the 4096 bytes read of it
          MEM,         \* the memory is 0..MEM-1
          Images       \* program headers of the kernels that are tried

Zero == -1
Junk == -2

\* What kernel.ld gives: segments follow one another, the header stays clear of
\* them, offset and address agree within a sector, and no two segments share
\* a sector (each begins a page).  A program header of size zero, such as that
\* of the stack, may stand anywhere.
Linked(hs) ==
  LET Loads == {i \in DOMAIN hs : hs[i].memsz > 0}
      First(i) == hs[i].paddr \div SECTSIZE
      Last(i) == (hs[i].paddr + hs[i].memsz - 1) \div SECTSIZE
  IN /\ \A i \in DOMAIN hs : hs[i].filesz <= hs[i].memsz
     /\ \A i \in Loads : /\ hs[i].off % SECTSIZE = hs[i].paddr % SECTSIZE
                         /\ First(i) * SECTSIZE >= ELF + ELFSIZE
                         /\ (Last(i) + 1) * SECTSIZE <= MEM
     /\ \A i, j \in Loads : i < j => Last(i) < First(j)
     /\ \A i \in DOMAIN hs \ Loads : hs[i].off = 0

ASSUME BootAssumption ==
  /\ SECTSIZE \in Nat \ {0} /\ ELF \in Nat /\ ELFSIZE \in Nat /\ MEM \in Nat
  /\ ELF % SECTSIZE = 0 /\ ELFSIZE % SECTSIZE = 0 /\ ELF + ELFSIZE <= MEM
  /\ \A hs \in Images : hs \in Seq([paddr : Nat, filesz : Nat, memsz : Nat, off : Nat]) /\ Linked(hs)

VARIABLES phs,     \* the program headers, as the file holds them
          magic,   \* whether the file is an ELF file
          mem,
          pc,
          ph,      \* the program header bootmain is at
          seg      \* the locals of readseg: pa, epa, offset

vars == <<phs, magic, mem, pc, ph, seg>>

\* Faulty: the start of the segment's first sector is kept for its bytes.
BadReadsegStart(pa, count, offset) ==
  [pa |-> pa, epa |-> pa + count, offset |-> offset \div SECTSIZE + 1]

\* readseg: from pa, rounded down to where the sector with the offset begins,
\* sectors are read up to the end of the segment.
readsegStart(pa, count, offset) ==
  [pa |-> pa - (offset % SECTSIZE), epa |-> pa + count, offset |-> offset \div SECTSIZE + 1]

\* bootmain starts by reading the header.
Init ==
  /\ phs \in Images
  /\ magic \in BOOLEAN
  /\ mem = [a \in 0 .. MEM - 1 |-> Junk]
  /\ pc = "header"
  /\ ph = 1
  /\ seg = readsegStart(ELF, ELFSIZE, 0)

\* The offset in the file of the first byte of sector n.
SectorBytes(n) == (n - 1) * SECTSIZE

\* readsect in the loop of readseg.
readsect ==
  /\ pc \in {"header", "load"} /\ seg.pa < seg.epa
  /\ mem' = [a \in 0 .. MEM - 1 |->
               IF a \in seg.pa .. seg.pa + SECTSIZE - 1
               THEN SectorBytes(seg.offset) + a - seg.pa ELSE mem[a]]
  /\ seg' = [seg EXCEPT !.pa = @ + SECTSIZE, !.offset = @ + 1]
  /\ UNCHANGED <<phs, magic, pc, ph>>

Loaded == seg.pa >= seg.epa

\* The header is read: bootmain returns unless it is one of an ELF file.
checkMagic ==
  /\ pc = "header" /\ Loaded
  /\ pc' = IF magic THEN "next" ELSE "returned"
  /\ UNCHANGED <<phs, magic, mem, ph, seg>>

\* The next program header is read from the memory at ELF, which must still
\* hold it; or all are done, and the entry is called.
nextSegment ==
  /\ pc = "next"
  /\ IF ph > Len(phs) THEN pc' = "entry" /\ UNCHANGED seg
     ELSE /\ pc' = "load"
          /\ seg' = readsegStart(phs[ph].paddr, phs[ph].filesz, phs[ph].off)
  /\ UNCHANGED <<phs, magic, mem, ph>>

\* The rest of the segment in memory is cleared.
stosb ==
  /\ pc = "load" /\ Loaded
  /\ LET s == phs[ph] IN
     mem' = [a \in 0 .. MEM - 1 |->
               IF a \in s.paddr + s.filesz .. s.paddr + s.memsz - 1 THEN Zero ELSE mem[a]]
  /\ ph' = ph + 1
  /\ pc' = "next"
  /\ UNCHANGED <<phs, magic, seg>>

Next == readsect \/ checkMagic \/ nextSegment \/ stosb

Spec == Init /\ [][Next]_vars

-----------------------------------------------------------------------------

\* When the kernel is entered each of its segments is in memory: the bytes
\* of the file, then zeros, none of them overwritten by what readseg reads
\* before and behind a segment to fill whole sectors.  The header, which
\* bootmain reads the segments and the entry from, was intact all the while.
KernelLoaded ==
  /\ pc \in {"next", "load", "entry"} =>
       \A a \in ELF .. ELF + ELFSIZE - 1 : mem[a] = a - ELF
  /\ pc = "entry" =>
       \A i \in DOMAIN phs : \A k \in 0 .. phs[i].memsz - 1 :
         mem[phs[i].paddr + k] = IF k < phs[i].filesz THEN phs[i].off + k ELSE Zero
===============================================================================
