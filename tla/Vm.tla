---------------------------------- MODULE Vm ----------------------------------
(***************************************************************************)
(* Physical pages (kernel/kalloc.c), page tables (kernel/vm.c) and exec    *)
(* (kernel/exec.c), which builds a second address space beside the one of  *)
(* the process, switches to it and frees the old one, or frees the new one *)
(* when anything fails.  Memory may run out at every kalloc.               *)
(*                                                                         *)
(* An address space is a function from its places to pages: the directory, *)
(* one place for each page table, one for each page below KERNBASE; 0 is a *)
(* place without a page.  The pages the kernel maps above KERNBASE are not *)
(* allocated, only their tables are.                                       *)
(***************************************************************************)
EXTENDS Integers, FiniteSets

CONSTANTS NPAGES,     \* pages kinit1 and kinit2 put on the free list
          PGSIZE,     \* bytes of a page
          NPTE,       \* entries of a page table
          NUPDE,      \* directory entries below KERNBASE
          NKPDE,      \* directory entries that kmap fills
          WORD,       \* machine words are 0..WORD-1
          MaxSegs     \* bound on the segments of a program

NVPN == NUPDE * NPTE
KERNBASE == NVPN * PGSIZE

ASSUME VmAssumption ==
  /\ NPAGES \in Nat /\ PGSIZE \in Nat \ {0} /\ NPTE \in Nat \ {0}
  /\ NUPDE \in Nat \ {0} /\ NKPDE \in Nat \ {0}
  /\ NPAGES >= NKPDE + 3                \* enough for uinit
  /\ WORD \in Nat /\ KERNBASE + 2 * PGSIZE < WORD
  /\ MaxSegs \in Nat

Pages == 1..NPAGES
VPNs == 0..NVPN - 1
UPDEs == 0..NUPDE - 1
KPDEs == NUPDE..NUPDE + NKPDE - 1

DIR == <<"dir", 0>>
Tab(d) == <<"tab", d>>
Pte(v) == <<"pte", v>>
Places == {DIR} \cup {Tab(d) : d \in UPDEs \cup KPDEs} \cup {Pte(v) : v \in VPNs}

PDX(v) == v \div NPTE
PGROUNDUP(x) == ((x + PGSIZE - 1) \div PGSIZE) * PGSIZE
Page(x) == x \div PGSIZE

VARIABLES free,     \* free[p]: how often page p is on the free list
          cur,      \* the address space of the process
          curU,     \* its pages with PTE_U
          psz,      \* the size of the process
          other,    \* the address space exec builds, or frees
          otherU,   \* its pages with PTE_U
          mem,      \* a page that allocuvm holds and could not map, or 0
          pc,       \* where exec is
          sz,       \* exec's sz
          newsz,    \* the size allocuvm is to reach
          a,        \* the address allocuvm has reached
          seg,      \* vaddr and filesz of the segment being loaded
          nseg,     \* segments loaded
          kern      \* pages the kernel keeps: kpgdir, the kernel stack

space == <<cur, curU, psz>>
locals == <<sz, newsz, a, seg, nseg>>
vars == <<free, space, other, otherU, mem, pc, locals, kern>>

Empty == [x \in Places |-> 0]

\* setupkvm took a directory and the kernel's tables, inituvm a page for
\* address 0, mappages the table for it.
inituvm ==
  [x \in Places |->
     IF x = DIR THEN 1
     ELSE IF x[1] = "tab" /\ x[2] \in KPDEs THEN 2 + x[2] - NUPDE
     ELSE IF x = Pte(0) THEN 2 + NKPDE
     ELSE IF x = Tab(0) THEN 3 + NKPDE ELSE 0]

\* kvmalloc and allocproc took pages for good; how much memory they and the
\* size of the machine leave is open.
Kept == {n + 1..NPAGES : n \in NKPDE + 3..NPAGES}

\* The state that uinit leaves.
Init ==
  /\ cur = inituvm
  /\ curU = {0}
  /\ psz = PGSIZE
  /\ kern \in Kept
  /\ free = [p \in Pages |-> IF p <= NKPDE + 3 \/ p \in kern THEN 0 ELSE 1]
  /\ other = Empty /\ otherU = {} /\ mem = 0
  /\ pc = "user"
  /\ sz = 0 /\ newsz = 0 /\ a = 0 /\ nseg = 0
  /\ seg = [va |-> 0, filesz |-> 0]

-----------------------------------------------------------------------------
(***************************************************************************)
(* kalloc and kfree.  The order of the free list is left out: pages differ *)
(* in nothing, so kalloc's is one of those that are on the list.           *)
(***************************************************************************)

Avail == {p \in Pages : free[p] > 0}
kalloc(S) == CHOOSE p \in S : TRUE
Taken(p) == [free EXCEPT ![p] = @ - 1]
kfree(p) == [free EXCEPT ![p] = @ + 1]

\* The loops that map and free go through tables and pages in ascending
\* order, which makes no difference here.
First(S) == CHOOSE n \in S : TRUE

-----------------------------------------------------------------------------
(***************************************************************************)
(* setupkvm.                                                               *)
(***************************************************************************)

\* exec found the file and its ELF header; setupkvm takes a directory.
\* Without one exec returns with nothing changed.
exec ==
  /\ pc = "user"
  /\ IF Avail = {} THEN UNCHANGED <<free, other, pc, sz, nseg>>
     ELSE /\ other' = [Empty EXCEPT ![DIR] = kalloc(Avail)]
          /\ free' = Taken(kalloc(Avail))
          /\ pc' = "kvm"
          /\ sz' = 0 /\ nseg' = 0
  /\ UNCHANGED <<space, otherU, mem, newsz, a, seg, kern>>

KMissing == {d \in KPDEs : other[Tab(d)] = 0}

\* mappages of the kernel's part: one table after the other.
setupkvm ==
  /\ pc = "kvm"
  /\ IF KMissing = {} THEN pc' = "load" /\ UNCHANGED <<free, other>>
     ELSE IF Avail = {} THEN pc' = "freevm" /\ UNCHANGED <<free, other>>
     ELSE /\ other' = [other EXCEPT ![Tab(First(KMissing))] = kalloc(Avail)]
          /\ free' = Taken(kalloc(Avail))
          /\ UNCHANGED pc
  /\ UNCHANGED <<space, otherU, mem, locals, kern>>

-----------------------------------------------------------------------------
(***************************************************************************)
(* Loading.                                                                *)
(***************************************************************************)

\* Faulty variants, whose names start with Bad, stand before the definitions
\* they replace when the properties are tested for their teeth.

\* Faulty: the test for an overflow of vaddr + memsz is missing.
BadSegmentWrap(va, memsz, filesz) ==
  /\ pc = "load"
  /\ nseg < MaxSegs
  /\ LET end == (va + memsz) % WORD
     IN IF memsz < filesz \/ end >= KERNBASE
        THEN pc' = "freevm" /\ UNCHANGED <<newsz, a, seg>>
        ELSE /\ newsz' = IF end < sz THEN sz ELSE end
             /\ a' = PGROUNDUP(sz)
             /\ seg' = [va |-> va, filesz |-> filesz]
             /\ pc' = "alloc"
  /\ UNCHANGED <<free, space, other, otherU, mem, sz, nseg, kern>>

\* A program header of type ELF_PROG_LOAD, and the start of its allocuvm.
segment(va, memsz, filesz) ==
  /\ pc = "load"
  /\ nseg < MaxSegs
  /\ LET end == (va + memsz) % WORD
     IN IF memsz < filesz \/ end < va \/ end >= KERNBASE
        THEN pc' = "freevm" /\ UNCHANGED <<newsz, a, seg>>
        ELSE /\ newsz' = IF end < sz THEN sz ELSE end
             /\ a' = PGROUNDUP(sz)
             /\ seg' = [va |-> va, filesz |-> filesz]
             /\ pc' = "alloc"
  /\ UNCHANGED <<free, space, other, otherU, mem, sz, nseg, kern>>

\* One turn of allocuvm's loop: a page, and in walkpgdir a table if there is
\* none for it.
allocuvm ==
  /\ pc \in {"alloc", "stack"}
  /\ a < newsz
  /\ LET p == kalloc(Avail)
         t == Tab(PDX(Page(a)))
         q == kalloc(Avail \ {p})
     IN IF Avail = {}
        THEN pc' = "dealloc" /\ UNCHANGED <<free, other, otherU, mem, a>>
        ELSE IF other[t] = 0 /\ Avail = {p}
        THEN /\ pc' = "dealloc"
             /\ mem' = p
             /\ free' = Taken(p)
             /\ UNCHANGED <<other, otherU, a>>
        ELSE /\ other' = IF other[t] = 0
                         THEN [other EXCEPT ![Pte(Page(a))] = p, ![t] = q]
                         ELSE [other EXCEPT ![Pte(Page(a))] = p]
             /\ free' = IF other[t] = 0
                        THEN [free EXCEPT ![p] = @ - 1, ![q] = @ - 1]
                        ELSE Taken(p)
             /\ otherU' = otherU \cup {Page(a)}
             /\ a' = a + PGSIZE
             /\ UNCHANGED <<pc, mem>>
  /\ UNCHANGED <<space, sz, newsz, seg, nseg, kern>>

\* allocuvm returns to the loop over the segments.  A size of 0 is taken for
\* a failure.
allocated ==
  /\ pc = "alloc"
  /\ a >= newsz
  /\ sz' = newsz
  /\ pc' = IF newsz = 0 \/ seg.va % PGSIZE # 0 THEN "freevm" ELSE "loaduvm"
  /\ UNCHANGED <<free, space, other, otherU, mem, newsz, a, seg, nseg, kern>>

\* Faulty: the loop over the headers does not advance.
BadLoaduvm ==
  /\ pc = "loaduvm"
  /\ pc' \in {"load", "freevm"}
  /\ UNCHANGED <<free, space, other, otherU, mem, locals, kern>>

\* loaduvm reads the segment; readi may come up short.
loaduvm ==
  /\ pc = "loaduvm"
  /\ \/ pc' = "load" /\ nseg' = nseg + 1
     \/ pc' = "freevm" /\ UNCHANGED nseg
  /\ UNCHANGED <<free, space, other, otherU, mem, sz, newsz, a, seg, kern>>

\* After the last header, or when one cannot be read: two more pages.
stack ==
  /\ pc = "load"
  /\ \/ /\ PGROUNDUP(sz) + 2 * PGSIZE < KERNBASE
        /\ pc' = "stack"
        /\ sz' = PGROUNDUP(sz)
        /\ a' = PGROUNDUP(sz)
        /\ newsz' = PGROUNDUP(sz) + 2 * PGSIZE
     \/ /\ pc' = "freevm"
        /\ UNCHANGED <<sz, a, newsz>>
  /\ UNCHANGED <<free, space, other, otherU, mem, seg, nseg, kern>>

\* Faulty: the upper page loses PTE_U, the stack.
BadClearpteu ==
  /\ pc = "stack"
  /\ a >= newsz
  /\ sz' = newsz
  /\ otherU' = otherU \ {Page(newsz - PGSIZE)}
  /\ pc' = "copyout"
  /\ UNCHANGED <<free, space, other, mem, newsz, a, seg, nseg, kern>>

\* The lower one of them becomes the guard page.
clearpteu ==
  /\ pc = "stack"
  /\ a >= newsz
  /\ sz' = newsz
  /\ otherU' = otherU \ {Page(newsz - 2 * PGSIZE)}
  /\ pc' = "copyout"
  /\ UNCHANGED <<free, space, other, mem, newsz, a, seg, nseg, kern>>

\* Faulty: the address space that is freed is the one now in use.
BadCopyout ==
  /\ pc = "copyout"
  /\ pc' = "freevm"
  /\ \/ /\ cur' = other
        /\ curU' = otherU
        /\ psz' = sz
     \/ UNCHANGED space
  /\ UNCHANGED <<free, other, otherU, mem, locals, kern>>

\* The arguments fit and the process gets the new address space, the old one
\* is to be freed; or copyout meets the guard page.
copyout ==
  /\ pc = "copyout"
  /\ pc' = "freevm"
  /\ \/ /\ cur' = other /\ other' = cur
        /\ curU' = otherU /\ otherU' = curU
        /\ psz' = sz
     \/ UNCHANGED <<space, other, otherU>>
  /\ UNCHANGED <<free, mem, locals, kern>>

-----------------------------------------------------------------------------
(***************************************************************************)
(* Freeing.                                                                *)
(***************************************************************************)

\* The pages from page v on that deallocuvm finds: it looks only into tables
\* that are there.
Found(v) == {w \in VPNs : w >= v /\ other[Tab(PDX(w))] # 0 /\ other[Pte(w)] # 0}

\* deallocuvm frees and clears the first one.
FreeUser(w) ==
  /\ free' = kfree(other[Pte(w)])
  /\ other' = [other EXCEPT ![Pte(w)] = 0]
  /\ otherU' = otherU \ {w}

\* Faulty: the page that could not be mapped is forgotten.
BadDealloc ==
  /\ pc = "dealloc"
  /\ LET gone == {w \in Found(Page(PGROUNDUP(sz))) : w * PGSIZE < newsz}
     IN IF gone # {}
        THEN FreeUser(First(gone)) /\ UNCHANGED <<mem, pc>>
        ELSE /\ mem' = 0
             /\ pc' = "freevm"
             /\ UNCHANGED <<free, other, otherU>>
  /\ UNCHANGED <<space, locals, kern>>

\* The deallocuvm of an allocuvm that fails, down to the old size; then the
\* page it could not map goes back.
dealloc ==
  /\ pc = "dealloc"
  /\ LET gone == {w \in Found(Page(PGROUNDUP(sz))) : w * PGSIZE < newsz}
     IN IF gone # {}
        THEN FreeUser(First(gone)) /\ UNCHANGED <<mem, pc>>
        ELSE /\ free' = IF mem = 0 THEN free ELSE kfree(mem)
             /\ mem' = 0
             /\ pc' = "freevm"
             /\ UNCHANGED <<other, otherU>>
  /\ UNCHANGED <<space, locals, kern>>

Tabs == {d \in UPDEs \cup KPDEs : other[Tab(d)] # 0}

\* Faulty: the tables go first.
BadFreevm ==
  /\ pc = "freevm"
  /\ IF Tabs = {} /\ Found(0) # {} THEN FreeUser(First(Found(0))) /\ UNCHANGED pc
     ELSE /\ LET x == IF Tabs # {} THEN Tab(First(Tabs)) ELSE DIR
             IN free' = kfree(other[x]) /\ other' = [other EXCEPT ![x] = 0]
          /\ pc' = IF Tabs # {} THEN pc ELSE "user"
          /\ UNCHANGED otherU
  /\ UNCHANGED <<space, mem, locals, kern>>

\* freevm: the user pages, then the tables, then the directory.  A place is
\* cleared when freevm's loop has passed it.
freevm ==
  /\ pc = "freevm"
  /\ IF Found(0) # {} THEN FreeUser(First(Found(0))) /\ UNCHANGED pc
     ELSE /\ LET x == IF Tabs # {} THEN Tab(First(Tabs)) ELSE DIR
             IN free' = kfree(other[x]) /\ other' = [other EXCEPT ![x] = 0]
          /\ pc' = IF Tabs # {} THEN pc ELSE "user"
          /\ UNCHANGED otherU
  /\ UNCHANGED <<space, mem, locals, kern>>

Next ==
  \/ exec \/ setupkvm
  \/ \E va, memsz, filesz \in 0..WORD-1 : segment(va, memsz, filesz)
  \/ allocuvm \/ allocated \/ loaduvm \/ stack \/ clearpteu \/ copyout
  \/ dealloc \/ freevm

Spec == Init /\ [][Next]_vars

\* The kernel runs exec to its end: nothing preempts it for good.
FairSpec == Spec /\ WF_vars(Next)

-----------------------------------------------------------------------------
(***************************************************************************)
(* Properties.                                                             *)
(***************************************************************************)

Space == [Places -> {0} \cup Pages]

\* Places hold pages, sizes are machine words.
TypeOK ==
  /\ free \in [Pages -> Nat]
  /\ cur \in Space /\ other \in Space
  /\ curU \in SUBSET VPNs /\ otherU \in SUBSET VPNs
  /\ mem \in {0} \cup Pages
  /\ pc \in {"user", "kvm", "load", "alloc", "stack", "loaduvm", "copyout",
             "dealloc", "freevm"}
  /\ psz \in 0..KERNBASE /\ sz \in 0..KERNBASE /\ newsz \in 0..KERNBASE
  /\ a \in Nat
  /\ seg \in [va : 0..WORD-1, filesz : 0..WORD-1]
  /\ nseg \in 0..MaxSegs
  /\ kern \subseteq Pages

\* A page is used for one thing only.
Exclusive ==
  /\ \A x, y \in Places : cur[x] = cur[y] /\ cur[x] # 0 => x = y
  /\ \A x, y \in Places : other[x] = other[y] /\ other[x] # 0 => x = y
  /\ \A x, y \in Places : cur[x] # 0 => cur[x] # other[y]
  /\ \A x \in Places : mem # 0 => mem # cur[x] /\ mem # other[x]
  /\ mem \notin kern
  /\ \A x \in Places : cur[x] \notin kern /\ other[x] \notin kern

\* No page is freed twice, or while an address space still uses it.
NoDoubleFree ==
  /\ \A p \in Pages : free[p] <= 1
  /\ \A x \in Places : /\ cur[x] # 0 => free[cur[x]] = 0
                       /\ other[x] # 0 => free[other[x]] = 0
  /\ mem # 0 => free[mem] = 0
  /\ \A p \in kern : free[p] = 0

\* The pages are used soundly, whatever exec does and wherever memory runs
\* out: none for two things, and none freed twice or while it is in use.
\* With the types of the variables this is inductive by itself.
PageInv ==
  /\ free \in [Pages -> Nat]
  /\ cur \in Space /\ other \in Space
  /\ mem \in {0} \cup Pages
  /\ kern \subseteq Pages
  /\ Exclusive
  /\ NoDoubleFree

\* Every page is free or reachable: neither a successful exec nor one that
\* fails at any kalloc loses a page.
NoLeak ==
  /\ \A p \in Pages : free[p] = 0 =>
       mem = p \/ p \in kern \/ \E x \in Places : cur[x] = p \/ other[x] = p
  /\ pc = "user" => mem = 0 /\ other = Empty

\* A page of an address space has its table, so that the tables are never
\* freed before what they map.
Backed ==
  \A v \in VPNs : /\ cur[Pte(v)] # 0 => cur[Tab(PDX(v))] # 0
                  /\ other[Pte(v)] # 0 => other[Tab(PDX(v))] # 0

\* loaduvm finds a page for every address of the segment ("loaduvm: address
\* should exist" is never printed).
LoadFindsPages ==
  pc = "loaduvm" =>
    \A i \in 0..WORD-1 : i < seg.filesz =>
      /\ Page(seg.va + i) \in VPNs
      /\ other[Pte(Page(seg.va + i))] # 0

\* The process has exactly the pages below its size, and may use all of them
\* but the guard page below its stack.
ImageComplete ==
  /\ \A v \in VPNs : cur[Pte(v)] # 0 <=> v < Page(psz)
  /\ curU = {v \in VPNs : v < Page(psz) /\ (psz # PGSIZE => v # Page(psz) - 2)}
  /\ psz % PGSIZE = 0

\* exec comes back, with the new image or with the old one: its loops over
\* segments, pages and tables end.
ExecReturns == pc # "user" ~> pc = "user"
===============================================================================
