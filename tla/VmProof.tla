------------------------------- MODULE VmProof --------------------------------
(***************************************************************************)
(* exec, for every amount of memory, every size of pages and tables and    *)
(* every program: no page serves two purposes, is freed twice or is lost,  *)
(* whichever kalloc fails, and the process always has the pages from 0 up  *)
(* to its size.                                                            *)
(***************************************************************************)
EXTENDS Vm, TLAPS

-----------------------------------------------------------------------------
(***************************************************************************)
(* What a step does to the pages of the second address space.              *)
(***************************************************************************)

\* kfree puts its page on the list once more and leaves the others alone.
LEMMA KfreeCounts ==
  ASSUME free \in [Pages -> Nat], NEW p
  PROVE  /\ kfree(p) \in [Pages -> Nat]
         /\ \A q \in Pages : kfree(p)[q] = IF q = p THEN free[q] + 1 ELSE free[q]
<1>1. CASE p \in Pages
  BY <1>1 DEF kfree
<1>2. CASE p \notin Pages
  <2>1. kfree(p) = free
    BY <1>2 DEF kfree
  <2> QED
    BY <1>2, <2>1
<1> QED
  BY <1>1, <1>2

\* A page on the free list is in no place.
LEMMA FreshPage ==
  ASSUME PageInv, NEW p \in Avail
  PROVE  /\ p \in Pages /\ p # 0 /\ free[p] = 1 /\ p # mem /\ p \notin kern
         /\ \A x \in Places : cur[x] # p /\ other[x] # p
<1>1. p \in Pages /\ p # 0 /\ free[p] \in Nat /\ free[p] > 0
  BY DEF Avail, Pages, PageInv
<1>2. free[p] = 1
  BY <1>1 DEF PageInv, NoDoubleFree
<1> QED
  BY <1>1, <1>2 DEF PageInv, NoDoubleFree

\* kalloc returns a page of the list it is given.
LEMMA KallocMember ==
  ASSUME NEW S, S # {}
  PROVE  kalloc(S) \in S
  BY DEF kalloc

\* Placing a page that kalloc returned keeps the invariant, wherever it goes.
LEMMA Place ==
  ASSUME PageInv, NEW p \in Avail, NEW x,
         free' = Taken(p), other' = [other EXCEPT ![x] = p],
         UNCHANGED <<cur, mem, kern>>
  PROVE  PageInv'
<1>1. /\ p \in Pages /\ p # 0 /\ free[p] = 1 /\ p # mem /\ p \notin kern
      /\ \A y \in Places : cur[y] # p /\ other[y] # p
  BY FreshPage
<1>2. free' \in [Pages -> Nat] /\ \A q \in Pages : free'[q] = IF q = p THEN 0 ELSE free[q]
  BY <1>1 DEF PageInv, Taken
<1>3. other' \in Space /\ \A y \in Places : other'[y] = IF y = x THEN p ELSE other[y]
  BY <1>1 DEF PageInv, Space
<1>4. \A y \in Places : /\ cur[y] \in {0} \cup Pages
                        /\ other[y] \in {0} \cup Pages
  BY DEF PageInv, Space
<1>5. Exclusive'
  BY <1>1, <1>3 DEF PageInv, Exclusive
<1>6. NoDoubleFree'
  BY <1>1, <1>2, <1>3, <1>4 DEF PageInv, NoDoubleFree
<1> QED
  BY <1>2, <1>3, <1>5, <1>6 DEF PageInv

\* Freeing the page of a place and clearing the place keeps the invariant.
LEMMA Release ==
  ASSUME PageInv, NEW x \in Places,
         free' = kfree(other[x]), other' = [other EXCEPT ![x] = 0],
         UNCHANGED <<cur, mem, kern>>
  PROVE  PageInv'
<1> DEFINE p == other[x]
<1>1. \A y \in Places : /\ cur[y] \in {0} \cup Pages
                        /\ other[y] \in {0} \cup Pages
  BY DEF PageInv, Space
<1>2. 0 \notin Pages
  BY DEF Pages
<1>3. /\ free' \in [Pages -> Nat]
      /\ \A q \in Pages : free'[q] = IF q = p THEN free[q] + 1 ELSE free[q]
  BY KfreeCounts DEF PageInv
<1>4. other' \in Space /\ \A y \in Places : other'[y] = IF y = x THEN 0 ELSE other[y]
  BY DEF PageInv, Space
<1>5. Exclusive'
  BY <1>1, <1>2, <1>4 DEF PageInv, Exclusive
<1>6. p # 0 => /\ free[p] = 0 /\ mem # p /\ p \notin kern
               /\ \A y \in Places : cur[y] # p /\ (y # x => other[y] # p)
  BY DEF PageInv, Exclusive, NoDoubleFree
<1>7. NoDoubleFree'
  BY <1>1, <1>2, <1>3, <1>4, <1>6 DEF PageInv, NoDoubleFree
<1> QED
  BY <1>3, <1>4, <1>5, <1>7 DEF PageInv

\* A step that leaves pages and places alone.
LEMMA Stutter ==
  ASSUME PageInv, UNCHANGED <<free, cur, other, mem, kern>>
  PROVE  PageInv'
  BY DEF PageInv, Exclusive, NoDoubleFree, Space

-----------------------------------------------------------------------------
(***************************************************************************)
(* The actions.                                                            *)
(***************************************************************************)

\* uinit gives each place a page of its own.
LEMMA InitPageInv == Init => PageInv
<1> SUFFICES ASSUME Init PROVE PageInv
  OBVIOUS
<1>1. NPAGES \in Nat /\ NKPDE \in Nat /\ NUPDE \in Nat /\ NUPDE > 0 /\ NPAGES >= NKPDE + 3
  BY VmAssumption
<1> DEFINE f(x) == IF x = DIR THEN 1
                   ELSE IF x[1] = "tab" /\ x[2] \in KPDEs THEN 2 + x[2] - NUPDE
                   ELSE IF x = Pte(0) THEN 2 + NKPDE
                   ELSE IF x = Tab(0) THEN 3 + NKPDE ELSE 0
<1>2. \A x \in Places : f(x) \in 0..NKPDE + 3
  BY <1>1 DEF KPDEs
<1>3. \A x, y \in Places : f(x) = f(y) /\ f(x) # 0 => x = y
  BY <1>1 DEF KPDEs, Places, DIR, Tab, Pte
<1>4. cur = [x \in Places |-> f(x)]
  BY DEF Init, inituvm
<1> HIDE DEF f
<1>5. PICK n \in NKPDE + 3..NPAGES : kern = n + 1..NPAGES
  BY DEF Init, Kept
<1>6. /\ free \in [Pages -> Nat]
      /\ \A p \in Pages : free[p] = IF p <= NKPDE + 3 \/ p \in kern THEN 0 ELSE 1
  BY DEF Init
<1>7. \A x \in Places : cur[x] \in 0..NKPDE + 3 /\ other[x] = 0
  BY <1>2, <1>4 DEF Init, Empty
<1>8. cur \in Space /\ other \in Space /\ kern \subseteq Pages /\ mem = 0
  BY <1>1, <1>2, <1>4, <1>5 DEF Space, Pages, Init, Empty
<1>9. 0 \notin kern /\ \A p \in kern : p > NKPDE + 3
  BY <1>1, <1>5
<1>10. Exclusive
  BY <1>1, <1>3, <1>4, <1>7, <1>8, <1>9 DEF Exclusive
<1>11. NoDoubleFree
  BY <1>1, <1>6, <1>7, <1>8, <1>9 DEF NoDoubleFree, Pages
<1> QED
  BY <1>6, <1>8, <1>10, <1>11 DEF PageInv

\* exec takes a directory for an address space that has no other page yet.
LEMMA ExecPageInv ==
  ASSUME PageInv, exec
  PROVE  PageInv'
<1>1. CASE Avail = {}
  BY <1>1, Stutter DEF exec, space
<1>2. CASE Avail # {}
  <2> DEFINE p == kalloc(Avail)
  <2>1. p \in Avail
    BY <1>2, KallocMember
  <2> HIDE DEF p
  <2>2. free' = Taken(p) /\ other' = [Empty EXCEPT ![DIR] = p] /\ UNCHANGED <<cur, mem, kern>>
    BY <1>2 DEF exec, space, p
  <2>3. /\ p \in Pages /\ p # 0 /\ free[p] = 1 /\ p # mem /\ p \notin kern
        /\ \A y \in Places : cur[y] # p /\ other[y] # p
    BY <2>1, FreshPage
  <2>4. /\ free' \in [Pages -> Nat]
        /\ \A q \in Pages : free'[q] = IF q = p THEN 0 ELSE free[q]
    BY <2>2, <2>3 DEF PageInv, Taken
  <2>5. other' \in Space /\ \A y \in Places : other'[y] = IF y = DIR THEN p ELSE 0
    BY <2>2, <2>3 DEF Space, Empty
  <2>6. 0 \notin Pages /\ \A y \in Places : cur[y] \in {0} \cup Pages
    BY DEF PageInv, Space, Pages
  <2>7. Exclusive'
    BY <2>2, <2>3, <2>5, <2>6 DEF PageInv, Exclusive
  <2>8. NoDoubleFree'
    BY <2>2, <2>3, <2>4, <2>5, <2>6 DEF PageInv, NoDoubleFree
  <2> QED
    BY <2>2, <2>4, <2>5, <2>7, <2>8 DEF PageInv
<1> QED
  BY <1>1, <1>2

\* allocuvm places one page, or two different ones.
LEMMA AllocuvmPageInv ==
  ASSUME PageInv, allocuvm
  PROVE  PageInv'
<1> DEFINE p == kalloc(Avail)
           t == Tab(PDX(Page(a)))
           x == Pte(Page(a))
           q == kalloc(Avail \ {p})
<1>1. CASE Avail = {}
  BY <1>1, Stutter DEF allocuvm, space
<1>2. CASE Avail # {} /\ other[t] = 0 /\ Avail = {p}
  <2>1. p \in Avail
    BY <1>2, KallocMember
  <2>2. mem' = p /\ free' = Taken(p) /\ UNCHANGED <<cur, other, kern>>
    BY <1>2 DEF allocuvm, space
  <2> HIDE DEF p
  <2>3. /\ p \in Pages /\ p # 0 /\ free[p] = 1 /\ p # mem /\ p \notin kern
        /\ \A y \in Places : cur[y] # p /\ other[y] # p
    BY <2>1, FreshPage
  <2>4. /\ free' \in [Pages -> Nat]
        /\ \A r \in Pages : free'[r] = IF r = p THEN 0 ELSE free[r]
    BY <2>2, <2>3 DEF PageInv, Taken
  <2>5. \A y \in Places : cur[y] \in {0} \cup Pages /\ other[y] \in {0} \cup Pages
    BY DEF PageInv, Space
  <2>6. Exclusive'
    BY <2>2, <2>3 DEF PageInv, Exclusive
  <2>7. NoDoubleFree'
    BY <2>2, <2>3, <2>4, <2>5 DEF PageInv, NoDoubleFree
  <2> QED
    BY <2>2, <2>3, <2>4, <2>6, <2>7 DEF PageInv
<1>3. CASE Avail # {} /\ other[t] # 0
  <2>1. p \in Avail
    BY <1>3, KallocMember
  <2>2. free' = Taken(p) /\ other' = [other EXCEPT ![x] = p] /\ UNCHANGED <<cur, mem, kern>>
    BY <1>3 DEF allocuvm, space
  <2> HIDE DEF p, x
  <2> QED
    BY <2>1, <2>2, Place
<1>4. CASE Avail # {} /\ other[t] = 0 /\ Avail # {p}
  <2>1. p \in Avail /\ q \in Avail /\ q # p
    <3>1. p \in Avail
      BY <1>4, KallocMember
    <3>2. Avail \ {p} # {}
      BY <1>4, <3>1
    <3>3. q \in Avail \ {p}
      BY <3>2, KallocMember
    <3> QED
      BY <3>1, <3>3
  <2>2. /\ free' = [free EXCEPT ![p] = @ - 1, ![q] = @ - 1]
        /\ other' = [other EXCEPT ![x] = p, ![t] = q]
        /\ UNCHANGED <<cur, mem, kern>>
    BY <1>4 DEF allocuvm, space
  <2>3. x # t
    BY DEF Pte, Tab
  <2> HIDE DEF p, q, x, t
  <2>4. /\ p \in Pages /\ p # 0 /\ free[p] = 1 /\ p # mem /\ p \notin kern
        /\ \A y \in Places : cur[y] # p /\ other[y] # p
    BY <2>1, FreshPage
  <2>5. /\ q \in Pages /\ q # 0 /\ free[q] = 1 /\ q # mem /\ q \notin kern
        /\ \A y \in Places : cur[y] # q /\ other[y] # q
    BY <2>1, FreshPage
  <2>6. /\ free' \in [Pages -> Nat]
        /\ \A r \in Pages : free'[r] = IF r = p \/ r = q THEN 0 ELSE free[r]
    BY <2>1, <2>2, <2>4, <2>5 DEF PageInv
  <2>7. /\ other' \in Space
        /\ \A y \in Places : other'[y] = IF y = x THEN p ELSE IF y = t THEN q ELSE other[y]
    BY <2>2, <2>3, <2>4, <2>5 DEF PageInv, Space
  <2>8. \A y \in Places : cur[y] \in {0} \cup Pages /\ other[y] \in {0} \cup Pages
    BY DEF PageInv, Space
  <2>9. Exclusive'
    <3>1. \A y, z \in Places : other'[y] = other'[z] /\ other'[y] # 0 => y = z
      BY <2>1, <2>3, <2>4, <2>5, <2>7 DEF PageInv, Exclusive
    <3>2. \A y, z \in Places : cur[y] # 0 => cur[y] # other'[z]
      BY <2>4, <2>5, <2>7 DEF PageInv, Exclusive
    <3>3. \A y \in Places : mem # 0 => mem # cur[y] /\ mem # other'[y]
      BY <2>4, <2>5, <2>7 DEF PageInv, Exclusive
    <3>4. \A y \in Places : cur[y] \notin kern /\ other'[y] \notin kern
      BY <2>4, <2>5, <2>7 DEF PageInv, Exclusive
    <3>5. mem \notin kern /\ \A y, z \in Places : cur[y] = cur[z] /\ cur[y] # 0 => y = z
      BY DEF PageInv, Exclusive
    <3> QED
      BY <2>2, <3>1, <3>2, <3>3, <3>4, <3>5, Zenon DEF Exclusive
  <2>10. NoDoubleFree'
    <3>1. \A r \in Pages : free'[r] <= 1
      BY <2>6 DEF PageInv, NoDoubleFree
    <3>2. \A y \in Places : cur[y] # 0 => free'[cur[y]] = 0
      BY <2>6, <2>8 DEF PageInv, NoDoubleFree
    <3>3. \A y \in Places : other'[y] # 0 => free'[other'[y]] = 0
      BY <2>4, <2>5, <2>6, <2>7, <2>8 DEF PageInv, NoDoubleFree
    <3>4. /\ mem # 0 => free'[mem] = 0
          /\ \A r \in kern : free'[r] = 0
      BY <2>6 DEF PageInv, NoDoubleFree
    <3> QED
      BY <2>2, <3>1, <3>2, <3>3, <3>4 DEF NoDoubleFree
  <2> QED
    BY <2>2, <2>6, <2>7, <2>9, <2>10 DEF PageInv
<1> QED
  BY <1>1, <1>2, <1>3, <1>4

\* The steps of an exec preserve the invariant.
LEMMA NextPageInv ==
  ASSUME PageInv, Next
  PROVE  PageInv'
<1>1. CASE exec
  BY <1>1, ExecPageInv
<1>2. CASE setupkvm
  <2>1. CASE KMissing # {} /\ Avail # {}
    BY <1>2, <2>1, KallocMember, Place DEF setupkvm, space
  <2>2. CASE KMissing = {} \/ Avail = {}
    BY <1>2, <2>2, Stutter DEF setupkvm, space
  <2> QED
    BY <2>1, <2>2
<1>3. CASE \E va, memsz, filesz \in 0..WORD-1 : segment(va, memsz, filesz)
  BY <1>3, Stutter DEF segment, space
<1>4. CASE allocuvm
  BY <1>4, AllocuvmPageInv
<1>5. CASE allocated
  BY <1>5, Stutter DEF allocated, space
<1>6. CASE loaduvm
  BY <1>6, Stutter DEF loaduvm, space
<1>7. CASE stack
  BY <1>7, Stutter DEF stack, space
<1>8. CASE clearpteu
  BY <1>8, Stutter DEF clearpteu, space
<1>9. CASE copyout
  <2>1. CASE cur' = other /\ other' = cur
    <3>1. UNCHANGED <<free, mem, kern>>
      BY <1>9 DEF copyout
    <3>2. Exclusive'
      BY <2>1, <3>1 DEF PageInv, Exclusive
    <3>3. NoDoubleFree'
      <4>1. /\ \A p \in Pages : free[p] <= 1
            /\ \A p \in kern : free[p] = 0
            /\ mem # 0 => free[mem] = 0
        BY DEF PageInv, NoDoubleFree
      <4>2. \A x \in Places : /\ cur[x] # 0 => free[cur[x]] = 0
                              /\ other[x] # 0 => free[other[x]] = 0
        BY DEF PageInv, NoDoubleFree
      <4> QED
        BY <2>1, <3>1, <4>1, <4>2, Zenon DEF NoDoubleFree
    <3> QED
      BY <2>1, <3>1, <3>2, <3>3 DEF PageInv
  <2>2. CASE UNCHANGED <<cur, other>>
    BY <1>9, <2>2, Stutter DEF copyout
  <2> QED
    BY <1>9, <2>1, <2>2 DEF copyout, space
<1>10. CASE dealloc
  <2> DEFINE gone == {w \in Found(Page(PGROUNDUP(sz))) : w * PGSIZE < newsz}
  <2>1. CASE gone # {}
    <3>1. First(gone) \in VPNs
      BY <2>1 DEF First, Found
    <3>2. Pte(First(gone)) \in Places
      BY <3>1 DEF Places
    <3>3. FreeUser(First(gone)) /\ UNCHANGED <<cur, mem, kern>>
      BY <1>10, <2>1 DEF dealloc, space
    <3> QED
      BY <3>2, <3>3, Release DEF FreeUser
  <2>2. CASE gone = {}
    <3>1. /\ free' = IF mem = 0 THEN free ELSE kfree(mem)
          /\ mem' = 0 /\ UNCHANGED <<cur, other, kern>>
      BY <1>10, <2>2 DEF dealloc, space
    <3>2. 0 \notin Pages /\ \A x \in Places : cur[x] \in {0} \cup Pages /\ other[x] \in {0} \cup Pages
      BY DEF PageInv, Space, Pages
    <3>3. /\ free' \in [Pages -> Nat]
          /\ \A q \in Pages : free'[q] = IF q = mem THEN free[q] + 1 ELSE free[q]
      BY <3>1, <3>2, KfreeCounts DEF PageInv
    <3>4. Exclusive'
      BY <3>1, <3>2 DEF PageInv, Exclusive
    <3>5. NoDoubleFree'
      <4>1. /\ \A q \in Pages : free[q] <= 1
            /\ \A q \in kern : free[q] = 0 /\ q \in Pages /\ q # mem
            /\ mem # 0 => free[mem] = 0
        BY DEF PageInv, NoDoubleFree, Exclusive
      <4>2. \A q \in Pages : free'[q] <= 1
        BY <3>2, <3>3, <4>1 DEF PageInv
      <4>3. \A x \in Places : /\ cur[x] # 0 => free'[cur[x]] = 0
                              /\ other[x] # 0 => free'[other[x]] = 0
        <5> SUFFICES ASSUME NEW x \in Places
                     PROVE  /\ cur[x] # 0 => free'[cur[x]] = 0
                            /\ other[x] # 0 => free'[other[x]] = 0
          OBVIOUS
        <5>1. /\ cur[x] # 0 => free[cur[x]] = 0 /\ cur[x] # mem /\ cur[x] \in Pages
              /\ other[x] # 0 => free[other[x]] = 0 /\ other[x] # mem /\ other[x] \in Pages
          BY <3>2 DEF PageInv, NoDoubleFree, Exclusive
        <5> QED
          BY <3>3, <5>1
      <4> QED
        BY <3>1, <3>3, <4>1, <4>2, <4>3 DEF PageInv, NoDoubleFree
    <3> QED
      BY <3>1, <3>3, <3>4, <3>5 DEF PageInv
  <2> QED
    BY <2>1, <2>2
<1>11. CASE freevm
  <2>1. CASE Found(0) # {}
    <3>1. First(Found(0)) \in VPNs
      BY <2>1 DEF First, Found
    <3>2. Pte(First(Found(0))) \in Places
      BY <3>1 DEF Places
    <3>3. FreeUser(First(Found(0))) /\ UNCHANGED <<cur, mem, kern>>
      BY <1>11, <2>1 DEF freevm, space
    <3> QED
      BY <3>2, <3>3, Release DEF FreeUser
  <2>2. CASE Found(0) = {}
    <3> DEFINE x == IF Tabs # {} THEN Tab(First(Tabs)) ELSE DIR
    <3>1. x \in Places
      BY DEF First, Tabs, Places
    <3>2. free' = kfree(other[x]) /\ other' = [other EXCEPT ![x] = 0] /\ UNCHANGED <<cur, mem, kern>>
      BY <1>11, <2>2 DEF freevm, space
    <3> QED
      BY <3>1, <3>2, Release
  <2> QED
    BY <2>1, <2>2
<1> QED
  BY <1>1, <1>2, <1>3, <1>4, <1>5, <1>6, <1>7, <1>8, <1>9, <1>10, <1>11 DEF Next

-----------------------------------------------------------------------------

\* No page ever serves two purposes, and none is freed twice or while it is
\* in use, in any sequence of execs.
THEOREM MemorySafe == Spec => []PageInv
<1>1. PageInv /\ [Next]_vars => PageInv'
  <2> SUFFICES ASSUME PageInv, [Next]_vars PROVE PageInv'
    OBVIOUS
  <2>1. CASE Next
    BY <2>1, NextPageInv
  <2>2. CASE UNCHANGED vars
    BY <2>2, Stutter DEF vars, space
  <2> QED
    BY <2>1, <2>2
<1> QED
  BY <1>1, InitPageInv, PTL DEF Spec

-----------------------------------------------------------------------------
(***************************************************************************)
(* The address space that exec builds.  Loading fills the pages from 0 on  *)
(* without a gap: this is what makes loaduvm find its pages, and what a    *)
(* failing allocuvm has to undo.                                           *)
(***************************************************************************)

\* Address space A has the first n pages, all of them for the user.
Upto(A, U, n) ==
  /\ \A v \in VPNs : A[Pte(v)] # 0 <=> v < n
  /\ U = {v \in VPNs : v < n}

\* What ImageComplete says of an address space of size s.
Image(A, U, s) ==
  /\ \A v \in VPNs : A[Pte(v)] # 0 <=> v < Page(s)
  /\ U = {v \in VPNs : v < Page(s) /\ (s # PGSIZE => v # Page(s) - 2)}
  /\ s % PGSIZE = 0

SizeInv ==
  /\ psz \in Nat /\ sz \in 0..KERNBASE - 1 /\ newsz \in 0..KERNBASE - 1 /\ a \in Nat
  /\ seg \in [va : 0..WORD-1, filesz : 0..WORD-1]

\* No page is lost.
Accounted ==
  \A p \in Pages : free[p] = 0 =>
    mem = p \/ p \in kern \/ \E x \in Places : cur[x] = p \/ other[x] = p

\* How far the new address space is, by the place exec is at.
BuildInv ==
  /\ mem # 0 => pc = "dealloc"
  /\ pc = "user" => other = Empty
  /\ pc = "kvm" => sz = 0
  /\ pc \in {"user", "kvm"} => Upto(other, otherU, 0)
  /\ pc \in {"load", "loaduvm"} => Upto(other, otherU, Page(PGROUNDUP(sz)))
  /\ pc \in {"alloc", "stack"} =>
       Upto(other, otherU, Page(a)) /\ a = Page(a) * PGSIZE /\ a < newsz + PGSIZE
  /\ pc \in {"alloc", "loaduvm"} => seg.va + seg.filesz <= newsz
  /\ pc = "loaduvm" => sz = newsz
  /\ pc = "stack" => newsz = Page(newsz) * PGSIZE /\ Page(newsz) >= 2
  /\ pc = "copyout" => Image(other, otherU, sz)
  /\ pc \in {"dealloc", "freevm"} => otherU \subseteq {v \in VPNs : other[Pte(v)] # 0}

IInv ==
  /\ PageInv
  /\ SizeInv
  /\ Accounted
  /\ Backed
  /\ Image(cur, curU, psz)
  /\ BuildInv

-----------------------------------------------------------------------------
(***************************************************************************)
(* Page arithmetic.                                                        *)
(***************************************************************************)

\* Division.
LEMMA Quotient ==
  ASSUME NEW b \in Nat, b > 0, NEW x \in Nat
  PROVE  /\ x \div b \in Nat /\ x % b \in 0..b - 1
         /\ x = b * (x \div b) + (x % b)
<1>1. x = b * (x \div b) + (x % b)
  OBVIOUS
<1>2. x \div b \in Nat /\ x % b \in 0..b - 1
  OBVIOUS
<1> QED
  BY <1>1, <1>2

\* A quotient is below n when the number is below the product.
LEMMA QuotientLess ==
  ASSUME NEW b \in Nat, b > 0, NEW x \in Nat, NEW n \in Nat
  PROVE  x \div b < n <=> x < n * b
<1> DEFINE q == x \div b
<1>1. q \in Nat /\ b * q <= x /\ x < b * q + b
  BY Quotient
<1> HIDE DEF q
<1>2. ASSUME q < n PROVE x < n * b
  <2>1. n >= q + 1
    BY <1>1, <1>2
  <2>2. n * b >= (q + 1) * b
    BY <1>1, <2>1
  <2> QED
    BY <1>1, <2>2
<1>3. ASSUME ~(q < n) PROVE ~(x < n * b)
  <2>1. q >= n
    BY <1>1, <1>3
  <2>2. q * b >= n * b
    BY <1>1, <2>1
  <2> QED
    BY <1>1, <2>2
<1> QED
  BY <1>2, <1>3 DEF q

\* The page of a multiple of the page size, and the quotient of a product.
LEMMA Multiple ==
  ASSUME NEW b \in Nat, b > 0, NEW n \in Nat
  PROVE  n * b \in Nat /\ (n * b) \div b = n /\ (n * b) % b = 0
<1> DEFINE x == n * b  q == x \div b
<1>1. x \in Nat
  OBVIOUS
<1>2. q \in Nat /\ x % b \in 0..b - 1 /\ x = b * q + (x % b)
  BY <1>1, Quotient
<1>3. q < n + 1 /\ ~(q < n)
  <2>1. n + 1 \in Nat /\ x < (n + 1) * b /\ ~(x < n * b)
    BY <1>1
  <2> QED
    BY <1>1, <2>1, QuotientLess
<1>4. q = n
  <2> HIDE DEF q, x
  <2> QED
    BY <1>2, <1>3
<1>5. x = b * n + (x % b)
  BY <1>2, <1>4
<1>6. x % b = 0
  <2>1. b * n = x
    OBVIOUS
  <2> HIDE DEF x
  <2>2. b * n \in Nat
    BY <1>1, <2>1
  <2> QED
    BY <1>1, <1>2, <1>5, <2>1, <2>2
<1> QED
  BY <1>1, <1>4, <1>6

\* The constants.
LEMMA Sizes ==
  /\ PGSIZE \in Nat /\ PGSIZE > 0 /\ NPTE \in Nat /\ NPTE > 0
  /\ NVPN \in Nat /\ NVPN > 0 /\ KERNBASE \in Nat /\ KERNBASE = NVPN * PGSIZE /\ KERNBASE > 0
  /\ WORD \in Nat /\ KERNBASE < WORD /\ NVPN = NUPDE * NPTE /\ NUPDE \in Nat /\ NUPDE > 0
<1>1. PGSIZE \in Nat /\ PGSIZE > 0 /\ NPTE \in Nat /\ NPTE > 0 /\ NUPDE \in Nat /\ NUPDE > 0
  BY VmAssumption
<1>2. NVPN \in Nat /\ NVPN > 0
  BY <1>1 DEF NVPN
<1>3. KERNBASE \in Nat /\ KERNBASE > 0
  BY <1>1, <1>2 DEF KERNBASE
<1> QED
  BY <1>1, <1>2, <1>3, VmAssumption DEF KERNBASE, NVPN

\* The page of an address.
LEMMA PageFacts ==
  ASSUME NEW x \in Nat
  PROVE  /\ Page(x) \in Nat /\ Page(x) * PGSIZE <= x /\ x < Page(x) * PGSIZE + PGSIZE
         /\ x % PGSIZE = 0 <=> x = Page(x) * PGSIZE
         /\ \A n \in Nat : Page(x) < n <=> x < n * PGSIZE
         /\ \A n \in Nat : Page(n * PGSIZE) = n
         /\ x < KERNBASE => Page(x) \in VPNs
<1>1. PGSIZE \in Nat /\ PGSIZE > 0
  BY Sizes
<1>2. /\ Page(x) \in Nat /\ x % PGSIZE \in 0..PGSIZE - 1
      /\ x = PGSIZE * Page(x) + (x % PGSIZE)
  BY <1>1, Quotient DEF Page
<1>3. PGSIZE * Page(x) = Page(x) * PGSIZE /\ PGSIZE * Page(x) \in Nat
  BY <1>1, <1>2
<1>4. \A n \in Nat : Page(x) < n <=> x < n * PGSIZE
  BY <1>1, QuotientLess DEF Page
<1>5. \A n \in Nat : Page(n * PGSIZE) = n
  BY <1>1, Multiple DEF Page
<1>6. x < KERNBASE => Page(x) \in VPNs
  <2>1. NVPN \in Nat /\ KERNBASE = NVPN * PGSIZE
    BY Sizes
  <2>2. x < KERNBASE => Page(x) < NVPN
    BY <1>4, <2>1
  <2> QED
    BY <1>2, <2>1, <2>2 DEF VPNs
<1>7. /\ Page(x) * PGSIZE <= x /\ x < Page(x) * PGSIZE + PGSIZE
      /\ x % PGSIZE = 0 <=> x = Page(x) * PGSIZE
  BY <1>1, <1>2, <1>3
<1> QED
  BY <1>2, <1>4, <1>5, <1>6, <1>7

\* The page that begins at a multiple of the page size.
LEMMA PageOfMultiple ==
  ASSUME NEW n \in Nat, NEW x, x = n * PGSIZE
  PROVE  Page(x) = n
<1>1. PGSIZE \in Nat /\ PGSIZE > 0
  BY Sizes
<1> QED
  BY <1>1, Multiple DEF Page

\* Rounding up reaches the next multiple.
LEMMA RoundUp ==
  ASSUME NEW x \in Nat
  PROVE  /\ PGROUNDUP(x) \in Nat /\ x <= PGROUNDUP(x) /\ PGROUNDUP(x) < x + PGSIZE
         /\ PGROUNDUP(x) = Page(PGROUNDUP(x)) * PGSIZE
         /\ Page(PGROUNDUP(x)) \in Nat
<1>1. PGSIZE \in Nat /\ PGSIZE > 0
  BY Sizes
<1> DEFINE y == x + PGSIZE - 1  n == Page(y)
<1>2. y \in Nat
  BY <1>1
<1>3. n \in Nat /\ n * PGSIZE <= y /\ y < n * PGSIZE + PGSIZE
  BY <1>2, PageFacts
<1>4. PGROUNDUP(x) = n * PGSIZE
  BY DEF PGROUNDUP, Page
<1>5. Page(n * PGSIZE) = n /\ n * PGSIZE \in Nat
  BY <1>1, <1>3, Multiple DEF Page
<1>6. x <= n * PGSIZE /\ n * PGSIZE < x + PGSIZE
  <2> HIDE DEF n
  <2>1. n * PGSIZE <= x + PGSIZE - 1 /\ x + PGSIZE - 1 < n * PGSIZE + PGSIZE
    BY <1>3
  <2> QED
    BY <1>1, <1>5, <2>1
<1> QED
  BY <1>3, <1>4, <1>5, <1>6

\* Two multiples of the page size that are less than a page apart.
LEMMA SameMultiple ==
  ASSUME NEW m \in Nat, NEW n \in Nat, NEW x \in Nat,
         x <= m * PGSIZE, m * PGSIZE < x + PGSIZE, x <= n * PGSIZE, n * PGSIZE < x + PGSIZE
  PROVE  m = n
<1>1. PGSIZE \in Nat /\ PGSIZE > 0
  BY Sizes
<1>2. ASSUME NEW k \in Nat, NEW l \in Nat, k < l, x <= k * PGSIZE, l * PGSIZE < x + PGSIZE PROVE FALSE
  <2>1. l >= k + 1
    BY <1>2
  <2>2. l * PGSIZE >= (k + 1) * PGSIZE
    BY <1>1, <2>1
  <2>3. (k + 1) * PGSIZE = k * PGSIZE + PGSIZE /\ k * PGSIZE \in Nat /\ l * PGSIZE \in Nat
    BY <1>1
  <2> QED
    BY <1>1, <1>2, <2>2, <2>3
<1>3. ~(m < n) /\ ~(n < m)
  BY <1>2
<1> QED
  BY <1>3

\* A table for every page of the user.
LEMMA TableOf ==
  ASSUME NEW v \in VPNs
  PROVE  v \in Nat /\ PDX(v) \in UPDEs /\ Tab(PDX(v)) \in Places /\ Pte(v) \in Places
<1>1. v \in Nat /\ v < NUPDE * NPTE /\ NPTE \in Nat /\ NPTE > 0 /\ NUPDE \in Nat
  BY Sizes DEF VPNs
<1>2. PDX(v) \in Nat /\ PDX(v) < NUPDE
  BY <1>1, Quotient, QuotientLess DEF PDX
<1>3. PDX(v) \in UPDEs
  BY <1>1, <1>2 DEF UPDEs
<1> QED
  BY <1>1, <1>3 DEF Places

-----------------------------------------------------------------------------
(***************************************************************************)
(* The steps of exec.                                                      *)
(***************************************************************************)

\* A place takes a page off the free list.
LEMMA PlaceAccounted ==
  ASSUME PageInv, Accounted, NEW p \in Avail, NEW x \in Places, other[x] = 0,
         free' = Taken(p), other' = [other EXCEPT ![x] = p], UNCHANGED <<cur, mem, kern>>
  PROVE  /\ Accounted' /\ p # 0
         /\ \A y \in Places : other'[y] = IF y = x THEN p ELSE other[y]
<1>1. p \in Pages /\ p # 0
  BY FreshPage
<1>2. \A y \in Places : other'[y] = IF y = x THEN p ELSE other[y]
  BY DEF PageInv, Space
<1>3. \A q \in Pages : q # p => free'[q] = free[q]
  BY DEF PageInv, Taken
<1>4. 0 \notin Pages
  BY DEF Pages
<1>5. Accounted'
  BY <1>1, <1>2, <1>3, <1>4 DEF Accounted
<1> QED
  BY <1>1, <1>2, <1>5

\* A place gives its page back.
LEMMA ReleaseAccounted ==
  ASSUME PageInv, Accounted, NEW x \in Places,
         free' = kfree(other[x]), other' = [other EXCEPT ![x] = 0], UNCHANGED <<cur, mem, kern>>
  PROVE  Accounted' /\ \A y \in Places : other'[y] = IF y = x THEN 0 ELSE other[y]
<1>1. \A y \in Places : other'[y] = IF y = x THEN 0 ELSE other[y]
  BY DEF PageInv, Space
<1>2. \A q \in Pages : free[q] \in Nat /\ free'[q] = IF q = other[x] THEN free[q] + 1 ELSE free[q]
  BY KfreeCounts DEF PageInv
<1>3. Accounted'
  BY <1>1, <1>2 DEF Accounted
<1> QED
  BY <1>1, <1>3

\* Steps that leave the pages, the places and the process alone.
LEMMA SamePages ==
  ASSUME IInv, UNCHANGED <<free, space, other, mem, kern>>
  PROVE  Accounted' /\ Backed' /\ Image(cur, curU, psz)'
  BY DEF IInv, Accounted, Backed, Image, space

LEMMA InitIInv ==
  ASSUME Init
  PROVE  IInv
<1>1. PageInv
  BY InitPageInv
<1>2. /\ NPAGES \in Nat /\ NKPDE \in Nat /\ NPAGES >= NKPDE + 3
  BY VmAssumption
<1>3. SizeInv
  BY Sizes DEF Init, SizeInv
<1>4. 0 \in VPNs /\ 0 \in UPDEs /\ Page(PGSIZE) = 1 /\ PGSIZE % PGSIZE = 0 /\ PDX(0) = 0
  <2>1. 1 * PGSIZE = PGSIZE /\ 0 * NPTE = 0
    BY Sizes
  <2>2. Page(1 * PGSIZE) = 1 /\ (1 * PGSIZE) % PGSIZE = 0
    BY Sizes, Multiple DEF Page
  <2>3. PDX(0 * NPTE) = 0
    BY Sizes, Multiple DEF PDX
  <2> QED
    BY <2>1, <2>2, <2>3, Sizes DEF VPNs, UPDEs
<1>5. /\ Pte(0) \in Places /\ Tab(0) \in Places /\ DIR \in Places
      /\ \A v \in VPNs : Pte(v) \in Places
      /\ \A d \in KPDEs : Tab(d) \in Places
  BY <1>4 DEF Places
<1>6. /\ cur[DIR] = 1
      /\ \A d \in KPDEs : cur[Tab(d)] = 2 + d - NUPDE
      /\ cur[Pte(0)] = 2 + NKPDE
      /\ \A v \in VPNs : v # 0 => cur[Pte(v)] = 0
      /\ cur[Tab(0)] = 3 + NKPDE
  <2>1. 0 \notin KPDEs
    BY Sizes DEF KPDEs
  <2> QED
    BY <1>5, <2>1 DEF Init, inituvm, DIR, Tab, Pte
<1>7. Image(cur, curU, psz)
  <2>1. curU = {0} /\ psz = PGSIZE
    BY DEF Init
  <2>2. \A v \in VPNs : v < 1 <=> v = 0
    BY Sizes DEF VPNs
  <2>3. \A v \in VPNs : cur[Pte(v)] # 0 <=> v = 0
    BY <1>2, <1>6
  <2>4. {0} = {v \in VPNs : v < 1}
    BY <1>4, <2>2
  <2> QED
    BY <1>4, <2>1, <2>2, <2>3, <2>4 DEF Image
<1>8. \A x \in Places : other[x] = 0
  BY DEF Init, Empty
<1>9. Backed
  <2>1. \A v \in VPNs : cur[Pte(v)] # 0 => v = 0
    BY <1>6
  <2> QED
    BY <1>2, <1>4, <1>5, <1>6, <1>8, <2>1 DEF Backed
<1>10. Accounted
  <2> SUFFICES ASSUME NEW p \in Pages, free[p] = 0, p \notin kern
               PROVE  \E x \in Places : cur[x] = p
    BY DEF Accounted
  <2>1. p <= NKPDE + 3
    BY DEF Init
  <2>2. p \in 1..NKPDE + 3
    BY <1>2, <2>1 DEF Pages
  <2>3. CASE p = 1
    BY <1>5, <1>6, <2>3
  <2>4. CASE p \in 2..NKPDE + 1
    <3> DEFINE d == p - 2 + NUPDE
    <3>1. d \in KPDEs /\ 2 + d - NUPDE = p
      BY <1>2, <2>4, Sizes DEF KPDEs
    <3> QED
      BY <1>5, <1>6, <3>1
  <2>5. CASE p = NKPDE + 2 \/ p = NKPDE + 3
    BY <1>2, <1>5, <1>6, <2>5
  <2> QED
    BY <1>2, <2>2, <2>3, <2>4, <2>5
<1>11. BuildInv
  <2>1. \A v \in VPNs : v \in Nat /\ ~(v < 0)
    BY Sizes DEF VPNs
  <2>2. Upto(other, otherU, 0)
    BY <1>5, <1>8, <2>1 DEF Upto, Init
  <2> QED
    BY <2>2 DEF BuildInv, Init
<1> QED
  BY <1>1, <1>3, <1>7, <1>9, <1>10, <1>11 DEF IInv

LEMMA ExecStep ==
  ASSUME IInv, exec
  PROVE  SizeInv' /\ Accounted' /\ Backed' /\ Image(cur, curU, psz)' /\ BuildInv'
<1>1. pc = "user" /\ other = Empty /\ Upto(other, otherU, 0) /\ mem = 0
  BY DEF exec, IInv, BuildInv
<1>2. UNCHANGED <<cur, curU, psz, otherU, mem, newsz, a, seg, kern>>
  BY DEF exec, space
<1>3. CASE Avail = {}
  <2>1. UNCHANGED <<free, other, pc, sz>>
    BY <1>3 DEF exec
  <2>2. SizeInv' /\ BuildInv'
    BY <1>2, <2>1 DEF IInv, SizeInv, BuildInv, Upto, Image
  <2> QED
    BY <1>2, <2>1, <2>2, SamePages DEF space
<1>4. CASE Avail # {}
  <2>1. PICK p \in Avail : p = kalloc(Avail)
    BY <1>4, KallocMember
  <2>2. other' = [other EXCEPT ![DIR] = p] /\ free' = Taken(p) /\ pc' = "kvm" /\ sz' = 0
    BY <1>1, <1>4, <2>1 DEF exec
  <2>3. DIR \in Places /\ other[DIR] = 0 /\ \A v \in VPNs : Pte(v) \in Places /\ Pte(v) # DIR
    BY <1>1 DEF Places, Empty, DIR, Pte
  <2>4. Accounted' /\ \A y \in Places : other'[y] = IF y = DIR THEN p ELSE other[y]
    BY <1>2, <2>2, <2>3, PlaceAccounted DEF IInv
  <2>5. \A v \in VPNs : other'[Pte(v)] = other[Pte(v)]
    BY <2>3, <2>4
  <2>6. Upto(other', otherU', 0)
    BY <1>1, <1>2, <2>5 DEF Upto
  <2>7. Backed'
    BY <1>2, <2>5, <2>6, TableOf DEF Backed, Upto, IInv, VPNs
  <2>8. SizeInv'
    BY <1>2, <2>2, Sizes DEF IInv, SizeInv
  <2>9. Image(cur, curU, psz)'
    BY <1>2 DEF IInv, Image
  <2>10. BuildInv'
    BY <1>1, <1>2, <2>2, <2>6 DEF BuildInv
  <2> QED
    BY <2>4, <2>7, <2>8, <2>9, <2>10
<1> QED
  BY <1>3, <1>4

\* Nothing is loaded yet when the kernel's part is mapped.
LEMMA NoPages == Page(PGROUNDUP(0)) = 0
<1> DEFINE n == Page(PGROUNDUP(0))
<1>1. n \in Nat /\ PGROUNDUP(0) = n * PGSIZE /\ 0 <= PGROUNDUP(0) /\ PGROUNDUP(0) < 0 + PGSIZE
  BY RoundUp
<1> HIDE DEF n
<1>2. 0 * PGSIZE = 0 /\ PGSIZE > 0 /\ PGSIZE \in Nat
  BY Sizes
<1>3. n = 0
  BY <1>1, <1>2, SameMultiple
<1> QED
  BY <1>3 DEF n

LEMMA SetupkvmStep ==
  ASSUME IInv, setupkvm
  PROVE  SizeInv' /\ Accounted' /\ Backed' /\ Image(cur, curU, psz)' /\ BuildInv'
<1>1. pc = "kvm" /\ sz = 0 /\ Upto(other, otherU, 0) /\ mem = 0
  BY DEF setupkvm, IInv, BuildInv
<1>2. UNCHANGED <<cur, curU, psz, otherU, mem, sz, newsz, a, seg, kern>>
  BY DEF setupkvm, space, locals
<1>3. SizeInv'
  BY <1>2 DEF IInv, SizeInv
<1>4. CASE KMissing = {} \/ Avail = {}
  <2>1. UNCHANGED <<free, other>> /\ pc' \in {"load", "freevm"}
    BY <1>4 DEF setupkvm
  <2>2. Upto(other', otherU', Page(PGROUNDUP(sz)))
    BY <1>1, <1>2, <2>1, NoPages
  <2>3. otherU' \subseteq {v \in VPNs : other'[Pte(v)] # 0}
    BY <1>1, <1>2, <2>1 DEF Upto
  <2>4. BuildInv'
    BY <1>1, <1>2, <2>1, <2>2, <2>3 DEF BuildInv
  <2> QED
    BY <1>2, <1>3, <2>1, <2>4, SamePages DEF space
<1>5. CASE KMissing # {} /\ Avail # {}
  <2>1. PICK p \in Avail : p = kalloc(Avail)
    BY <1>5, KallocMember
  <2>2. PICK d \in KMissing : d = First(KMissing)
    BY <1>5 DEF First
  <2>3. other' = [other EXCEPT ![Tab(d)] = p] /\ free' = Taken(p) /\ pc' = pc
    BY <1>5, <2>1, <2>2 DEF setupkvm
  <2>4. Tab(d) \in Places /\ other[Tab(d)] = 0 /\ \A v \in VPNs : Pte(v) \in Places /\ Pte(v) # Tab(d)
    BY DEF KMissing, Places, Tab, Pte
  <2>5. Accounted' /\ \A y \in Places : other'[y] = IF y = Tab(d) THEN p ELSE other[y]
    BY <1>2, <2>3, <2>4, PlaceAccounted DEF IInv
  <2>6. \A v \in VPNs : other'[Pte(v)] = other[Pte(v)]
    BY <2>4, <2>5
  <2>7. Upto(other', otherU', 0)
    BY <1>1, <1>2, <2>6 DEF Upto
  <2>8. Backed'
    BY <1>2, <2>6, <2>7, TableOf DEF Backed, Upto, IInv, VPNs
  <2>9. Image(cur, curU, psz)'
    BY <1>2 DEF IInv, Image
  <2>10. BuildInv'
    BY <1>1, <1>2, <2>3, <2>7 DEF BuildInv
  <2> QED
    BY <1>3, <2>5, <2>8, <2>9, <2>10
<1> QED
  BY <1>4, <1>5

LEMMA SegmentStep ==
  ASSUME IInv, NEW va \in 0..WORD-1, NEW memsz \in 0..WORD-1, NEW filesz \in 0..WORD-1,
         segment(va, memsz, filesz)
  PROVE  SizeInv' /\ Accounted' /\ Backed' /\ Image(cur, curU, psz)' /\ BuildInv'
<1> DEFINE end == (va + memsz) % WORD
<1>1. pc = "load" /\ Upto(other, otherU, Page(PGROUNDUP(sz))) /\ mem = 0
  BY DEF segment, IInv, BuildInv
<1>2. UNCHANGED <<free, cur, curU, psz, other, otherU, mem, sz, kern>>
  BY DEF segment, space
<1>3. sz \in Nat /\ sz < KERNBASE /\ newsz \in 0..KERNBASE-1 /\ WORD \in Nat /\ WORD > 0 /\ KERNBASE \in Nat
  BY Sizes DEF IInv, SizeInv
<1>4. Accounted' /\ Backed' /\ Image(cur, curU, psz)'
  BY <1>2, SamePages DEF space
<1>5. CASE pc' = "freevm" /\ UNCHANGED <<newsz, a, seg>>
  <2>1. SizeInv'
    BY <1>2, <1>5 DEF IInv, SizeInv
  <2>2. otherU' \subseteq {v \in VPNs : other'[Pte(v)] # 0}
    BY <1>1, <1>2 DEF Upto
  <2>3. BuildInv'
    BY <1>1, <1>2, <1>5, <2>2 DEF BuildInv
  <2> QED
    BY <1>4, <2>1, <2>3
<1>6. CASE /\ ~(memsz < filesz) /\ ~(end < va) /\ ~(end >= KERNBASE)
           /\ newsz' = IF end < sz THEN sz ELSE end
           /\ a' = PGROUNDUP(sz) /\ seg' = [va |-> va, filesz |-> filesz] /\ pc' = "alloc"
  <2>1. end = va + memsz
    <3>1. va + memsz \in Nat /\ end \in 0..WORD - 1 /\ va + memsz = WORD * ((va + memsz) \div WORD) + end
          /\ (va + memsz) \div WORD \in Nat
      BY <1>3, Quotient
    <3> DEFINE k == (va + memsz) \div WORD
    <3>2. k < 2
      <4>1. va + memsz < 2 * WORD
        BY <1>3
      <4> QED
        BY <1>3, <3>1, <4>1, QuotientLess
    <3>3. k = 0 \/ k = 1
      BY <3>1, <3>2
    <3>4. k # 1
      <4> SUFFICES ASSUME k = 1 PROVE FALSE
        OBVIOUS
      <4>1. va + memsz = WORD + end
        <5>1. WORD * 1 = WORD
          BY <1>3
        <5> QED
          BY <3>1, <5>1
      <4> HIDE DEF end, k
      <4> QED
        BY <1>3, <1>6, <3>1, <4>1
    <3>5. va + memsz = WORD * 0 + end
      BY <3>1, <3>3, <3>4
    <3> HIDE DEF end, k
    <3> QED
      BY <1>3, <3>1, <3>5
  <2> HIDE DEF end
  <2>2. /\ newsz' \in 0..KERNBASE - 1 /\ sz <= newsz' /\ va + filesz <= newsz'
    BY <1>3, <1>6, <2>1
  <2>3. /\ PGROUNDUP(sz) \in Nat /\ PGROUNDUP(sz) < sz + PGSIZE
        /\ PGROUNDUP(sz) = Page(PGROUNDUP(sz)) * PGSIZE
    BY <1>3, RoundUp
  <2>4. a' \in Nat /\ a' < newsz' + PGSIZE /\ a' = Page(a') * PGSIZE
    BY <1>3, <1>6, <2>2, <2>3, Sizes
  <2>5. seg' \in [va : 0..WORD-1, filesz : 0..WORD-1] /\ seg'.va = va /\ seg'.filesz = filesz
    BY <1>6
  <2>6. SizeInv'
    BY <1>2, <2>2, <2>4, <2>5 DEF IInv, SizeInv
  <2>7. Upto(other', otherU', Page(a'))
    BY <1>1, <1>2, <1>6
  <2>8. BuildInv'
    BY <1>1, <1>2, <1>6, <2>2, <2>4, <2>5, <2>7 DEF BuildInv
  <2> QED
    BY <1>4, <2>6, <2>8
<1> QED
  BY <1>5, <1>6 DEF segment

\* One turn of allocuvm maps the page behind the last one.
LEMMA AllocuvmStep ==
  ASSUME IInv, allocuvm
  PROVE  SizeInv' /\ Accounted' /\ Backed' /\ Image(cur, curU, psz)' /\ BuildInv'
<1>1. /\ pc \in {"alloc", "stack"} /\ a < newsz /\ Upto(other, otherU, Page(a)) /\ mem = 0
      /\ a = Page(a) * PGSIZE
  BY DEF allocuvm, IInv, BuildInv
<1>2. UNCHANGED <<cur, curU, psz, sz, newsz, seg, kern>>
  BY DEF allocuvm, space
<1>3. a \in Nat /\ newsz \in Nat /\ newsz < KERNBASE /\ PGSIZE \in Nat /\ PGSIZE > 0 /\ KERNBASE \in Nat
  BY Sizes DEF IInv, SizeInv
<1>4. Page(a) \in VPNs
  BY <1>1, <1>3, PageFacts
<1>5. PICK v \in VPNs : v = Page(a)
  BY <1>4
<1>6. PICK t : t = Tab(PDX(v))
  OBVIOUS
<1>7. /\ v \in Nat /\ t \in Places /\ Pte(v) \in Places /\ t # Pte(v)
      /\ \A w \in VPNs : w \in Nat /\ Tab(PDX(w)) \in Places /\ Pte(w) \in Places /\ Pte(w) # t
      /\ \A w \in VPNs : Pte(w) = Pte(v) => w = v
      /\ \A w \in VPNs : Pte(v) # Tab(PDX(w))
  BY <1>6, TableOf DEF Pte, Tab
<1>8. other[Pte(v)] = 0
  BY <1>1, <1>5, <1>7 DEF Upto
<1>9. Image(cur, curU, psz)'
  BY <1>2 DEF IInv, Image
<1>10. CASE pc' = "dealloc" /\ UNCHANGED <<other, otherU, a>>
  <2>1. otherU' \subseteq {w \in VPNs : other'[Pte(w)] # 0}
    BY <1>1, <1>10 DEF Upto
  <2>2. BuildInv'
    BY <1>10, <2>1 DEF BuildInv
  <2>3. SizeInv' /\ Backed'
    BY <1>2, <1>10 DEF IInv, SizeInv, Backed
  <2>4. Accounted'
    <3>1. CASE Avail = {}
      <4>1. UNCHANGED <<free, mem>>
        BY <3>1 DEF allocuvm
      <4> QED
        BY <1>2, <1>10, <4>1 DEF IInv, Accounted
    <3>2. CASE Avail # {}
      <4>1. PICK p \in Avail : p = kalloc(Avail)
        BY <3>2, KallocMember
      <4>2. mem' = p /\ free' = Taken(p)
        BY <1>1, <1>10, <3>2, <4>1 DEF allocuvm
      <4>3. \A q \in Pages : q # p => free'[q] = free[q]
        BY <4>2 DEF IInv, PageInv, Taken
      <4>4. 0 \notin Pages
        BY DEF Pages
      <4> QED
        BY <1>1, <1>2, <1>10, <4>2, <4>3, <4>4 DEF IInv, Accounted
    <3> QED
      BY <3>1, <3>2
  <2> QED
    BY <1>9, <2>2, <2>3, <2>4
<1>11. CASE /\ Avail # {} /\ ~(other[t] = 0 /\ Avail = {kalloc(Avail)})
  <2>1. PICK p \in Avail : p = kalloc(Avail)
    BY <1>11, KallocMember
  <2>2. PICK q : q = kalloc(Avail \ {p})
    OBVIOUS
  <2>3. /\ other' = IF other[t] = 0 THEN [other EXCEPT ![Pte(v)] = p, ![t] = q]
                                    ELSE [other EXCEPT ![Pte(v)] = p]
        /\ free' = IF other[t] = 0 THEN [free EXCEPT ![p] = @ - 1, ![q] = @ - 1] ELSE Taken(p)
        /\ otherU' = otherU \cup {v} /\ a' = a + PGSIZE /\ UNCHANGED <<pc, mem>>
    BY <1>5, <1>6, <1>11, <2>1, <2>2 DEF allocuvm
  <2>4. p \in Pages /\ p # 0 /\ 0 \notin Pages
    BY FreshPage DEF IInv, Pages
  <2>5. other[t] = 0 => q \in Avail /\ q \in Pages /\ q # 0 /\ q # p
    <3> SUFFICES ASSUME other[t] = 0 PROVE q \in Avail /\ q \in Pages /\ q # 0 /\ q # p
      OBVIOUS
    <3>1. Avail \ {p} # {}
      BY <1>11, <2>1
    <3>2. q \in Avail \ {p}
      BY <2>2, <3>1, KallocMember
    <3> QED
      BY <3>2, FreshPage DEF IInv
  <2>6. /\ other'[Pte(v)] = p /\ other'[t] # 0
        /\ \A y \in Places : y # Pte(v) /\ y # t => other'[y] = other[y]
        /\ other[t] # 0 => other'[t] = other[t]
        /\ other[t] = 0 => other'[t] = q
    BY <1>7, <2>3, <2>5 DEF IInv, PageInv, Space
  <2>7. \A r \in Pages : r # p /\ (other[t] = 0 => r # q) => free'[r] = free[r]
    <3>1. CASE other[t] = 0
      BY <2>3, <2>4, <2>5, <3>1 DEF IInv, PageInv
    <3>2. CASE other[t] # 0
      BY <2>3, <2>4, <3>2 DEF IInv, PageInv, Taken
    <3> QED
      BY <3>1, <3>2
  <2>8. Accounted'
    <3> SUFFICES ASSUME NEW r \in Pages, free'[r] = 0
                 PROVE  mem' = r \/ r \in kern' \/ \E y \in Places : cur'[y] = r \/ other'[y] = r
      BY DEF Accounted
    <3>1. CASE r = p
      BY <1>7, <2>6, <3>1
    <3>2. CASE other[t] = 0 /\ r = q
      BY <1>7, <2>6, <3>2
    <3>3. CASE r # p /\ (other[t] = 0 => r # q)
      <4>1. mem = r \/ r \in kern \/ \E y \in Places : cur[y] = r \/ other[y] = r
        BY <2>7, <3>3 DEF IInv, Accounted
      <4>2. ASSUME NEW y \in Places, other[y] = r PROVE other'[y] = r
        BY <1>8, <2>4, <2>6, <4>2
      <4> QED
        BY <1>2, <2>3, <4>1, <4>2
    <3> QED
      BY <3>1, <3>2, <3>3
  <2>9. Backed'
    <3> SUFFICES ASSUME NEW w \in VPNs, other'[Pte(w)] # 0 PROVE other'[Tab(PDX(w))] # 0
      BY <1>2 DEF IInv, Backed
    <3>1. CASE w = v
      BY <1>6, <2>6, <3>1
    <3>2. CASE w # v
      <4>1. other'[Pte(w)] = other[Pte(w)]
        BY <1>7, <2>6, <3>2
      <4>2. other[Tab(PDX(w))] # 0
        BY <4>1 DEF IInv, Backed
      <4> QED
        BY <1>7, <2>6, <4>2
    <3> QED
      BY <3>1, <3>2
  <2>10. a' = (v + 1) * PGSIZE /\ Page(a') = v + 1 /\ a' \in Nat /\ a' < newsz + PGSIZE
    <3>1. a' = (v + 1) * PGSIZE
      BY <1>1, <1>3, <1>5, <1>7, <2>3
    <3>2. Page(a') = v + 1
      BY <1>7, <3>1, PageFacts
    <3> QED
      BY <1>1, <1>3, <2>3, <3>1, <3>2
  <2>11. Upto(other', otherU', v + 1)
    <3>1. \A w \in VPNs : w < v + 1 <=> w < v \/ w = v
      BY <1>7
    <3>2. \A w \in VPNs : other'[Pte(w)] # 0 <=> w < v + 1
      BY <1>1, <1>5, <1>7, <2>4, <2>6, <3>1 DEF Upto
    <3>3. otherU' = {w \in VPNs : w < v + 1}
      BY <1>1, <1>5, <2>3, <3>1 DEF Upto
    <3> QED
      BY <3>2, <3>3 DEF Upto
  <2>12. SizeInv'
    BY <1>2, <2>10 DEF IInv, SizeInv
  <2>13. BuildInv'
    BY <1>1, <1>2, <2>3, <2>10, <2>11 DEF IInv, BuildInv
  <2> QED
    BY <1>9, <2>8, <2>9, <2>12, <2>13
<1> QED
  <2>1. Avail = {} => pc' = "dealloc" /\ UNCHANGED <<other, otherU, a>>
    BY DEF allocuvm
  <2>2. other[t] = 0 /\ Avail = {kalloc(Avail)} => pc' = "dealloc" /\ UNCHANGED <<other, otherU, a>>
    BY <1>5, <1>6 DEF allocuvm
  <2> QED
    BY <1>10, <1>11, <2>1, <2>2

\* allocuvm has reached the size it was asked for.
LEMMA AllocatedStep ==
  ASSUME IInv, allocated
  PROVE  SizeInv' /\ Accounted' /\ Backed' /\ Image(cur, curU, psz)' /\ BuildInv'
<1>1. /\ pc = "alloc" /\ a >= newsz /\ Upto(other, otherU, Page(a)) /\ mem = 0
      /\ a = Page(a) * PGSIZE /\ a < newsz + PGSIZE /\ seg.va + seg.filesz <= newsz
  BY DEF allocated, IInv, BuildInv
<1>2. /\ UNCHANGED <<free, cur, curU, psz, other, otherU, mem, newsz, a, seg, kern>>
      /\ sz' = newsz /\ pc' \in {"freevm", "loaduvm"}
  BY DEF allocated, space
<1>3. a \in Nat /\ newsz \in Nat
  BY Sizes DEF IInv, SizeInv
<1>4. Page(a) = Page(PGROUNDUP(newsz))
  <2>1. /\ PGROUNDUP(newsz) \in Nat /\ newsz <= PGROUNDUP(newsz) /\ PGROUNDUP(newsz) < newsz + PGSIZE
        /\ PGROUNDUP(newsz) = Page(PGROUNDUP(newsz)) * PGSIZE /\ Page(PGROUNDUP(newsz)) \in Nat
    BY <1>3, RoundUp
  <2>2. PICK m \in Nat : m = Page(a)
    BY <1>3, PageFacts
  <2>3. PICK n \in Nat : n = Page(PGROUNDUP(newsz))
    BY <2>1
  <2>4. newsz <= m * PGSIZE /\ m * PGSIZE < newsz + PGSIZE
    BY <1>1, <1>3, <2>2
  <2>5. newsz <= n * PGSIZE /\ n * PGSIZE < newsz + PGSIZE
    BY <2>1, <2>3
  <2>6. m = n
    BY <1>3, <2>4, <2>5, SameMultiple
  <2> QED
    BY <2>2, <2>3, <2>6
<1>5. SizeInv'
  BY <1>2 DEF IInv, SizeInv
<1>6. Accounted' /\ Backed' /\ Image(cur, curU, psz)'
  BY <1>2, SamePages DEF space
<1>7. otherU' \subseteq {v \in VPNs : other'[Pte(v)] # 0}
  BY <1>1, <1>2 DEF Upto
<1>8. BuildInv'
  BY <1>1, <1>2, <1>4, <1>7 DEF BuildInv
<1> QED
  BY <1>5, <1>6, <1>8

LEMMA LoaduvmStep ==
  ASSUME IInv, loaduvm
  PROVE  SizeInv' /\ Accounted' /\ Backed' /\ Image(cur, curU, psz)' /\ BuildInv'
<1>1. pc = "loaduvm" /\ Upto(other, otherU, Page(PGROUNDUP(sz))) /\ mem = 0
  BY DEF loaduvm, IInv, BuildInv
<1>2. /\ UNCHANGED <<free, cur, curU, psz, other, otherU, mem, sz, newsz, a, seg, kern>>
      /\ pc' \in {"load", "freevm"}
  BY DEF loaduvm, space
<1>3. SizeInv'
  BY <1>2 DEF IInv, SizeInv
<1>4. Accounted' /\ Backed' /\ Image(cur, curU, psz)'
  BY <1>2, SamePages DEF space
<1>5. otherU' \subseteq {v \in VPNs : other'[Pte(v)] # 0}
  BY <1>1, <1>2 DEF Upto
<1>6. BuildInv'
  BY <1>1, <1>2, <1>5 DEF BuildInv
<1> QED
  BY <1>3, <1>4, <1>6

LEMMA StackStep ==
  ASSUME IInv, stack
  PROVE  SizeInv' /\ Accounted' /\ Backed' /\ Image(cur, curU, psz)' /\ BuildInv'
<1>1. pc = "load" /\ Upto(other, otherU, Page(PGROUNDUP(sz))) /\ mem = 0
  BY DEF stack, IInv, BuildInv
<1>2. UNCHANGED <<free, cur, curU, psz, other, otherU, mem, seg, kern>>
  BY DEF stack, space
<1>3. Accounted' /\ Backed' /\ Image(cur, curU, psz)'
  BY <1>2, SamePages DEF space
<1>4. CASE pc' = "freevm" /\ UNCHANGED <<sz, a, newsz>>
  <2>1. SizeInv'
    BY <1>2, <1>4 DEF IInv, SizeInv
  <2>2. otherU' \subseteq {v \in VPNs : other'[Pte(v)] # 0}
    BY <1>1, <1>2 DEF Upto
  <2>3. BuildInv'
    BY <1>1, <1>2, <1>4, <2>2 DEF BuildInv
  <2> QED
    BY <1>3, <2>1, <2>3
<1>5. CASE /\ PGROUNDUP(sz) + 2 * PGSIZE < KERNBASE /\ pc' = "stack"
           /\ sz' = PGROUNDUP(sz) /\ a' = PGROUNDUP(sz) /\ newsz' = PGROUNDUP(sz) + 2 * PGSIZE
  <2>1. sz \in Nat /\ PGSIZE \in Nat /\ PGSIZE > 0 /\ KERNBASE \in Nat
    BY Sizes DEF IInv, SizeInv
  <2>2. PICK r \in Nat : r = PGROUNDUP(sz) /\ r = Page(r) * PGSIZE /\ Page(r) \in Nat
    BY <2>1, RoundUp
  <2>3. PICK n \in Nat : n = Page(r)
    BY <2>2
  <2>4. /\ r = n * PGSIZE /\ newsz' = (n + 2) * PGSIZE /\ newsz' = r + 2 * PGSIZE /\ a' = r /\ sz' = r
        /\ newsz' \in Nat /\ newsz' < KERNBASE
    BY <1>5, <2>1, <2>2, <2>3
  <2>5. Page(newsz') = n + 2
    <3>1. PICK m \in Nat : m = n + 2
      OBVIOUS
    <3>2. newsz' = m * PGSIZE
      BY <2>4, <3>1
    <3> QED
      BY <3>1, <3>2, PageOfMultiple
  <2>6. SizeInv'
    BY <1>2, <2>1, <2>4 DEF IInv, SizeInv
  <2>7. Upto(other', otherU', Page(a'))
    BY <1>1, <1>2, <2>2, <2>4
  <2>8. /\ a' = Page(a') * PGSIZE /\ a' < newsz' + PGSIZE
        /\ newsz' = Page(newsz') * PGSIZE /\ Page(newsz') >= 2
    <3>1. a' = Page(a') * PGSIZE
      BY <2>2, <2>4
    <3>2. a' < newsz' + PGSIZE
      BY <2>1, <2>2, <2>4
    <3>3. newsz' = Page(newsz') * PGSIZE
      BY <2>4, <2>5
    <3>4. Page(newsz') >= 2
      BY <2>3, <2>5
    <3> QED
      BY <3>1, <3>2, <3>3, <3>4
  <2>9. BuildInv'
    BY <1>1, <1>2, <1>5, <2>7, <2>8 DEF BuildInv
  <2> QED
    BY <1>3, <2>6, <2>9
<1> QED
  BY <1>4, <1>5 DEF stack

\* The stack is mapped and the page below it becomes the guard.
LEMMA ClearpteuStep ==
  ASSUME IInv, clearpteu
  PROVE  SizeInv' /\ Accounted' /\ Backed' /\ Image(cur, curU, psz)' /\ BuildInv'
<1>1. /\ pc = "stack" /\ a >= newsz /\ Upto(other, otherU, Page(a)) /\ mem = 0
      /\ a = Page(a) * PGSIZE /\ a < newsz + PGSIZE
      /\ newsz = Page(newsz) * PGSIZE /\ Page(newsz) >= 2
  BY DEF clearpteu, IInv, BuildInv
<1>2. /\ UNCHANGED <<free, cur, curU, psz, other, mem, newsz, a, seg, kern>>
      /\ sz' = newsz /\ pc' = "copyout" /\ otherU' = otherU \ {Page(newsz - 2 * PGSIZE)}
  BY DEF clearpteu, space
<1>3. a \in Nat /\ newsz \in Nat /\ PGSIZE \in Nat /\ PGSIZE > 0
  BY Sizes DEF IInv, SizeInv
<1>4. PICK n \in Nat : n = Page(newsz)
  BY <1>3, PageFacts
<1>5. Page(a) = n
  <2>1. PICK m \in Nat : m = Page(a)
    BY <1>3, PageFacts
  <2>2. newsz <= m * PGSIZE /\ m * PGSIZE < newsz + PGSIZE
    BY <1>1, <1>3, <2>1
  <2>3. newsz <= n * PGSIZE /\ n * PGSIZE < newsz + PGSIZE
    BY <1>1, <1>3, <1>4
  <2>4. m = n
    BY <1>3, <2>2, <2>3, SameMultiple
  <2> QED
    BY <2>1, <2>4
<1>6. Page(newsz - 2 * PGSIZE) = n - 2
  <2>1. newsz - 2 * PGSIZE = (n - 2) * PGSIZE /\ n - 2 \in Nat
    BY <1>1, <1>3, <1>4
  <2> QED
    BY <1>3, <2>1, PageFacts
<1>7. newsz # PGSIZE
  <2>1. n # 1 /\ PGSIZE = 1 * PGSIZE
    BY <1>1, <1>3, <1>4
  <2>2. Page(PGSIZE) = 1
    BY <2>1, PageOfMultiple
  <2> QED
    BY <1>4, <2>1, <2>2
<1>8. Image(other', otherU', newsz)
  <2>1. newsz % PGSIZE = 0
    BY <1>1, <1>3, PageFacts
  <2>2. otherU' = {v \in VPNs : v < n /\ v # n - 2}
    BY <1>1, <1>2, <1>5, <1>6 DEF Upto
  <2>3. \A v \in VPNs : other'[Pte(v)] # 0 <=> v < n
    BY <1>1, <1>2, <1>5 DEF Upto
  <2> QED
    BY <1>4, <1>7, <2>1, <2>2, <2>3 DEF Image
<1>9. SizeInv'
  BY <1>2 DEF IInv, SizeInv
<1>10. Accounted' /\ Backed' /\ Image(cur, curU, psz)'
  BY <1>2, SamePages DEF space
<1>11. BuildInv'
  BY <1>1, <1>2, <1>8 DEF BuildInv
<1> QED
  BY <1>9, <1>10, <1>11

\* The process gets the new image, or keeps the old one.
LEMMA CopyoutStep ==
  ASSUME IInv, copyout
  PROVE  SizeInv' /\ Accounted' /\ Backed' /\ Image(cur, curU, psz)' /\ BuildInv'
<1>1. pc = "copyout" /\ Image(other, otherU, sz) /\ mem = 0
  BY DEF copyout, IInv, BuildInv
<1>2. UNCHANGED <<free, mem, sz, newsz, a, seg, kern>> /\ pc' = "freevm"
  BY DEF copyout, locals
<1>3. CASE cur' = other /\ other' = cur /\ curU' = otherU /\ otherU' = curU /\ psz' = sz
  <2>1. SizeInv'
    BY <1>2, <1>3, Sizes DEF IInv, SizeInv
  <2>2. Accounted'
    BY <1>2, <1>3 DEF IInv, Accounted
  <2>3. Backed'
    BY <1>3 DEF IInv, Backed
  <2>4. Image(cur, curU, psz)'
    BY <1>1, <1>3 DEF Image
  <2>5. otherU' \subseteq {v \in VPNs : other'[Pte(v)] # 0}
    BY <1>3 DEF IInv, Image
  <2>6. BuildInv'
    BY <1>1, <1>2, <2>5 DEF BuildInv
  <2> QED
    BY <2>1, <2>2, <2>3, <2>4, <2>6
<1>4. CASE UNCHANGED <<cur, curU, psz, other, otherU>>
  <2>1. SizeInv'
    BY <1>2, <1>4 DEF IInv, SizeInv
  <2>2. Accounted' /\ Backed' /\ Image(cur, curU, psz)'
    BY <1>2, <1>4, SamePages DEF space
  <2>3. otherU' \subseteq {v \in VPNs : other'[Pte(v)] # 0}
    BY <1>1, <1>4 DEF Image
  <2>4. BuildInv'
    BY <1>1, <1>2, <2>3 DEF BuildInv
  <2> QED
    BY <2>1, <2>2, <2>4
<1> QED
  BY <1>3, <1>4 DEF copyout, space

\* deallocuvm frees one page of the user.
LEMMA FreeUserFacts ==
  ASSUME IInv, NEW w \in VPNs, FreeUser(w), UNCHANGED <<space, mem, locals, kern>>,
         pc \in {"dealloc", "freevm"}, pc' = pc
  PROVE  SizeInv' /\ Accounted' /\ Backed' /\ Image(cur, curU, psz)' /\ BuildInv'
<1>1. UNCHANGED <<cur, curU, psz, mem, sz, newsz, a, seg, kern>>
  BY DEF space, locals
<1>2. /\ free' = kfree(other[Pte(w)]) /\ other' = [other EXCEPT ![Pte(w)] = 0]
      /\ otherU' = otherU \ {w}
  BY DEF FreeUser
<1>3. /\ Pte(w) \in Places
      /\ \A v \in VPNs : Pte(v) \in Places /\ Tab(PDX(v)) \in Places /\ Tab(PDX(v)) # Pte(w)
      /\ \A v \in VPNs : Pte(v) = Pte(w) => v = w
  BY TableOf DEF Pte, Tab
<1>4. Accounted' /\ \A y \in Places : other'[y] = IF y = Pte(w) THEN 0 ELSE other[y]
  BY <1>1, <1>2, <1>3, ReleaseAccounted DEF IInv
<1>5. Backed'
  BY <1>1, <1>3, <1>4 DEF IInv, Backed
<1>6. otherU' \subseteq {v \in VPNs : other'[Pte(v)] # 0}
  BY <1>2, <1>3, <1>4 DEF IInv, BuildInv
<1>7. SizeInv' /\ Image(cur, curU, psz)'
  BY <1>1 DEF IInv, SizeInv, Image
<1>8. BuildInv'
  BY <1>1, <1>6 DEF IInv, BuildInv
<1> QED
  BY <1>4, <1>5, <1>7, <1>8

LEMMA DeallocStep ==
  ASSUME IInv, dealloc
  PROVE  SizeInv' /\ Accounted' /\ Backed' /\ Image(cur, curU, psz)' /\ BuildInv'
<1> DEFINE gone == {w \in Found(Page(PGROUNDUP(sz))) : w * PGSIZE < newsz}
<1>1. pc = "dealloc" /\ otherU \subseteq {v \in VPNs : other[Pte(v)] # 0}
  BY DEF dealloc, IInv, BuildInv
<1>2. UNCHANGED <<space, locals, kern>>
  BY DEF dealloc
<1>3. CASE gone # {}
  <2>1. PICK w \in VPNs : w = First(gone)
    BY <1>3 DEF First, Found
  <2>2. FreeUser(w) /\ UNCHANGED <<mem, pc>>
    BY <1>3, <2>1 DEF dealloc
  <2> QED
    BY <1>1, <1>2, <2>2, FreeUserFacts
<1>4. CASE gone = {}
  <2>1. /\ free' = IF mem = 0 THEN free ELSE kfree(mem)
        /\ mem' = 0 /\ pc' = "freevm" /\ UNCHANGED <<other, otherU>>
    BY <1>4 DEF dealloc
  <2>2. UNCHANGED <<cur, curU, psz, sz, newsz, a, seg, kern>>
    BY <1>2 DEF space, locals
  <2>3. \A q \in Pages : free[q] \in Nat /\ free'[q] = IF q = mem THEN free[q] + 1 ELSE free[q]
    <3>1. 0 \notin Pages
      BY DEF Pages
    <3> QED
      BY <2>1, <3>1, KfreeCounts DEF IInv, PageInv
  <2>4. Accounted'
    BY <2>1, <2>2, <2>3 DEF IInv, Accounted
  <2>5. SizeInv' /\ Backed' /\ Image(cur, curU, psz)'
    BY <2>1, <2>2 DEF IInv, SizeInv, Backed, Image
  <2>6. BuildInv'
    BY <1>1, <2>1, <2>2 DEF BuildInv
  <2> QED
    BY <2>4, <2>5, <2>6
<1> QED
  BY <1>3, <1>4

\* freevm frees the tables only when no page is left that they map, so that
\* in the end every place is empty.
LEMMA FreevmStep ==
  ASSUME IInv, freevm
  PROVE  SizeInv' /\ Accounted' /\ Backed' /\ Image(cur, curU, psz)' /\ BuildInv'
<1>1. /\ pc = "freevm" /\ otherU \subseteq {v \in VPNs : other[Pte(v)] # 0} /\ mem = 0
  BY DEF freevm, IInv, BuildInv
<1>2. UNCHANGED <<space, mem, locals, kern>>
  BY DEF freevm
<1>3. CASE Found(0) # {}
  <2>1. PICK w \in VPNs : w = First(Found(0))
    BY <1>3 DEF First, Found
  <2>2. FreeUser(w) /\ pc' = pc
    BY <1>3, <2>1 DEF freevm
  <2> QED
    BY <1>1, <1>2, <2>2, FreeUserFacts
<1>4. CASE Found(0) = {}
  <2>1. \A v \in VPNs : other[Pte(v)] = 0
    <3> SUFFICES ASSUME NEW v \in VPNs, other[Pte(v)] # 0 PROVE FALSE
      OBVIOUS
    <3>1. other[Tab(PDX(v))] # 0
      BY DEF IInv, Backed
    <3>2. v >= 0
      BY TableOf
    <3> QED
      BY <1>4, <3>1, <3>2 DEF Found
  <2>2. PICK x : x = IF Tabs # {} THEN Tab(First(Tabs)) ELSE DIR
    OBVIOUS
  <2>3. x \in Places /\ \A v \in VPNs : Pte(v) \in Places /\ Pte(v) # x
    BY <2>2 DEF First, Tabs, Places, DIR, Tab, Pte
  <2>4. /\ free' = kfree(other[x]) /\ other' = [other EXCEPT ![x] = 0]
        /\ pc' = (IF Tabs # {} THEN pc ELSE "user") /\ otherU' = otherU
    BY <1>4, <2>2 DEF freevm
  <2>5. UNCHANGED <<cur, curU, psz, mem, sz, newsz, a, seg, kern>>
    BY <1>2 DEF space, locals
  <2>6. Accounted' /\ \A y \in Places : other'[y] = IF y = x THEN 0 ELSE other[y]
    BY <2>3, <2>4, <2>5, ReleaseAccounted DEF IInv
  <2>7. \A v \in VPNs : other'[Pte(v)] = 0
    BY <2>1, <2>3, <2>6
  <2>8. otherU' = {}
    BY <1>1, <2>1, <2>4
  <2>9. Backed'
    BY <2>5, <2>7 DEF IInv, Backed
  <2>10. SizeInv' /\ Image(cur, curU, psz)'
    BY <2>5 DEF IInv, SizeInv, Image
  <2>11. CASE Tabs # {}
    <3>1. BuildInv'
      BY <1>1, <2>4, <2>5, <2>8, <2>11 DEF BuildInv
    <3> QED
      BY <2>6, <2>9, <2>10, <3>1
  <2>12. CASE Tabs = {}
    <3>1. pc' = "user" /\ x = DIR
      BY <2>2, <2>4, <2>12
    <3>2. \A y \in Places : other'[y] = 0
      BY <2>6, <2>7, <2>12, <3>1 DEF Places, Tabs
    <3>3. other' = Empty
      <4>1. other' = [y \in Places |-> other'[y]]
        BY <2>4 DEF IInv, PageInv, Space
      <4> QED
        BY <3>2, <4>1 DEF Empty
    <3>4. \A v \in VPNs : v \in Nat /\ ~(v < 0)
      BY TableOf
    <3>5. Upto(other', otherU', 0)
      BY <2>7, <2>8, <3>4 DEF Upto
    <3>6. BuildInv'
      BY <1>1, <2>5, <3>1, <3>3, <3>5 DEF BuildInv
    <3> QED
      BY <2>6, <2>9, <2>10, <3>6
  <2> QED
    BY <2>11, <2>12
<1> QED
  BY <1>3, <1>4

LEMMA NextStep ==
  ASSUME IInv, [Next]_vars
  PROVE  IInv'
<1> DEFINE Rest == SizeInv' /\ Accounted' /\ Backed' /\ Image(cur, curU, psz)' /\ BuildInv'
<1>1. PageInv'
  <2>1. CASE Next
    BY <2>1, NextPageInv DEF IInv
  <2>2. CASE UNCHANGED vars
    BY <2>2, Stutter DEF IInv, vars, space
  <2> QED
    BY <2>1, <2>2
<1>2. CASE exec
  BY <1>1, <1>2, ExecStep DEF IInv
<1>3. CASE setupkvm
  BY <1>1, <1>3, SetupkvmStep DEF IInv
<1>4. ASSUME NEW va \in 0..WORD-1, NEW memsz \in 0..WORD-1, NEW filesz \in 0..WORD-1,
             segment(va, memsz, filesz)
      PROVE  IInv'
  <2>1. Rest
    BY <1>4, SegmentStep
  <2> QED
    BY <1>1, <2>1 DEF IInv
<1>5. CASE allocuvm
  BY <1>1, <1>5, AllocuvmStep DEF IInv
<1>6. CASE allocated
  BY <1>1, <1>6, AllocatedStep DEF IInv
<1>7. CASE loaduvm
  BY <1>1, <1>7, LoaduvmStep DEF IInv
<1>8. CASE stack
  BY <1>1, <1>8, StackStep DEF IInv
<1>9. CASE clearpteu
  BY <1>1, <1>9, ClearpteuStep DEF IInv
<1>10. CASE copyout
  BY <1>1, <1>10, CopyoutStep DEF IInv
<1>11. CASE dealloc
  BY <1>1, <1>11, DeallocStep DEF IInv
<1>12. CASE freevm
  BY <1>1, <1>12, FreevmStep DEF IInv
<1>13. CASE UNCHANGED vars
  <2>1. UNCHANGED <<free, space, other, otherU, mem, kern, pc, sz, newsz, a, seg>>
    BY <1>13 DEF vars, locals
  <2>2. Accounted' /\ Backed' /\ Image(cur, curU, psz)'
    BY <2>1, SamePages
  <2>3. SizeInv'
    BY <2>1 DEF IInv, SizeInv, space
  <2>4. BuildInv'
    BY <2>1 DEF IInv, BuildInv, Upto, Image
  <2> QED
    BY <1>1, <2>2, <2>3, <2>4 DEF IInv
<1> QED
  BY <1>2, <1>3, <1>4, <1>5, <1>6, <1>7, <1>8, <1>9, <1>10, <1>11, <1>12, <1>13 DEF Next

-----------------------------------------------------------------------------
(***************************************************************************)
(* Theorems about what exec leaves.                                        *)
(***************************************************************************)

\* The inductive invariant of exec.
THEOREM Invariance == Spec => []IInv
<1>1. Init => IInv
  BY InitIInv
<1>2. IInv /\ [Next]_vars => IInv'
  BY NextStep
<1> QED
  BY <1>1, <1>2, PTL DEF Spec

\* No exec loses a page, whichever of its kallocs fails; when it has returned
\* only the address space of the process is left.
THEOREM NothingLost == Spec => []NoLeak
<1>1. IInv => NoLeak
  BY DEF IInv, Accounted, BuildInv, NoLeak
<1> QED
  BY <1>1, Invariance, PTL

\* deallocuvm and freevm free no table before the pages it maps.
THEOREM TablesOutlive == Spec => []Backed
<1>1. IInv => Backed
  BY DEF IInv
<1> QED
  BY <1>1, Invariance, PTL

\* loaduvm never meets an address without a page, for any program headers
\* that exec's checks let through, addition modulo 2^32 included.
THEOREM SegmentMapped == Spec => []LoadFindsPages
<1>1. IInv => LoadFindsPages
  <2> SUFFICES ASSUME IInv, pc = "loaduvm", NEW i \in 0..WORD-1, i < seg.filesz
               PROVE  Page(seg.va + i) \in VPNs /\ other[Pte(Page(seg.va + i))] # 0
    BY DEF LoadFindsPages
  <2>1. /\ seg.va + seg.filesz <= newsz /\ sz = newsz
        /\ Upto(other, otherU, Page(PGROUNDUP(newsz)))
    BY DEF IInv, BuildInv
  <2>2. /\ seg.va \in Nat /\ seg.filesz \in Nat /\ i \in Nat /\ newsz \in Nat /\ newsz < KERNBASE
        /\ KERNBASE \in Nat
    BY Sizes DEF IInv, SizeInv
  <2>3. PICK y \in Nat : y = seg.va + i /\ y < newsz
    BY <2>1, <2>2
  <2>4. Page(y) \in VPNs
    BY <2>2, <2>3, PageFacts
  <2>5. PICK n \in Nat : n = Page(PGROUNDUP(newsz)) /\ newsz <= n * PGSIZE
    BY <2>2, RoundUp
  <2>6. Page(y) < n
    <3>1. n * PGSIZE \in Nat
      BY Sizes
    <3>2. y < n * PGSIZE
      BY <2>2, <2>3, <2>5, <3>1
    <3> QED
      BY <3>2, PageFacts
  <2> QED
    BY <2>1, <2>3, <2>4, <2>5, <2>6 DEF Upto
<1> QED
  BY <1>1, Invariance, PTL

\* The process always has exactly the pages below its size and may use all of
\* them but its guard page, whether its execs succeed or fail.
THEOREM ImageWhole == Spec => []ImageComplete
<1>1. IInv => ImageComplete
  BY DEF IInv, Image, ImageComplete
<1> QED
  BY <1>1, Invariance, PTL
===============================================================================
