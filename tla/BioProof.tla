------------------------------ MODULE BioProof ------------------------------
(***************************************************************************)
(* Proofs about the buffer cache, for every number of buffers, every disk  *)
(* and every number of handles up to NBUF.                                 *)
(***************************************************************************)
EXTENDS Bio, FiniteSetTheorems, TLAPS

-----------------------------------------------------------------------------
(***************************************************************************)
(* Counting handles.                                                       *)
(***************************************************************************)

\* The handles on a buffer are finitely many.
LEMMA HandlesFinite ==
  ASSUME NEW h \in Seq(Buf), NEW c \in Buf
  PROVE  /\ IsFiniteSet(Handles(h, c))
         /\ Cardinality(Handles(h, c)) \in Nat
<1>1. IsFiniteSet(1..Len(h))
  BY FS_Interval
<1>2. Handles(h, c) \subseteq 1..Len(h)
  BY DEF Handles
<1> QED
  BY <1>1, <1>2, FS_Subset, FS_CardinalityType

\* One more bread adds one handle on its buffer and none on the others.
LEMMA HandlesAppend ==
  ASSUME NEW h \in Seq(Buf), NEW b \in Buf, NEW c \in Buf
  PROVE  Cardinality(Handles(Append(h, b), c)) =
           IF b = c THEN Cardinality(Handles(h, c)) + 1
                    ELSE Cardinality(Handles(h, c))
<1>1. CASE b = c
  <2>1. Handles(Append(h, b), c) = Handles(h, c) \cup {Len(h) + 1}
    BY <1>1 DEF Handles
  <2>2. Len(h) + 1 \notin Handles(h, c)
    BY DEF Handles
  <2> QED
    BY <1>1, <2>1, <2>2, HandlesFinite, FS_AddElement
<1>2. CASE b # c
  <2>1. Handles(Append(h, b), c) = Handles(h, c)
    BY <1>2 DEF Handles
  <2> QED
    BY <1>2, <2>1
<1> QED
  BY <1>1, <1>2

\* The handles left after a brelse.
LEMMA FrontType ==
  ASSUME NEW h \in Seq(Buf), h # << >>
  PROVE  /\ SubSeq(h, 1, Len(h) - 1) \in Seq(Buf)
         /\ Len(SubSeq(h, 1, Len(h) - 1)) = Len(h) - 1
<1>1. Len(h) \in Nat /\ Len(h) > 0
  OBVIOUS
<1> DEFINE m == Len(h) - 1
<1>2. m \in Nat /\ Len(h) = m + 1 /\ \A i \in 1..m : h[i] \in Buf
  BY <1>1
<1> HIDE DEF m
<1>3. SubSeq(h, 1, m) \in Seq(Buf) /\ Len(SubSeq(h, 1, m)) = m
  BY <1>2, Z3
<1> QED
  BY <1>3 DEF m

\* brelse of the latest handle takes one handle off its buffer.
LEMMA HandlesFront ==
  ASSUME NEW h \in Seq(Buf), h # << >>, NEW c \in Buf
  PROVE  Cardinality(Handles(SubSeq(h, 1, Len(h) - 1), c)) =
           IF h[Len(h)] = c THEN Cardinality(Handles(h, c)) - 1
                            ELSE Cardinality(Handles(h, c))
<1> DEFINE f == SubSeq(h, 1, Len(h) - 1)
<1>1. f \in Seq(Buf) /\ Len(h) \in Nat /\ Len(h) > 0 /\ h[Len(h)] \in Buf
  OBVIOUS
<1>2. h = Append(f, h[Len(h)])
  OBVIOUS
<1>3. Cardinality(Handles(f, c)) \in Nat
  BY <1>1, HandlesFinite
<1> HIDE DEF f
<1>4. Cardinality(Handles(Append(f, h[Len(h)]), c)) =
        IF h[Len(h)] = c THEN Cardinality(Handles(f, c)) + 1
                         ELSE Cardinality(Handles(f, c))
  BY <1>1, HandlesAppend
<1> DEFINE last == h[Len(h)]
<1> HIDE DEF last
<1>5. Cardinality(Handles(h, c)) =
        IF last = c THEN Cardinality(Handles(f, c)) + 1
                    ELSE Cardinality(Handles(f, c))
  BY <1>2, <1>4, Zenon DEF last
<1>6. Cardinality(Handles(f, c)) =
        IF last = c THEN Cardinality(Handles(h, c)) - 1
                    ELSE Cardinality(Handles(h, c))
  BY <1>3, <1>5
<1> QED
  BY <1>6 DEF f, last

-----------------------------------------------------------------------------
(***************************************************************************)
(* The initial state and the three operations keep the invariant.          *)
(***************************************************************************)

\* binit leaves a cache without aliases, references or handles.
LEMMA InitIInv == Init => IInv
<1> SUFFICES ASSUME Init PROVE IInv
  OBVIOUS
<1> USE BioAssumption DEF Init, binit, Buf, B_VALID, B_DIRTY
<1>1. TypeOK
  <2>1. rank \in [Buf -> 1..NBUF] /\ refcnt \in [Buf -> Nat] /\ held \in Seq(Buf)
    OBVIOUS
  <2>2. fault \in BOOLEAN /\ flags \in [Buf -> SUBSET {B_VALID, B_DIRTY}]
    BY Zenon
  <2> QED
    BY <2>1, <2>2 DEF TypeOK
<1>2. RefcntExact
  <2> SUFFICES ASSUME NEW b \in Buf PROVE Cardinality(Handles(held, b)) = 0
    BY DEF RefcntExact
  <2>1. Handles(held, b) = {}
    BY DEF Handles
  <2> QED
    BY <2>1, FS_EmptySet
<1>3. Coherent /\ ListOrder /\ NeverOutOfBuffers
  BY DEF NoAlias, Coherent, ListOrder, NeverOutOfBuffers
<1> QED
  BY <1>1, <1>2, <1>3 DEF IInv

\* While fs.c holds fewer buffers than the cache has, some buffer is free:
\* with every count positive, the handles would cover the NBUF buffers.
LEMMA SomeRecyclable ==
  ASSUME IInv, Len(held) < MaxHeld
  PROVE  Recyclable # {}
<1> SUFFICES ASSUME Recyclable = {} PROVE FALSE
  OBVIOUS
<1>1. \A b \in Buf : refcnt[b] # 0
  <2> SUFFICES ASSUME NEW b \in Buf PROVE B_DIRTY \notin flags[b]
    BY DEF Recyclable
  <2> QED
    BY DEF IInv, Coherent, B_VALID, B_DIRTY
<1>2. \A b \in Buf : \E i \in 1..Len(held) : held[i] = b
  <2> SUFFICES ASSUME NEW b \in Buf PROVE Handles(held, b) # {}
    BY DEF Handles, IInv, TypeOK
  <2>1. Cardinality(Handles(held, b)) # 0
    BY <1>1 DEF IInv, RefcntExact
  <2> QED
    BY <2>1, FS_EmptySet
<1>3. Len(held) \in Nat /\ held \in [1..Len(held) -> Buf]
  BY DEF IInv, TypeOK
<1>4. ExistsSurjection(1..Len(held), Buf)
  BY <1>2, <1>3 DEF ExistsSurjection, Surjection
<1>5. Cardinality(Buf) <= Len(held)
  BY <1>3, <1>4, FS_SurjCardinalityBound
<1>6. Cardinality(Buf) = NBUF
  BY BioAssumption, FS_Interval DEF Buf
<1> QED
  BY <1>3, <1>5, <1>6, BioAssumption

\* bread keeps the invariant: a hit finds a valid buffer and a miss recycles
\* one that no handle refers to.
LEMMA BreadIInv ==
  ASSUME IInv, NEW n \in Blocks, bread(n)
  PROVE  IInv'
<1>1. Cached(n) # {} \/ Recyclable # {}
  BY SomeRecyclable DEF bread
<1>2. PICK b \in Buf : bget(n, b) /\ held' = Append(held, b)
  BY <1>1 DEF bread
<1>3. UNCHANGED <<rank, disk, fault>> /\ Len(held) < MaxHeld
  BY <1>1 DEF bread
<1>4. n # NoBlock /\ Len(held) \in Nat /\ MaxHeld \in Nat
  BY BioAssumption DEF IInv, TypeOK
<1>5. held' \in Seq(Buf) /\ Len(held') <= MaxHeld
  BY <1>2, <1>3, <1>4 DEF IInv, TypeOK
<1>6. ASSUME Cached(n) # {}
      PROVE  blk[b] = n /\ UNCHANGED <<blk, data, flags>> /\ refcnt' = [refcnt EXCEPT ![b] = @ + 1]
  <2>1. blk[b] = n /\ Hit(n, b)
    BY <1>2, <1>6 DEF bget, Hit, First, Cached
  <2>2. flags[b] = {B_VALID}
    BY <2>1, <1>4 DEF IInv, Coherent
  <2> QED
    BY <2>1, <2>2 DEF Hit, IInv, TypeOK
<1>7. ASSUME Cached(n) = {}
      PROVE  /\ refcnt[b] = 0 /\ \A c \in Buf : blk[c] # n
             /\ refcnt' = [refcnt EXCEPT ![b] = @ + 1]
             /\ blk' = [blk EXCEPT ![b] = n]
             /\ data' = [data EXCEPT ![b] = disk[n]]
             /\ flags' = [flags EXCEPT ![b] = {B_VALID}]
  <2>1. Recycle(n, b) /\ \A c \in Buf : blk[c] # n
    BY <1>2, <1>7 DEF bget, Cached
  <2> QED
    BY <2>1 DEF Recycle, Last, Recyclable, IInv, TypeOK
<1>8. refcnt' = [refcnt EXCEPT ![b] = @ + 1] /\ blk'[b] = n
  BY <1>6, <1>7 DEF IInv, TypeOK
<1>9. RefcntExact'
  <2> SUFFICES ASSUME NEW c \in Buf
               PROVE  refcnt'[c] = Cardinality(Handles(held', c))
    BY DEF RefcntExact
  <2>1. Cardinality(Handles(held', c)) =
          IF b = c THEN Cardinality(Handles(held, c)) + 1 ELSE Cardinality(Handles(held, c))
    BY <1>2, HandlesAppend DEF IInv, TypeOK
  <2>2. refcnt[c] = Cardinality(Handles(held, c))
    BY DEF IInv, RefcntExact
  <2> QED
    BY <1>8, <2>1, <2>2 DEF IInv, TypeOK
<1>10. ASSUME Cached(n) = {}
       PROVE  \A i \in DOMAIN held : held[i] # b
  <2>1. Cardinality(Handles(held, b)) = 0
    BY <1>7, <1>10 DEF IInv, RefcntExact
  <2>2. Handles(held, b) = {}
    BY <2>1, HandlesFinite, FS_EmptySet DEF IInv, TypeOK
  <2> QED
    BY <2>2 DEF Handles
<1>11. \A i \in DOMAIN held' : blk'[held'[i]] # NoBlock
  <2> SUFFICES ASSUME NEW i \in 1..Len(held) + 1 PROVE blk'[held'[i]] # NoBlock
    BY <1>2, <1>4 DEF IInv, TypeOK
  <2>1. CASE i = Len(held) + 1
    <3>1. held'[i] = b
      BY <1>2, <2>1 DEF IInv, TypeOK
    <3> QED
      BY <3>1, <1>4, <1>8
  <2>2. CASE i # Len(held) + 1
    <3>1. i \in DOMAIN held /\ held'[i] = held[i] /\ held[i] \in Buf
      BY <1>2, <1>4, <2>2 DEF IInv, TypeOK
    <3>2. blk[held[i]] # NoBlock
      BY <3>1 DEF IInv
    <3>3. blk'[held[i]] = blk[held[i]]
      <4>1. CASE Cached(n) # {}
        BY <4>1, <1>6
      <4>2. CASE Cached(n) = {}
        BY <4>2, <1>7, <1>10, <3>1 DEF IInv, TypeOK
      <4> QED
        BY <4>1, <4>2
    <3> QED
      BY <3>1, <3>2, <3>3
  <2> QED
    BY <2>1, <2>2
<1>12. TypeOK'
  <2>1. refcnt' \in [Buf -> Nat]
    BY <1>8 DEF IInv, TypeOK
  <2>2. /\ blk' \in [Buf -> Blocks \cup {NoBlock}]
        /\ data' \in [Buf -> Data]
        /\ flags' \in [Buf -> SUBSET {B_VALID, B_DIRTY}]
    <3>1. CASE Cached(n) # {}
      BY <3>1, <1>6 DEF IInv, TypeOK
    <3>2. CASE Cached(n) = {}
      <4>1. disk[n] \in Data
        BY DEF IInv, TypeOK
      <4>2. blk' \in [Buf -> Blocks \cup {NoBlock}]
        BY <3>2, <1>7 DEF IInv, TypeOK
      <4>3. data' \in [Buf -> Data]
        BY <4>1, <3>2, <1>7 DEF IInv, TypeOK
      <4>4. flags' \in [Buf -> SUBSET {B_VALID, B_DIRTY}]
        <5>1. {B_VALID} \in SUBSET {B_VALID, B_DIRTY}
          OBVIOUS
        <5> QED
          BY <5>1, <3>2, <1>7 DEF IInv, TypeOK
      <4> QED
        BY <4>2, <4>3, <4>4
    <3> QED
      BY <3>1, <3>2
  <2> QED
    BY <1>3, <1>5, <2>1, <2>2 DEF IInv, TypeOK
<1>13. Coherent' /\ (\A c \in Buf : blk[c] = NoBlock => flags[c] = {})'
  <2>1. CASE Cached(n) # {}
    BY <1>3, <1>6, <2>1 DEF IInv, NoAlias, Coherent
  <2>2. CASE Cached(n) = {}
    <3>1. \A c \in Buf : /\ blk'[c] = IF c = b THEN n ELSE blk[c]
                         /\ flags'[c] = IF c = b THEN {B_VALID} ELSE flags[c]
                         /\ data'[c] = IF c = b THEN disk[n] ELSE data[c]
                         /\ blk[c] # n
      BY <1>7, <2>2 DEF IInv, TypeOK
    <3>2. NoAlias'
      BY <1>4, <3>1 DEF IInv, Coherent, NoAlias
    <3>3. Coherent'
      BY <1>3, <1>4, <3>1, <3>2 DEF IInv, Coherent
    <3> QED
      BY <1>4, <3>1, <3>3 DEF IInv
  <2> QED
    BY <2>1, <2>2
<1>14. ListOrder' /\ NeverOutOfBuffers'
  BY <1>3 DEF IInv, ListOrder, NeverOutOfBuffers
<1> QED
  BY <1>5, <1>9, <1>11, <1>12, <1>13, <1>14 DEF IInv

\* bwrite changes one buffer and its block alike; no other buffer stands for
\* that block.
LEMMA BwriteIInv ==
  ASSUME IInv, NEW i \in DOMAIN held, NEW d \in Data, bwrite(i, d)
  PROVE  IInv'
<1> DEFINE b == held[i]
<1>1. b \in Buf /\ blk[b] # NoBlock /\ blk[b] \in Blocks
  BY DEF IInv, TypeOK
<1>2. UNCHANGED <<blk, refcnt, rank, held, fault>>
  BY DEF bwrite
<1>3. \A c \in Buf : /\ flags'[c] = IF c = b THEN {B_VALID} ELSE flags[c]
                     /\ data'[c] = IF c = b THEN d ELSE data[c]
  BY DEF bwrite, IInv, TypeOK
<1>4. \A m \in Blocks : disk'[m] = IF m = blk[b] THEN d ELSE disk[m]
  BY DEF bwrite, IInv, TypeOK
<1>5. TypeOK'
  <2>1. data' \in [Buf -> Data] /\ disk' \in [Blocks -> Data]
    BY <1>1 DEF bwrite, IInv, TypeOK
  <2>2. flags' \in [Buf -> SUBSET {B_VALID, B_DIRTY}]
    BY <1>1 DEF bwrite, IInv, TypeOK
  <2> QED
    BY <1>2, <2>1, <2>2 DEF IInv, TypeOK
<1>6. Coherent'
  <2>0. NoAlias'
    BY <1>2 DEF IInv, Coherent, NoAlias
  <2> SUFFICES ASSUME NEW c \in Buf, blk[c] # NoBlock
               PROVE  flags'[c] = {B_VALID} /\ data'[c] = disk'[blk[c]]
    BY <1>2, <2>0 DEF Coherent
  <2>1. blk[c] \in Blocks /\ flags[c] = {B_VALID} /\ data[c] = disk[blk[c]]
    BY DEF IInv, TypeOK, Coherent
  <2>2. blk[c] = blk[b] => c = b
    BY <1>1 DEF IInv, Coherent, NoAlias
  <2> HIDE DEF b
  <2> QED
    BY <1>3, <1>4, <2>1, <2>2
<1>7. (\A c \in Buf : blk[c] = NoBlock => flags[c] = {})'
  BY <1>1, <1>2, <1>3 DEF IInv
<1>8. RefcntExact' /\ ListOrder' /\ NeverOutOfBuffers'
  BY <1>2 DEF IInv, RefcntExact, ListOrder, NeverOutOfBuffers
<1> QED
  BY <1>2, <1>5, <1>6, <1>7, <1>8 DEF IInv

\* brelse keeps the invariant: the positions in front of the released buffer
\* move back by one.
LEMMA BrelseIInv ==
  ASSUME IInv, brelse
  PROVE  IInv'
<1> DEFINE b == held[Len(held)]
<1>1. held # << >> /\ held \in Seq(Buf) /\ Len(held) \in Nat /\ Len(held) > 0 /\ b \in Buf
  BY DEF brelse, IInv, TypeOK
<1>2. held' = SubSeq(held, 1, Len(held) - 1) /\ UNCHANGED <<blk, flags, data, disk, fault>>
  BY DEF brelse
<1>3. \A c \in Buf : refcnt'[c] = IF b = c THEN refcnt[c] - 1 ELSE refcnt[c]
  BY <1>1 DEF brelse, IInv, TypeOK
<1>4. held' \in Seq(Buf) /\ Len(held') = Len(held) - 1
  <2>1. /\ SubSeq(held, 1, Len(held) - 1) \in Seq(Buf)
        /\ Len(SubSeq(held, 1, Len(held) - 1)) = Len(held) - 1
    BY <1>1, FrontType
  <2> QED
    BY <1>2, <2>1, Zenon
<1>5. \A i \in DOMAIN held' : i \in DOMAIN held /\ held'[i] = held[i]
  BY <1>1, <1>2
<1>6. RefcntExact'
  <2> SUFFICES ASSUME NEW c \in Buf
               PROVE  refcnt'[c] = Cardinality(Handles(held', c))
    BY DEF RefcntExact
  <2>1. Cardinality(Handles(held', c)) =
          IF b = c THEN Cardinality(Handles(held, c)) - 1 ELSE Cardinality(Handles(held, c))
    BY <1>1, <1>2, HandlesFront
  <2>2. refcnt[c] = Cardinality(Handles(held, c))
    BY DEF IInv, RefcntExact
  <2> HIDE DEF b
  <2> QED
    BY <1>3, <2>1, <2>2
<1>7. refcnt' \in [Buf -> Nat]
  <2>1. \A c \in Buf : refcnt'[c] \in Nat
    BY <1>4, <1>6, HandlesFinite DEF RefcntExact
  <2>2. refcnt' = [refcnt EXCEPT ![b] = @ - 1]
    BY DEF brelse
  <2>3. refcnt' = [c \in Buf |-> refcnt'[c]]
    BY <2>2 DEF IInv, TypeOK
  <2> QED
    BY <2>1, <2>3
<1>8. rank' \in [Buf -> 1..NBUF] /\ ListOrder'
  <2>1. CASE refcnt[b] # 1
    BY <2>1 DEF brelse, IInv, TypeOK, ListOrder
  <2>2. CASE refcnt[b] = 1
    <3>1. rank' = MoveToFront(b)
      BY <2>2 DEF brelse
    <3>2. \A c \in Buf : rank[c] \in 1..NBUF
      BY DEF IInv, TypeOK
    <3>3. \A c \in Buf : rank[c] = rank[b] => c = b
      BY <1>1 DEF IInv, ListOrder
    <3>4. NBUF \in Nat
      BY BioAssumption
    <3> HIDE DEF b
    <3>5. \A c \in Buf : rank'[c] = IF c = b THEN 1
                           ELSE IF rank[c] < rank[b] THEN rank[c] + 1 ELSE rank[c]
      BY <3>1 DEF MoveToFront
    <3>6. \A c \in Buf : rank'[c] \in 1..NBUF
      BY <3>2, <3>4, <3>5, <1>1
    <3>7. rank' \in [Buf -> 1..NBUF]
      BY <3>1, <3>6 DEF MoveToFront
    <3>8. ListOrder'
      <4> SUFFICES ASSUME NEW c \in Buf, NEW x \in Buf, rank'[c] = rank'[x] PROVE c = x
        BY DEF ListOrder
      <4>1. rank[c] = rank[x] => c = x
        BY DEF IInv, ListOrder
      <4> QED
        BY <4>1, <3>2, <3>3, <3>4, <3>5, <1>1
    <3> QED
      BY <3>7, <3>8
  <2> QED
    BY <2>1, <2>2
<1>9. TypeOK'
  BY <1>2, <1>4, <1>7, <1>8 DEF IInv, TypeOK
<1>10. (\A i \in DOMAIN held : blk[held[i]] # NoBlock)'
  BY <1>2, <1>5 DEF IInv
<1>11. Len(held') <= MaxHeld
  BY <1>1, <1>4, BioAssumption DEF IInv
<1>12. Coherent' /\ NeverOutOfBuffers' /\ (\A c \in Buf : blk[c] = NoBlock => flags[c] = {})'
  BY <1>2 DEF IInv, NoAlias, Coherent, NeverOutOfBuffers
<1> QED
  BY <1>6, <1>8, <1>9, <1>10, <1>11, <1>12 DEF IInv

-----------------------------------------------------------------------------
(***************************************************************************)
(* The theorems.                                                           *)
(***************************************************************************)

\* Every reachable state of the cache satisfies the inductive invariant.
THEOREM Invariance == Spec => []IInv
<1>1. IInv /\ [Next]_vars => IInv'
  <2> SUFFICES ASSUME IInv, [Next]_vars PROVE IInv'
    OBVIOUS
  <2>1. CASE \E n \in Blocks : bread(n)
    BY <2>1, BreadIInv
  <2>2. CASE \E i \in DOMAIN held, d \in Data : bwrite(i, d)
    BY <2>2, BwriteIInv
  <2>3. CASE brelse
    BY <2>3, BrelseIInv
  <2>4. CASE UNCHANGED vars
    BY <2>4 DEF vars, IInv, TypeOK, NoAlias, Coherent, RefcntExact, ListOrder,
                NeverOutOfBuffers, Handles
  <2> QED
    BY <2>1, <2>2, <2>3, <2>4 DEF Next
<1> QED
  BY <1>1, InitIInv, PTL DEF Spec

\* No two buffers ever stand for one block, and each assigned buffer holds
\* what its block holds on the disk.
THEOREM CacheCoherent == Spec => []Coherent
<1>1. IInv => Coherent
  BY DEF IInv
<1> QED
  BY <1>1, Invariance, PTL

\* The fields of the buffers keep their types, refcnt is exact and the list
\* loses no buffer, however often bget recycles and brelse moves buffers.
THEOREM CacheBookkeeping == Spec => []Bookkeeping
<1>1. IInv => Bookkeeping
  BY DEF IInv, Bookkeeping
<1> QED
  BY <1>1, Invariance, PTL

\* "bget: no buffers" is unreachable while callers hold at most NBUF buffers.
THEOREM NeverExhausted == Spec => []NeverOutOfBuffers
<1>1. IInv => NeverOutOfBuffers
  BY DEF IInv
<1> QED
  BY <1>1, Invariance, PTL

\* What the callers see of a bread: the new handle shows the disk's content
\* of its block, and recycling disturbs no other handle.
LEMMA BreadView ==
  ASSUME IInv, NEW n \in Blocks, bread(n), NEW b \in Buf, bget(n, b),
         held' = Append(held, b)
  PROVE  /\ Len(held) < MaxHeld /\ UNCHANGED disk
         /\ blk'[b] = n /\ data'[b] = disk[n]
         /\ \A i \in DOMAIN held : /\ blk'[held[i]] = blk[held[i]]
                                   /\ data'[held[i]] = data[held[i]]
<1>1. Len(held) < MaxHeld /\ UNCHANGED disk
  BY DEF bread
<1>2. CASE Cached(n) # {}
  <2>1. blk[b] = n /\ Hit(n, b)
    BY <1>2 DEF bget, Hit, First, Cached
  <2>2. flags[b] = {B_VALID} /\ data[b] = disk[n]
    BY <2>1, BioAssumption DEF IInv, Coherent
  <2> QED
    BY <1>1, <2>1, <2>2 DEF Hit
<1>3. CASE Cached(n) = {}
  <2>1. Recycle(n, b) /\ refcnt[b] = 0
    BY <1>3 DEF bget, Recycle, Last, Recyclable
  <2>2. \A i \in DOMAIN held : held[i] # b
    <3>1. Cardinality(Handles(held, b)) = 0
      BY <2>1 DEF IInv, RefcntExact
    <3>2. Handles(held, b) = {}
      BY <3>1, HandlesFinite, FS_EmptySet DEF IInv, TypeOK
    <3> QED
      BY <3>2 DEF Handles
  <2> QED
    BY <1>1, <2>1, <2>2 DEF Recycle, IInv, TypeOK
<1> QED
  BY <1>2, <1>3

\* Every step of the cache is a step of BlockStore or leaves it unchanged:
\* bread and bwrite through any handle behave as on a disk without a cache.
THEOREM Refinement == Spec => ImplementsBlockStore
<1>1. Init => Abstract!Init
  BY DEF Init, Abstract!Init
<1>2. IInv /\ [Next]_vars => [Abstract!Next]_Abstract!vars
  <2> SUFFICES ASSUME IInv, [Next]_vars PROVE [Abstract!Next]_Abstract!vars
    OBVIOUS
  <2> DEFINE open == [i \in DOMAIN held |-> blk[held[i]]]
             view == [i \in DOMAIN held |-> data[held[i]]]
  <2>1. CASE \E n \in Blocks : bread(n)
    <3>1. PICK n \in Blocks : bread(n)
      BY <2>1
    <3>2. PICK b \in Buf : bget(n, b) /\ held' = Append(held, b)
      BY <3>1, SomeRecyclable DEF bread
    <3>3. /\ Len(held) < MaxHeld /\ UNCHANGED disk
          /\ blk'[b] = n /\ data'[b] = disk[n]
          /\ \A i \in DOMAIN held : blk'[held[i]] = blk[held[i]] /\ data'[held[i]] = data[held[i]]
      BY <3>1, <3>2, BreadView
    <3>4. open' = Append(open, n)
      BY <3>2, <3>3 DEF IInv, TypeOK
    <3>5. view' = Append(view, disk[n])
      BY <3>2, <3>3 DEF IInv, TypeOK
    <3>6. Len(open) < MaxHeld
      BY <3>3 DEF IInv, TypeOK
    <3> QED
      BY <3>3, <3>4, <3>5, <3>6 DEF Abstract!Next, Abstract!Read
  <2>2. CASE \E i \in DOMAIN held, d \in Data : bwrite(i, d)
    <3>1. PICK i \in DOMAIN held, d \in Data : bwrite(i, d)
      BY <2>2
    <3>2. disk' = [disk EXCEPT ![open[i]] = d] /\ open' = open
      BY <3>1 DEF bwrite
    <3>3. view' = [j \in DOMAIN open |-> IF open[j] = open[i] THEN d ELSE view[j]]
      <4> SUFFICES ASSUME NEW j \in DOMAIN held
                   PROVE  data'[held[j]] = IF blk[held[j]] = blk[held[i]] THEN d ELSE data[held[j]]
        BY <3>1 DEF bwrite
      <4>1. held[i] \in Buf /\ held[j] \in Buf /\ blk[held[i]] # NoBlock
        BY DEF IInv, TypeOK
      <4>2. blk[held[j]] = blk[held[i]] => held[j] = held[i]
        BY <4>1 DEF IInv, Coherent, NoAlias
      <4>3. data'[held[j]] = IF held[j] = held[i] THEN d ELSE data[held[j]]
        BY <3>1, <4>1 DEF bwrite, IInv, TypeOK
      <4> QED
        BY <4>2, <4>3
    <3>4. i \in DOMAIN open
      BY <3>1
    <3> QED
      BY <3>1, <3>2, <3>3, <3>4 DEF Abstract!Next, Abstract!Write
  <2>3. CASE brelse
    <3>1. held # << >> /\ held \in Seq(Buf)
      BY <2>3 DEF brelse, IInv, TypeOK
    <3>2. held' = SubSeq(held, 1, Len(held) - 1) /\ UNCHANGED <<blk, data, disk>>
      BY <2>3 DEF brelse
    <3>3. open # << >> /\ Len(open) = Len(held)
      BY <3>1
    <3>4. open' = SubSeq(open, 1, Len(open) - 1)
      BY <3>1, <3>2
    <3>5. view' = SubSeq(view, 1, Len(open) - 1)
      BY <3>1, <3>2
    <3> QED
      BY <3>2, <3>3, <3>4, <3>5 DEF Abstract!Next, Abstract!Release
  <2>4. CASE UNCHANGED vars
    BY <2>4 DEF vars, Abstract!vars
  <2> QED
    BY <2>1, <2>2, <2>3, <2>4 DEF Next
<1> QED
  BY <1>1, <1>2, Invariance, PTL DEF Spec, ImplementsBlockStore, Abstract!Spec
===============================================================================
