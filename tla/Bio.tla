--------------------------------- MODULE Bio ---------------------------------
(***************************************************************************)
(* The buffer cache of fs/bio.c.  NBUF buffers sit on one list, most       *)
(* recently released first; bget looks a block up on it and otherwise      *)
(* recycles the least recently released buffer nobody holds; bread fills   *)
(* the buffer from the disk, bwrite writes it through at once, brelse      *)
(* gives it back.                                                          *)
(*                                                                         *)
(* The list is modelled by the position of each buffer on it: rank 1 is    *)
(* bcache.head.next, rank NBUF is bcache.head.prev.  A buffer's pair       *)
(* (dev, blockno) is one value: every caller in fs.c passes the device     *)
(* ROOTDEV, and the pair (0, 0) that zeroed memory starts with is NoBlock. *)
(* The kernel has one thread and interrupt handlers never use the cache,   *)
(* so a call is one step; iderw is taken to complete, which module Ide     *)
(* examines.                                                               *)
(***************************************************************************)
EXTENDS Integers, FiniteSets, Sequences

CONSTANTS NBUF,      \* number of buffers
          Blocks,    \* blocks of the disk
          NoBlock,   \* what an unused buffer is assigned to
          Data,      \* contents of a block
          Zero,      \* the content of memory that was never written
          MaxHeld    \* most buffers that fs.c holds between bread and brelse

ASSUME BioAssumption ==
  /\ NBUF \in Nat \ {0}
  /\ MaxHeld \in 1..NBUF
  /\ NoBlock \notin Blocks
  /\ Zero \in Data

Buf == 0..NBUF-1
B_VALID == "B_VALID"
B_DIRTY == "B_DIRTY"

VARIABLES blk,       \* blk[b]: the block buffer b is assigned to
          flags,     \* flags[b]: a set of B_VALID and B_DIRTY
          refcnt,    \* refcnt[b]: the users of b
          rank,      \* rank[b]: position of b on the list, 1 is the head
          data,      \* data[b]: the content of b
          disk,      \* disk[n]: the content of block n
          held,      \* buffers the callers hold, in the order of their bread
          fault      \* a null struct buf pointer has been dereferenced

vars == <<blk, flags, refcnt, rank, data, disk, held, fault>>

-----------------------------------------------------------------------------

\* binit puts each buffer in front of the previous ones.  The memory of
\* bcache starts zeroed.
binit ==
  /\ blk = [b \in Buf |-> NoBlock]
  /\ flags = [b \in Buf |-> {}]
  /\ refcnt = [b \in Buf |-> 0]
  /\ rank = [b \in Buf |-> NBUF - b]

Init ==
  /\ binit
  /\ data = [b \in Buf |-> Zero]
  /\ disk \in [Blocks -> Data]
  /\ held = << >>
  /\ fault = FALSE

-----------------------------------------------------------------------------

\* Faulty variants, whose names start with Bad, stand before the definitions
\* they replace when the properties are tested for their teeth.

Cached(n) == {b \in Buf : blk[b] = n}

\* Faulty: recycles a buffer only once.
BadRecyclableOnce == {b \in Buf : refcnt[b] = 0 /\ flags[b] = {}}

Recyclable == {b \in Buf : refcnt[b] = 0 /\ B_DIRTY \notin flags[b]}

First(S, b) == b \in S /\ \A x \in S : rank[b] <= rank[x]

Last(S, b) == b \in S /\ \A x \in S : rank[x] <= rank[b]

\* The block is on the list: take one more reference, and let bread fill the
\* buffer if it is not valid.
Hit(n, b) ==
  /\ First(Cached(n), b)
  /\ refcnt' = [refcnt EXCEPT ![b] = @ + 1]
  /\ data' = IF B_VALID \in flags[b] THEN data ELSE [data EXCEPT ![b] = disk[n]]
  /\ flags' = [flags EXCEPT ![b] = @ \cup {B_VALID}]
  /\ UNCHANGED blk

\* Faulty: recycling does not clear the flags, so bread finds the buffer valid
\* and keeps the content of its former block.
BadRecycle(n, b) ==
  /\ Last(Recyclable, b)
  /\ blk' = [blk EXCEPT ![b] = n]
  /\ refcnt' = [refcnt EXCEPT ![b] = 1]
  /\ data' = IF B_VALID \in flags[b] THEN data ELSE [data EXCEPT ![b] = disk[n]]
  /\ flags' = [flags EXCEPT ![b] = @ \cup {B_VALID}]

\* The block is not on the list: recycle the last buffer that nobody holds,
\* and let bread fill it.
Recycle(n, b) ==
  /\ Last(Recyclable, b)
  /\ blk' = [blk EXCEPT ![b] = n]
  /\ refcnt' = [refcnt EXCEPT ![b] = 1]
  /\ data' = [data EXCEPT ![b] = disk[n]]
  /\ flags' = [flags EXCEPT ![b] = {B_VALID}]

bget(n, b) == IF Cached(n) # {} THEN Hit(n, b) ELSE Recycle(n, b)

\* bread(ROOTDEV, n).  With no buffer for it bget returns 0, and bread reads
\* the flags of that null pointer.
bread(n) ==
  /\ ~fault
  /\ Len(held) < MaxHeld
  /\ UNCHANGED <<rank, disk>>
  /\ IF Cached(n) # {} \/ Recyclable # {}
     THEN \E b \in Buf : /\ bget(n, b)
                         /\ held' = Append(held, b)
                         /\ UNCHANGED fault
     ELSE fault' = TRUE /\ UNCHANGED <<blk, refcnt, data, flags, held>>

\* A caller stores d into the buffer of its handle i and calls bwrite, whose
\* iderw writes the buffer to the disk and clears B_DIRTY.  Every store in
\* fs.c is followed by the bwrite with no other call in between.
bwrite(i, d) ==
  /\ ~fault
  /\ data' = [data EXCEPT ![held[i]] = d]
  /\ disk' = [disk EXCEPT ![blk[held[i]]] = d]
  /\ flags' = [flags EXCEPT ![held[i]] = {B_VALID}]
  /\ UNCHANGED <<blk, refcnt, rank, held, fault>>

\* Faulty: the insertion behind the head does not link the former first
\* buffer, which shares its place.
BadMoveToFront(b) == [rank EXCEPT ![b] = 1]

\* The positions after buffer b has been unlinked and put behind the head.
MoveToFront(b) ==
  [x \in Buf |-> IF x = b THEN 1
                 ELSE IF rank[x] < rank[b] THEN rank[x] + 1 ELSE rank[x]]

\* Faulty: the oldest handle is given back, and the caller keeps the latest.
BadBrelse ==
  /\ ~fault
  /\ held # << >>
  /\ LET b == held[1] IN
       /\ refcnt' = [refcnt EXCEPT ![b] = @ - 1]
       /\ rank' = IF refcnt[b] = 1 THEN MoveToFront(b) ELSE rank
  /\ held' = Tail(held)
  /\ UNCHANGED <<blk, flags, data, disk, fault>>

\* brelse of the latest handle: every function of fs.c releases its buffers
\* in the opposite order of their bread.
brelse ==
  /\ ~fault
  /\ held # << >>
  /\ LET b == held[Len(held)] IN
       /\ refcnt' = [refcnt EXCEPT ![b] = @ - 1]
       /\ rank' = IF refcnt[b] = 1 THEN MoveToFront(b) ELSE rank
  /\ held' = SubSeq(held, 1, Len(held) - 1)
  /\ UNCHANGED <<blk, flags, data, disk, fault>>

Next ==
  \/ \E n \in Blocks : bread(n)
  \/ \E i \in DOMAIN held, d \in Data : bwrite(i, d)
  \/ brelse

Spec == Init /\ [][Next]_vars

-----------------------------------------------------------------------------
(***************************************************************************)
(* Properties.                                                             *)
(***************************************************************************)

\* Each field of struct buf (include/buf.h) keeps its type; positions stay on
\* the list; bget hands out buffers of the cache only.
TypeOK ==
  /\ blk \in [Buf -> Blocks \cup {NoBlock}]
  /\ flags \in [Buf -> SUBSET {B_VALID, B_DIRTY}]
  /\ refcnt \in [Buf -> Nat]
  /\ rank \in [Buf -> 1..NBUF]
  /\ data \in [Buf -> Data]
  /\ disk \in [Blocks -> Data]
  /\ held \in Seq(Buf)
  /\ fault \in BOOLEAN

\* bget never lets two buffers stand for the same block.
NoAlias ==
  \A b, c \in Buf : blk[b] = blk[c] /\ blk[b] # NoBlock => b = c

\* A buffer that is assigned to a block is the only one for it and holds what
\* the disk holds, whatever sequence of recycling and writes through other
\* handles came before (the write-through of bwrite leaves nothing to lose at
\* brelse).
Coherent ==
  /\ NoAlias
  /\ \A b \in Buf : blk[b] # NoBlock =>
       flags[b] = {B_VALID} /\ data[b] = disk[blk[b]]

Handles(h, b) == {i \in DOMAIN h : h[i] = b}

\* refcnt counts the handles: brelse forgets none and bget invents none.
RefcntExact ==
  \A b \in Buf : refcnt[b] = Cardinality(Handles(held, b))

\* The unlink and insert of brelse keep every buffer on the list, once.
ListOrder ==
  \A b, c \in Buf : rank[b] = rank[c] => b = c

\* The bookkeeping of the cache: the fields keep their types, reference
\* counts equal the handles that callers hold, and the list of last use holds
\* every buffer once, through any nesting of bread and brelse.
Bookkeeping ==
  /\ TypeOK
  /\ RefcntExact
  /\ ListOrder

\* "bget: no buffers" is never reached, so bread never follows a null
\* pointer, as long as fs.c holds at most NBUF buffers at once.
NeverOutOfBuffers == ~fault

\* The inductive invariant behind the properties above: the buffers in use
\* are assigned, the others are as binit left them, and the callers' handles
\* are within their bound.
IInv ==
  /\ TypeOK
  /\ Coherent
  /\ RefcntExact
  /\ ListOrder
  /\ NeverOutOfBuffers
  /\ \A i \in DOMAIN held : blk[held[i]] # NoBlock
  /\ \A b \in Buf : blk[b] = NoBlock => flags[b] = {}
  /\ Len(held) <= MaxHeld

\* The cache implements the store of module BlockStore.
Abstract ==
  INSTANCE BlockStore WITH
    store <- disk,
    open  <- [i \in DOMAIN held |-> blk[held[i]]],
    view  <- [i \in DOMAIN held |-> data[held[i]]]

\* Callers of bread, bwrite and brelse cannot tell the cache from a store
\* whose reads always see the latest write to the block.
ImplementsBlockStore == Abstract!Spec
===============================================================================
