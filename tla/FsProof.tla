------------------------------- MODULE FsProof --------------------------------
(***************************************************************************)
(* The consistency of the file system across crashes, for every geometry   *)
(* of the disk and any number of crashes.  The properties speak of the     *)
(* disk; the invariant also speaks of the copies in icache, which run      *)
(* ahead of it while a writei is under way.  It holds until the kernel     *)
(* follows a wild number, which only a full disk or a full table of inodes *)
(* can make it do.                                                         *)
(***************************************************************************)
EXTENDS Fs, TLAPS, SequenceTheorems, FiniteSetTheorems, WellFoundedInduction

-----------------------------------------------------------------------------
(***************************************************************************)
(* Definitions.  The operators that end in In take the data blocks as an   *)
(* argument, so that lemmas can speak of the blocks before and after.      *)
(***************************************************************************)

Slots == 0..NDIRECT + NINDIRECT

EntryIn(d, b, k) == IF Len(d[b][k]) = 1 THEN d[b][k][1] ELSE 0

\* The block that slot k of inode ip names, as in Named.
SlotIn(d, ip, k) ==
  IF k <= NDIRECT THEN ip.addrs[k]
  ELSE IF ip.addrs[NDIRECT] \in Blocks THEN EntryIn(d, ip.addrs[NDIRECT], k - NDIRECT - 1)
  ELSE 0

\* bmap.
MapIn(d, ip, bn) ==
  IF bn < NDIRECT THEN ip.addrs[bn]
  ELSE IF ip.addrs[NDIRECT] \in Blocks THEN EntryIn(d, ip.addrs[NDIRECT], bn - NDIRECT)
  ELSE ip.addrs[NDIRECT]

\* CellAt.
CellIn(d, ip, off) ==
  LET b == MapIn(d, ip, off \div BSIZE)
  IN IF b \in Blocks THEN d[b][off % BSIZE] ELSE None

\* Missing.
LacksIn(d, ip, bn) ==
  IF bn < NDIRECT
  THEN IF ip.addrs[bn] = 0 THEN "direct" ELSE "none"
  ELSE IF ip.addrs[NDIRECT] = 0 THEN "indirect"
  ELSE IF ip.addrs[NDIRECT] = NoSpace THEN "garbage"
  ELSE IF EntryIn(d, ip.addrs[NDIRECT], bn - NDIRECT) = 0 THEN "entry" ELSE "none"

\* The first n cells of ip have an address.
Filled(d, ip, n) == \A off \in 0..n - 1 : MapIn(d, ip, off \div BSIZE) # 0

Covered(B, d, V) == \A i \in Inums, k \in Slots : SlotIn(d, V[i], k) \in Blocks => SlotIn(d, V[i], k) \in B

Apart(d, V) ==
  \A i, j \in Inums : \A k, l \in Slots :
    SlotIn(d, V[i], k) = SlotIn(d, V[j], l) /\ SlotIn(d, V[i], k) \in Blocks => i = j /\ k = l

\* Block b is in no slot.
Unused(b, d, V) == \A i \in Inums, k \in Slots : SlotIn(d, V[i], k) # b

\* What the kernel takes the inodes to be.
Views == [i \in Inums |-> ilock(i)]

Data == [Blocks -> [0..BSIZE-1 -> Cell]]

\* Copy ip of the inode that is dp on the disk: only empty slots are ahead.
Ahead(ip, dp) ==
  /\ ip.type = dp.type /\ ip.nlink = dp.nlink /\ ip.size = dp.size
  /\ \A k \in 0..NDIRECT : dp.addrs[k] # 0 => ip.addrs[k] = dp.addrs[k]

Writing == pc \in {"write", "bzero", "entry", "iupdate"}

Request == [ino : Inums, off : Nat, cells : Seq(Cell), tot : Nat, new : {0} \cup Blocks]

TypeInv ==
  /\ bitmap \subseteq Blocks
  /\ dinode \in [Inums -> Inode]
  /\ data \in Data
  /\ mem \in [Inums -> {None} \cup Inode]
  /\ pc \in {"idle", "created", "write", "bzero", "entry", "iupdate"}
  /\ Writing => op \in Request
  /\ crashes \in 0..MaxCrashes

BlockInv == Covered(bitmap, data, Views) /\ Apart(data, Views)

CopyInv ==
  /\ \A i \in Inums : mem[i] # None => Ahead(mem[i], dinode[i])
  /\ \A i \in Inums : mem[i] # None =>
       /\ ~(Writing /\ i = op.ino) => mem[i] = dinode[i]
       /\ mem[i].nlink > 0
  /\ \A i \in Inums : dinode[i].type = T_NONE => dinode[i].nlink = 0

HoleInv ==
  /\ \A i \in Inums : Filled(data, dinode[i], dinode[i].size)
  /\ \A i \in Inums : mem[i] # None => Filled(data, mem[i], mem[i].size)

\* What bmap lacks for the current block of the writei.
Lacks == LacksIn(data, mem[op.ino], (op.off + op.tot) \div BSIZE)

\* The writei that is under way.
WriteInv ==
  Writing =>
    /\ mem[op.ino] # None
    /\ op.off <= mem[op.ino].size
    /\ op.off + Len(op.cells) <= MAXFILE * BSIZE
    /\ IF pc = "iupdate" THEN op.tot = Len(op.cells) /\ op.off + op.tot > mem[op.ino].size
                         ELSE op.tot < Len(op.cells)
    /\ op.off + Len(op.cells) <= mem[op.ino].size => mem[op.ino] = dinode[op.ino]
    /\ Filled(data, mem[op.ino], op.off + op.tot)
    /\ pc \in {"bzero", "entry"} =>
         op.new \in bitmap /\ Unused(op.new, data, Views)
    /\ pc = "bzero" => Lacks \in {"direct", "indirect", "entry"}
    /\ pc = "entry" => Lacks = "entry" /\ data[op.new] = [k \in 0..BSIZE-1 |-> Nil]

\* An entry of a file, and what a cell of the root directory may hold.
FileEntry == (Names \ {"."}) \X Inums
DirCell == {Nil, <<".", ROOTINO>>} \cup FileEntry

\* The blocks of the root directory hold entries only, and "." is the first.
RootInv ==
  /\ dinode[ROOTINO].type = T_DIR /\ dinode[ROOTINO].nlink = 1
  /\ dinode[ROOTINO].addrs[0] = 1 /\ dinode[ROOTINO].size > 0
  /\ data[1][0] = <<".", ROOTINO>>
  /\ \A bn \in 0..MAXFILE - 1 : \A k \in 0..BSIZE-1 :
       MapIn(data, Views[ROOTINO], bn) \in Blocks =>
         data[MapIn(data, Views[ROOTINO], bn)][k] \in DirCell

\* The cells of the root directory on the disk.
RootOffs == 0..dinode[ROOTINO].size - 1
RootCell(x) == CellIn(data, dinode[ROOTINO], x)

\* Neither the name nor the inode of e is in the root directory.
Fresh(e) ==
  /\ \A x \in RootOffs :
       RootCell(x) \in FileEntry => RootCell(x)[1] # e[1] /\ RootCell(x)[2] # e[2]
  /\ dinode[e[2]].type \in {T_FILE, T_DEV}

\* The entries, by their offsets.
EntryInv ==
  /\ \A x \in RootOffs : RootCell(x) \in FileEntry =>
       dinode[RootCell(x)[2]].type \in {T_FILE, T_DEV} /\ dinode[RootCell(x)[2]].nlink = 1
  /\ \A x, y \in RootOffs :
       /\ RootCell(x) \in FileEntry /\ RootCell(y) \in FileEntry
       /\ RootCell(x)[1] = RootCell(y)[1] \/ RootCell(x)[2] = RootCell(y)[2]
       => x = y
  /\ \A x \in RootOffs : RootCell(x) = <<".", ROOTINO>> => x < RootEntries

\* The create that is under way.
CreateInv ==
  /\ pc = "created" =>
       /\ op \in FileEntry /\ Fresh(op)
       /\ mem[op[2]] = None /\ mem[ROOTINO] # None
       /\ \A x \in RootOffs : RootCell(x) # None
  /\ Writing /\ op.ino = ROOTINO =>
       /\ op.off > 0
       /\ \E e \in FileEntry :
            /\ op.cells = <<e>>
            /\ Fresh(e)
            /\ dinode[e[2]].nlink = 1
            /\ pc = "iupdate" => CellIn(data, mem[ROOTINO], op.off) \in {None, e}

IInv ==
  /\ TypeInv
  /\ BlockInv
  /\ CopyInv
  /\ HoleInv
  /\ WriteInv
  /\ RootInv
  /\ EntryInv
  /\ CreateInv

-----------------------------------------------------------------------------
(***************************************************************************)
(* Numbers and cells.                                                      *)
(***************************************************************************)

\* Division.
LEMMA Division ==
  ASSUME NEW b \in Nat, b > 0, NEW x \in Nat
  PROVE  /\ x \div b \in Nat /\ x % b \in 0..b - 1
         /\ x = b * (x \div b) + (x % b)
<1>1. x = b * (x \div b) + (x % b)
  OBVIOUS
<1>2. x \div b \in Nat /\ x % b \in 0..b - 1
  OBVIOUS
<1> QED
  BY <1>1, <1>2

\* Division by the size of a block.
LEMMA DivMod ==
  ASSUME NEW x \in Nat
  PROVE  /\ x \div BSIZE \in Nat /\ x % BSIZE \in 0..BSIZE - 1
         /\ x = BSIZE * (x \div BSIZE) + (x % BSIZE)
<1>1. BSIZE \in Nat /\ BSIZE > 0
  BY FsAssumption
<1> QED
  BY <1>1, Division, Zenon

\* An offset within the largest file is in one of its blocks.
LEMMA BlockNumber ==
  ASSUME NEW x \in Nat, x < MAXFILE * BSIZE
  PROVE  x \div BSIZE \in 0..MAXFILE - 1
<1>1. /\ x \div BSIZE \in Nat /\ x % BSIZE \in 0..BSIZE - 1
      /\ x = BSIZE * (x \div BSIZE) + (x % BSIZE)
  BY DivMod
<1>2. MAXFILE \in Nat /\ BSIZE \in Nat /\ BSIZE > 0
  BY FsAssumption DEF MAXFILE
<1>3. ASSUME NEW q \in Nat, q >= MAXFILE PROVE BSIZE * q >= MAXFILE * BSIZE
  BY <1>2, <1>3
<1> QED
  BY <1>1, <1>2, <1>3

\* The cells from the place of x to the end of its block have its number.
LEMMA SameBlock ==
  ASSUME NEW x \in Nat, NEW y \in Nat, x <= y, y < x + (BSIZE - (x % BSIZE))
  PROVE  y \div BSIZE = x \div BSIZE /\ y % BSIZE = (x % BSIZE) + (y - x)
<1>1. /\ x \div BSIZE \in Nat /\ x % BSIZE \in 0..BSIZE - 1
      /\ x = BSIZE * (x \div BSIZE) + (x % BSIZE)
  BY DivMod
<1>2. /\ y \div BSIZE \in Nat /\ y % BSIZE \in 0..BSIZE - 1
      /\ y = BSIZE * (y \div BSIZE) + (y % BSIZE)
  BY DivMod
<1> DEFINE q == x \div BSIZE  r == y \div BSIZE
<1>3. BSIZE \in Nat /\ BSIZE > 0
  BY FsAssumption
<1>4. BSIZE * q <= y /\ y < BSIZE * q + BSIZE
  BY <1>1, <1>3
<1>5. ASSUME NEW m \in Nat, NEW n \in Nat, m < n PROVE BSIZE * m + BSIZE <= BSIZE * n
  <2>1. n >= m + 1
    BY <1>5
  <2>2. BSIZE * n >= BSIZE * (m + 1)
    BY <1>3, <1>5, <2>1
  <2> QED
    BY <1>3, <1>5, <2>2
<1>6. ~(q < r)
  BY <1>1, <1>2, <1>3, <1>4, <1>5
<1>7. ~(r < q)
  BY <1>1, <1>2, <1>3, <1>4, <1>5
<1>8. q = r
  BY <1>1, <1>2, <1>6, <1>7
<1> QED
  BY <1>1, <1>2, <1>3, <1>8

\* Offsets with the same block number and the same place are the same.
LEMMA SamePlace ==
  ASSUME NEW x \in Nat, NEW y \in Nat, x \div BSIZE = y \div BSIZE, x % BSIZE = y % BSIZE
  PROVE  x = y
<1>1. x = BSIZE * (x \div BSIZE) + (x % BSIZE)
  BY DivMod, Zenon
<1>2. y = BSIZE * (y \div BSIZE) + (y % BSIZE)
  BY DivMod, Zenon
<1> QED
  BY <1>1, <1>2, Zenon

\* Only the entry of an indirect block is a sequence of one cell.
LEMMA CellKinds ==
  /\ \A c \in Cell : Len(c) = 1 => c[1] \in Addrs
  /\ \A b \in Addrs : <<b>> \in Cell /\ Len(<<b>>) = 1 /\ <<b>>[1] = b
  /\ Nil \in Cell /\ Len(Nil) # 1
  /\ FileEntry \subseteq Cell /\ <<".", ROOTINO>> \in Cell /\ DirCell \subseteq Cell
  /\ Nil \notin FileEntry /\ None \notin DirCell /\ <<".", ROOTINO>> \notin FileEntry
  /\ Nil # <<".", ROOTINO>>
<1>1. ASSUME NEW c \in Cell, Len(c) = 1 PROVE c[1] \in Addrs
  <2>1. CASE c = Nil
    BY <1>1, <2>1 DEF Nil
  <2>2. CASE c \in {"byte"} \X Bytes
    BY <1>1, <2>2
  <2>3. CASE c \in ({"."} \cup Names) \X Inums
    BY <1>1, <2>3
  <2>4. CASE c \in {<<b>> : b \in Addrs}
    BY <2>4
  <2> QED
    BY <2>1, <2>2, <2>3, <2>4 DEF Cell
<1>2. \A b \in Addrs : <<b>> \in Cell /\ Len(<<b>>) = 1 /\ <<b>>[1] = b
  BY DEF Cell
<1>3. Nil \in Cell /\ Len(Nil) # 1
  BY DEF Cell, Nil
<1>4. ROOTINO \in Inums
  BY FsAssumption DEF ROOTINO, Inums
<1>5. FileEntry \subseteq Cell /\ <<".", ROOTINO>> \in Cell
  BY <1>4 DEF Cell, FileEntry
<1>6. DirCell \subseteq Cell
  BY <1>3, <1>5 DEF DirCell
<1>7. None \notin DirCell
  BY <1>6, NoneAssumption
<1>8. Nil \notin FileEntry /\ Nil # <<".", ROOTINO>> /\ <<".", ROOTINO>> \notin FileEntry
  BY DEF FileEntry, Nil
<1> QED
  BY <1>1, <1>2, <1>3, <1>5, <1>6, <1>7, <1>8

-----------------------------------------------------------------------------
(***************************************************************************)
(* Slots and the blocks they name.                                         *)
(***************************************************************************)

\* Where bmap looks for block bn.
SlotNo(bn) == IF bn < NDIRECT THEN bn ELSE bn + 1

LEMMA EntryType ==
  ASSUME NEW d \in Data, NEW b \in Blocks, NEW k \in 0..NINDIRECT - 1
  PROVE  EntryIn(d, b, k) \in Addrs
<1>1. k \in 0..BSIZE - 1
  BY FsAssumption
<1>2. d[b][k] \in Cell
  BY <1>1 DEF Data
<1> QED
  BY <1>2, CellKinds DEF EntryIn, Addrs

LEMMA SlotType ==
  ASSUME NEW d \in Data, NEW ip \in Inode, NEW k \in Slots
  PROVE  SlotIn(d, ip, k) \in Addrs
<1>1. CASE k <= NDIRECT
  BY <1>1, FsAssumption DEF SlotIn, Slots, Inode
<1>2. CASE k > NDIRECT /\ ip.addrs[NDIRECT] \in Blocks
  <2>1. k - NDIRECT - 1 \in 0..NINDIRECT - 1
    BY <1>2, FsAssumption DEF Slots
  <2>2. EntryIn(d, ip.addrs[NDIRECT], k - NDIRECT - 1) \in Addrs
    BY <1>2, <2>1, EntryType
  <2>3. ~(k <= NDIRECT)
    BY <1>2, FsAssumption DEF Slots
  <2> QED
    BY <1>2, <2>2, <2>3 DEF SlotIn
<1>3. CASE k > NDIRECT /\ ip.addrs[NDIRECT] \notin Blocks
  BY <1>3, FsAssumption DEF SlotIn, Slots, Addrs
<1> QED
  BY <1>1, <1>2, <1>3, FsAssumption DEF Slots

LEMMA MapSlot ==
  ASSUME NEW d, NEW ip, NEW bn \in 0..MAXFILE - 1
  PROVE  /\ SlotNo(bn) \in Slots
         /\ MapIn(d, ip, bn) \in Blocks => MapIn(d, ip, bn) = SlotIn(d, ip, SlotNo(bn))
         /\ SlotNo(bn) # NDIRECT
         /\ \A m \in 0..MAXFILE - 1 : SlotNo(m) = SlotNo(bn) => m = bn
<1> USE FsAssumption
<1>1. /\ SlotNo(bn) \in Slots
      /\ SlotNo(bn) # NDIRECT
      /\ \A m \in 0..MAXFILE - 1 : SlotNo(m) = SlotNo(bn) => m = bn
  BY DEF SlotNo, Slots, MAXFILE
<1>2. CASE bn < NDIRECT
  <2>1. SlotNo(bn) <= NDIRECT /\ SlotNo(bn) = bn
    BY <1>2 DEF SlotNo, MAXFILE
  <2> QED
    BY <1>1, <1>2, <2>1 DEF MapIn, SlotIn
<1>3. CASE ~(bn < NDIRECT)
  <2>1. ~(SlotNo(bn) <= NDIRECT) /\ SlotNo(bn) - NDIRECT - 1 = bn - NDIRECT
    BY <1>3 DEF SlotNo, MAXFILE
  <2> QED
    BY <1>1, <1>3, <2>1 DEF MapIn, SlotIn
<1> QED
  BY <1>2, <1>3

LEMMA MapType ==
  ASSUME NEW d \in Data, NEW ip \in Inode, NEW bn \in 0..MAXFILE - 1
  PROVE  MapIn(d, ip, bn) \in Addrs
<1> USE FsAssumption
<1>1. CASE bn < NDIRECT
  BY <1>1 DEF MapIn, Inode, MAXFILE
<1>2. CASE ~(bn < NDIRECT) /\ ip.addrs[NDIRECT] \in Blocks
  <2>1. bn - NDIRECT \in 0..NINDIRECT - 1
    BY <1>2 DEF MAXFILE
  <2> QED
    BY <1>2, <2>1, EntryType DEF MapIn
<1>3. CASE ~(bn < NDIRECT) /\ ip.addrs[NDIRECT] \notin Blocks
  BY <1>3 DEF MapIn, Inode
<1> QED
  BY <1>1, <1>2, <1>3

-----------------------------------------------------------------------------
(***************************************************************************)
(* What a write of one block does to the slots.                            *)
(***************************************************************************)

\* bmap fills an empty slot with an address; a new indirect block is zeroed.
LEMMA NewSlot ==
  ASSUME NEW d \in Data, NEW e \in Data, NEW ip \in Inode, NEW jp,
         NEW s \in 0..NDIRECT, NEW b \in Addrs \ {0}, ip.addrs[s] = 0,
         jp.addrs = [ip.addrs EXCEPT ![s] = b],
         \A c \in Blocks : c # b => e[c] = d[c],
         b \in Blocks => \A k \in 0..BSIZE - 1 : e[b][k] = Nil,
         ip.addrs[NDIRECT] \in Blocks => ip.addrs[NDIRECT] # b
  PROVE  /\ \A k \in Slots : SlotIn(e, jp, k) = IF k = s THEN b ELSE SlotIn(d, ip, k)
         /\ \A bn \in 0..MAXFILE - 1 :
              /\ MapIn(d, ip, bn) # 0 => MapIn(e, jp, bn) = MapIn(d, ip, bn)
              /\ MapIn(d, ip, bn) = 0 => MapIn(e, jp, bn) \in {0, b}
<1> USE FsAssumption
<1>1. /\ ip.addrs \in [0..NDIRECT -> Addrs] /\ 0 \notin Blocks
      /\ \A k \in 0..NDIRECT : jp.addrs[k] = IF k = s THEN b ELSE ip.addrs[k]
  BY DEF Inode, Blocks
<1>2. ASSUME b \in Blocks, NEW n \in 0..NINDIRECT - 1 PROVE EntryIn(e, b, n) = 0
  BY <1>2, CellKinds DEF EntryIn
<1>3. ASSUME ip.addrs[NDIRECT] \in Blocks, NEW n
      PROVE EntryIn(e, ip.addrs[NDIRECT], n) = EntryIn(d, ip.addrs[NDIRECT], n)
  BY <1>3 DEF EntryIn
<1>4. ASSUME NEW k \in Slots
      PROVE  SlotIn(e, jp, k) = IF k = s THEN b ELSE SlotIn(d, ip, k)
  <2>1. CASE k <= NDIRECT
    BY <1>1, <2>1 DEF SlotIn, Slots
  <2>2. CASE ~(k <= NDIRECT)
    <3>1. k # s /\ k - NDIRECT - 1 \in 0..NINDIRECT - 1
      BY <2>2 DEF Slots
    <3>2. CASE s = NDIRECT
      <4>1. jp.addrs[NDIRECT] = b /\ ip.addrs[NDIRECT] \notin Blocks
        BY <1>1, <3>2
      <4>2. SlotIn(d, ip, k) = 0
        BY <2>2, <4>1 DEF SlotIn
      <4>3. SlotIn(e, jp, k) = 0
        BY <1>2, <2>2, <3>1, <4>1 DEF SlotIn
      <4> QED
        BY <3>1, <4>2, <4>3
    <3>3. CASE s # NDIRECT
      <4>1. jp.addrs[NDIRECT] = ip.addrs[NDIRECT]
        BY <1>1, <3>3
      <4>2. SlotIn(e, jp, k) = SlotIn(d, ip, k)
        BY <1>3, <2>2, <4>1 DEF SlotIn
      <4> QED
        BY <3>1, <4>2
    <3> QED
      BY <3>2, <3>3
  <2> QED
    BY <2>1, <2>2
<1>5. ASSUME NEW bn \in 0..MAXFILE - 1
      PROVE  /\ MapIn(d, ip, bn) # 0 => MapIn(e, jp, bn) = MapIn(d, ip, bn)
             /\ MapIn(d, ip, bn) = 0 => MapIn(e, jp, bn) \in {0, b}
  <2>1. CASE bn < NDIRECT
    BY <1>1, <2>1 DEF MapIn, MAXFILE
  <2>2. CASE ~(bn < NDIRECT)
    <3>1. bn - NDIRECT \in 0..NINDIRECT - 1
      BY <2>2 DEF MAXFILE
    <3>2. CASE s = NDIRECT
      <4>1. jp.addrs[NDIRECT] = b /\ ip.addrs[NDIRECT] = 0
        BY <1>1, <3>2
      <4>2. MapIn(d, ip, bn) = 0
        BY <1>1, <2>2, <4>1 DEF MapIn
      <4>3. MapIn(e, jp, bn) \in {0, b}
        BY <1>2, <2>2, <3>1, <4>1 DEF MapIn
      <4> QED
        BY <4>2, <4>3
    <3>3. CASE s # NDIRECT
      <4>1. jp.addrs[NDIRECT] = ip.addrs[NDIRECT]
        BY <1>1, <3>3
      <4>2. MapIn(e, jp, bn) = MapIn(d, ip, bn)
        BY <1>3, <2>2, <4>1 DEF MapIn
      <4> QED
        BY <4>2
    <3> QED
      BY <3>2, <3>3
  <2> QED
    BY <2>1, <2>2
<1> QED
  BY <1>4, <1>5

\* bmap fills an empty entry of the indirect block.
LEMMA NewEntry ==
  ASSUME NEW d \in Data, NEW ip \in Inode, NEW n \in 0..NINDIRECT - 1, NEW c \in Addrs,
         ip.addrs[NDIRECT] \in Blocks, EntryIn(d, ip.addrs[NDIRECT], n) = 0, NEW e \in Data,
         \A k \in 0..BSIZE - 1 :
           e[ip.addrs[NDIRECT]][k] = IF k = n THEN <<c>> ELSE d[ip.addrs[NDIRECT]][k]
  PROVE  /\ \A k \in Slots : SlotIn(e, ip, k) = IF k = NDIRECT + 1 + n THEN c ELSE SlotIn(d, ip, k)
         /\ \A bn \in 0..MAXFILE - 1 : MapIn(e, ip, bn) = IF bn = NDIRECT + n THEN c ELSE MapIn(d, ip, bn)
         /\ MapIn(d, ip, NDIRECT + n) = 0
<1> USE FsAssumption
<1> DEFINE ind == ip.addrs[NDIRECT]
<1>1. n \in 0..BSIZE - 1 /\ ind \in Blocks /\ <<c>> \in Cell
  BY CellKinds
<1>4. \A k \in 0..BSIZE - 1 : e[ind][k] = IF k = n THEN <<c>> ELSE d[ind][k]
  OBVIOUS
<1>5. \A k \in 0..NINDIRECT - 1 : EntryIn(e, ind, k) = IF k = n THEN c ELSE EntryIn(d, ind, k)
  <2> SUFFICES ASSUME NEW k \in 0..NINDIRECT - 1
               PROVE  EntryIn(e, ind, k) = IF k = n THEN c ELSE EntryIn(d, ind, k)
    OBVIOUS
  <2>1. k \in 0..BSIZE - 1
    OBVIOUS
  <2>2. CASE k = n
    <3>1. e[ind][k] = <<c>>
      BY <1>4, <2>1, <2>2
    <3> QED
      BY <2>2, <3>1 DEF EntryIn
  <2>3. CASE k # n
    <3>1. e[ind][k] = d[ind][k]
      BY <1>4, <2>1, <2>3
    <3> QED
      BY <2>3, <3>1 DEF EntryIn
  <2> QED
    BY <2>2, <2>3
<1>6. ASSUME NEW k \in Slots
      PROVE  SlotIn(e, ip, k) = IF k = NDIRECT + 1 + n THEN c ELSE SlotIn(d, ip, k)
  <2>1. CASE k <= NDIRECT
    BY <2>1 DEF SlotIn, Slots
  <2>2. CASE ~(k <= NDIRECT)
    <3>1. /\ k - NDIRECT - 1 \in 0..NINDIRECT - 1
          /\ k - NDIRECT - 1 = n <=> k = NDIRECT + 1 + n
      BY <2>2 DEF Slots
    <3>2. /\ SlotIn(e, ip, k) = EntryIn(e, ind, k - NDIRECT - 1)
          /\ SlotIn(d, ip, k) = EntryIn(d, ind, k - NDIRECT - 1)
      BY <1>1, <2>2 DEF SlotIn
    <3> QED
      BY <1>5, <3>1, <3>2
  <2> QED
    BY <2>1, <2>2
<1>7. ASSUME NEW bn \in 0..MAXFILE - 1
      PROVE  MapIn(e, ip, bn) = IF bn = NDIRECT + n THEN c ELSE MapIn(d, ip, bn)
  <2>1. CASE bn < NDIRECT
    BY <2>1 DEF MapIn, MAXFILE
  <2>2. CASE ~(bn < NDIRECT)
    <3>1. /\ bn - NDIRECT \in 0..NINDIRECT - 1
          /\ bn - NDIRECT = n <=> bn = NDIRECT + n
      BY <2>2 DEF MAXFILE
    <3>2. /\ MapIn(e, ip, bn) = EntryIn(e, ind, bn - NDIRECT)
          /\ MapIn(d, ip, bn) = EntryIn(d, ind, bn - NDIRECT)
      BY <1>1, <2>2 DEF MapIn
    <3> QED
      BY <1>5, <3>1, <3>2
  <2> QED
    BY <2>1, <2>2
<1>8. MapIn(d, ip, NDIRECT + n) = 0
  <2>1. ~(NDIRECT + n < NDIRECT) /\ NDIRECT + n - NDIRECT = n
    OBVIOUS
  <2> QED
    BY <1>1, <2>1 DEF MapIn
<1> QED
  BY <1>6, <1>7, <1>8

\* One more place with an address of its own.
LEMMA AddPlace ==
  ASSUME NEW B, NEW d, NEW e, NEW V, NEW W, NEW i \in Inums, NEW s \in Slots, NEW c,
         c \in Blocks => c \in B /\ Unused(c, d, V),
         \A j \in Inums : \A k \in Slots :
           SlotIn(e, W[j], k) = IF j = i /\ k = s THEN c ELSE SlotIn(d, V[j], k),
         Covered(B, d, V), Apart(d, V)
  PROVE  Covered(B, e, W) /\ Apart(e, W)
<1>1. Covered(B, e, W)
  BY DEF Covered
<1>2. Apart(e, W)
  BY DEF Apart, Unused
<1> QED
  BY <1>1, <1>2

\* The blocks with the cells of files are no indirect blocks, and no two files
\* have one in common.
LEMMA DataBlock ==
  ASSUME NEW d, NEW V, Apart(d, V), NEW i \in Inums, NEW bn \in 0..MAXFILE - 1,
         MapIn(d, V[i], bn) \in Blocks
  PROVE  /\ \A j \in Inums : V[j].addrs[NDIRECT] # MapIn(d, V[i], bn)
         /\ \A j \in Inums : \A m \in 0..MAXFILE - 1 :
              MapIn(d, V[j], m) = MapIn(d, V[i], bn) => j = i /\ m = bn
<1>1. SlotNo(bn) \in Slots /\ MapIn(d, V[i], bn) = SlotIn(d, V[i], SlotNo(bn)) /\ SlotNo(bn) # NDIRECT
  BY MapSlot
<1>2. ASSUME NEW j \in Inums PROVE V[j].addrs[NDIRECT] # MapIn(d, V[i], bn)
  <2>1. NDIRECT \in Slots /\ SlotIn(d, V[j], NDIRECT) = V[j].addrs[NDIRECT]
    BY FsAssumption DEF Slots, SlotIn
  <2> QED
    BY <1>1, <2>1 DEF Apart
<1>3. ASSUME NEW j \in Inums, NEW m \in 0..MAXFILE - 1, MapIn(d, V[j], m) = MapIn(d, V[i], bn)
      PROVE  j = i /\ m = bn
  <2>1. SlotNo(m) \in Slots /\ MapIn(d, V[j], m) = SlotIn(d, V[j], SlotNo(m))
    BY <1>3, MapSlot
  <2>2. j = i /\ SlotNo(m) = SlotNo(bn)
    BY <1>1, <1>3, <2>1 DEF Apart
  <2> QED
    BY <2>2, MapSlot
<1> QED
  BY <1>2, <1>3

\* A block in no slot is neither an indirect block nor one of a file.
LEMMA UnusedBlock ==
  ASSUME NEW d, NEW V, NEW b \in Blocks, Unused(b, d, V), NEW i \in Inums
  PROVE  /\ V[i].addrs[NDIRECT] # b
         /\ \A bn \in 0..MAXFILE - 1 : MapIn(d, V[i], bn) # b
<1>1. NDIRECT \in Slots /\ SlotIn(d, V[i], NDIRECT) = V[i].addrs[NDIRECT]
  BY FsAssumption DEF Slots, SlotIn
<1>2. ASSUME NEW bn \in 0..MAXFILE - 1 PROVE MapIn(d, V[i], bn) # b
  BY MapSlot DEF Unused
<1> QED
  BY <1>1, <1>2 DEF Unused

-----------------------------------------------------------------------------
(***************************************************************************)
(* The model's operators in terms of the ones above.                       *)
(***************************************************************************)

LEMMA Reading ==
  /\ \A ip, bn : bmap(ip, bn) = MapIn(data, ip, bn)
  /\ \A ip, off : CellAt(ip, off) = CellIn(data, ip, off)
  /\ Missing = Lacks
  /\ \A p : Named(p) = SlotIn(data, dinode[p[1]], p[2])
<1>1. \A ip, bn : bmap(ip, bn) = MapIn(data, ip, bn)
  BY DEF bmap, MapIn, Entry, EntryIn
<1>2. \A ip, off : CellAt(ip, off) = CellIn(data, ip, off)
  BY <1>1 DEF CellAt, CellIn
<1>3. Missing = Lacks
  BY DEF Missing, Lacks, LacksIn, Entry, EntryIn, Ip, Bn
<1>4. \A p : Named(p) = SlotIn(data, dinode[p[1]], p[2])
  BY DEF Named, SlotIn, Entry, EntryIn
<1> QED
  BY <1>1, <1>2, <1>3, <1>4

\* What a missing slot means for bmap.
LEMMA LacksMeans ==
  ASSUME NEW d \in Data, NEW ip \in Inode, NEW bn \in 0..MAXFILE - 1
  PROVE  /\ LacksIn(d, ip, bn) \in {"none", "garbage"} => MapIn(d, ip, bn) # 0
         /\ LacksIn(d, ip, bn) = "direct" => bn < NDIRECT /\ bn \in 0..NDIRECT /\ ip.addrs[bn] = 0
         /\ LacksIn(d, ip, bn) = "indirect" => ip.addrs[NDIRECT] = 0
         /\ LacksIn(d, ip, bn) \in {"direct", "indirect"} => MapIn(d, ip, bn) = 0
         /\ LacksIn(d, ip, bn) = "entry" =>
              /\ bn - NDIRECT \in 0..NINDIRECT - 1
              /\ ip.addrs[NDIRECT] \in Blocks
              /\ EntryIn(d, ip.addrs[NDIRECT], bn - NDIRECT) = 0
<1> USE FsAssumption
<1>1. ip.addrs \in [0..NDIRECT -> Addrs] /\ 0 \notin Blocks /\ NoSpace \notin Blocks
  BY DEF Inode, Blocks, NoSpace
<1>2. CASE bn < NDIRECT
  BY <1>2 DEF LacksIn, MapIn, MAXFILE
<1>3. CASE ~(bn < NDIRECT)
  <2>1. bn - NDIRECT \in 0..NINDIRECT - 1 /\ ip.addrs[NDIRECT] \in Addrs
    BY <1>1, <1>3 DEF MAXFILE
  <2>2. CASE ip.addrs[NDIRECT] \in {0, NoSpace}
    BY <1>1, <1>3, <2>2 DEF LacksIn, MapIn, NoSpace
  <2>3. CASE ip.addrs[NDIRECT] \in Blocks /\ ip.addrs[NDIRECT] \notin {0, NoSpace}
    BY <1>3, <2>1, <2>3 DEF LacksIn, MapIn
  <2> QED
    BY <2>1, <2>2, <2>3 DEF Addrs
<1> QED
  BY <1>2, <1>3

\* The blocks of the disk's inode are those of its copy.
LEMMA DiskSlots ==
  ASSUME NEW d, NEW ip \in Inode, NEW dp \in Inode, Ahead(ip, dp)
  PROVE  /\ \A k \in Slots : SlotIn(d, dp, k) \in Blocks => SlotIn(d, ip, k) = SlotIn(d, dp, k)
         /\ \A bn \in 0..MAXFILE - 1 : MapIn(d, dp, bn) # 0 => MapIn(d, ip, bn) = MapIn(d, dp, bn)
         /\ \A b \in Blocks : dp.addrs[NDIRECT] = b => ip.addrs[NDIRECT] = b
<1> USE FsAssumption
<1>1. 0 \notin Blocks /\ NDIRECT \in 0..NDIRECT
  BY DEF Blocks
<1>2. \A k \in 0..NDIRECT : dp.addrs[k] # 0 => ip.addrs[k] = dp.addrs[k]
  BY DEF Ahead
<1>3. ASSUME NEW k \in Slots, SlotIn(d, dp, k) \in Blocks
      PROVE  SlotIn(d, ip, k) = SlotIn(d, dp, k)
  <2>1. CASE k <= NDIRECT
    BY <1>1, <1>2, <1>3, <2>1 DEF SlotIn, Slots
  <2>2. CASE ~(k <= NDIRECT)
    BY <1>1, <1>2, <1>3, <2>2 DEF SlotIn
  <2> QED
    BY <2>1, <2>2
<1>4. ASSUME NEW bn \in 0..MAXFILE - 1, MapIn(d, dp, bn) # 0
      PROVE  MapIn(d, ip, bn) = MapIn(d, dp, bn)
  <2>1. CASE bn < NDIRECT
    BY <1>2, <1>4, <2>1 DEF MapIn, MAXFILE
  <2>2. CASE ~(bn < NDIRECT)
    BY <1>1, <1>2, <1>4, <2>2 DEF MapIn
  <2> QED
    BY <2>1, <2>2
<1> QED
  BY <1>1, <1>2, <1>3, <1>4

\* The views, and how they relate to the disk.
LEMMA ViewFacts ==
  ASSUME TypeInv, CopyInv
  PROVE  /\ Views \in [Inums -> Inode]
         /\ \A i \in Inums : Views[i] = ilock(i) /\ Ahead(Views[i], dinode[i])
         /\ \A i \in Inums : mem[i] # None => Views[i] = mem[i]
         /\ \A i \in Inums : mem[i] = None => Views[i] = dinode[i]
         /\ \A i \in Inums : dinode[i] \in Inode /\ Views[i] \in Inode /\ (mem[i] # None => mem[i] \in Inode)
<1>1. \A i \in Inums : dinode[i] \in Inode /\ (mem[i] # None => mem[i] \in Inode)
  BY DEF TypeInv
<1>2. \A i \in Inums : ilock(i) \in Inode
  BY <1>1 DEF ilock
<1>3. Views \in [Inums -> Inode] /\ \A i \in Inums : Views[i] = ilock(i)
  BY <1>2 DEF Views
<1>4. \A i \in Inums : Ahead(ilock(i), dinode[i])
  BY DEF CopyInv, ilock, Ahead
<1> QED
  BY <1>1, <1>2, <1>3, <1>4 DEF ilock

\* What holds of the views holds of the disk.
LEMMA DiskBlocks ==
  ASSUME TypeInv, CopyInv, BlockInv
  PROVE  Covered(bitmap, data, dinode) /\ Apart(data, dinode)
<1>1. \A i \in Inums : Views[i] \in Inode /\ dinode[i] \in Inode /\ Ahead(Views[i], dinode[i])
  BY ViewFacts
<1>2. \A i \in Inums : \A k \in Slots : SlotIn(data, dinode[i], k) \in Blocks =>
        SlotIn(data, Views[i], k) = SlotIn(data, dinode[i], k)
  BY <1>1, DiskSlots
<1>3. Covered(bitmap, data, dinode)
  BY <1>2 DEF BlockInv, Covered
<1>4. Apart(data, dinode)
  BY <1>2 DEF BlockInv, Apart
<1> QED
  BY <1>3, <1>4

\* The block of a cell within a size.
LEMMA SizeBlock ==
  ASSUME NEW n \in 0..MAXFILE * BSIZE, NEW off \in 0..n - 1
  PROVE  /\ off \in Nat /\ off \div BSIZE \in 0..MAXFILE - 1 /\ off % BSIZE \in 0..BSIZE - 1
<1>1. MAXFILE * BSIZE \in Nat
  BY FsAssumption DEF MAXFILE
<1>2. off \in Nat /\ off < MAXFILE * BSIZE
  BY <1>1
<1> QED
  BY <1>2, BlockNumber, DivMod

\* The addresses that ip has stay when the blocks d become e and ip becomes jp.
Kept(d, e, ip, jp) ==
  \A bn \in 0..MAXFILE - 1 : MapIn(d, ip, bn) # 0 => MapIn(e, jp, bn) = MapIn(d, ip, bn)

LEMMA FilledLess ==
  ASSUME NEW d, NEW ip, NEW n \in Nat, NEW m \in Nat, m <= n, Filled(d, ip, n)
  PROVE  Filled(d, ip, m)
<1>1. 0..m - 1 \subseteq 0..n - 1
  OBVIOUS
<1> QED
  BY <1>1 DEF Filled

LEMMA FilledKept ==
  ASSUME NEW d, NEW e, NEW ip, NEW jp, Kept(d, e, ip, jp),
         NEW n \in 0..MAXFILE * BSIZE, Filled(d, ip, n)
  PROVE  Filled(e, jp, n)
<1> SUFFICES ASSUME NEW off \in 0..n - 1 PROVE MapIn(e, jp, off \div BSIZE) # 0
  BY DEF Filled
<1>1. off \div BSIZE \in 0..MAXFILE - 1
  BY SizeBlock
<1>2. MapIn(d, ip, off \div BSIZE) # 0
  BY DEF Filled
<1> QED
  BY <1>1, <1>2 DEF Kept

-----------------------------------------------------------------------------
(***************************************************************************)
(* The root directory.                                                     *)
(***************************************************************************)

LEMMA RootFacts ==
  ASSUME TypeInv, CopyInv, HoleInv, RootInv
  PROVE  /\ ROOTINO \in Inums /\ dinode[ROOTINO] \in Inode /\ 1 \in Blocks /\ 0 \in 0..MAXFILE - 1
         /\ dinode[ROOTINO].size \in 0..MAXFILE * BSIZE
         /\ MapIn(data, Views[ROOTINO], 0) = 1
         /\ 0 \in RootOffs /\ RootCell(0) = <<".", ROOTINO>>
         /\ \A x \in RootOffs :
              /\ x \in Nat /\ x \div BSIZE \in 0..MAXFILE - 1 /\ x % BSIZE \in 0..BSIZE - 1
              /\ MapIn(data, dinode[ROOTINO], x \div BSIZE) # 0
              /\ MapIn(data, Views[ROOTINO], x \div BSIZE) = MapIn(data, dinode[ROOTINO], x \div BSIZE)
              /\ RootCell(x) \in DirCell \cup {None}
<1> USE FsAssumption
<1>1. ROOTINO \in Inums /\ 1 \in Blocks /\ 0 \in 0..MAXFILE - 1 /\ 0 \in 0..NDIRECT /\ 0 < NDIRECT
  BY DEF ROOTINO, Inums, Blocks, MAXFILE
<1>2. /\ dinode[ROOTINO] \in Inode /\ Views[ROOTINO] \in Inode
      /\ Ahead(Views[ROOTINO], dinode[ROOTINO])
  BY <1>1, ViewFacts
<1>3. dinode[ROOTINO].size \in 0..MAXFILE * BSIZE
  BY <1>2 DEF Inode
<1>4. MapIn(data, Views[ROOTINO], 0) = 1 /\ MapIn(data, dinode[ROOTINO], 0) = 1
  BY <1>1, <1>2 DEF RootInv, Ahead, MapIn
<1>5. ASSUME NEW x \in RootOffs
      PROVE  /\ x \in Nat /\ x \div BSIZE \in 0..MAXFILE - 1 /\ x % BSIZE \in 0..BSIZE - 1
             /\ MapIn(data, dinode[ROOTINO], x \div BSIZE) # 0
             /\ MapIn(data, Views[ROOTINO], x \div BSIZE) = MapIn(data, dinode[ROOTINO], x \div BSIZE)
             /\ RootCell(x) \in DirCell \cup {None}
  <2>1. x \in Nat /\ x \div BSIZE \in 0..MAXFILE - 1 /\ x % BSIZE \in 0..BSIZE - 1
    BY <1>3, SizeBlock DEF RootOffs
  <2>2. MapIn(data, dinode[ROOTINO], x \div BSIZE) # 0
    BY <1>1 DEF HoleInv, Filled, RootOffs
  <2>3. MapIn(data, Views[ROOTINO], x \div BSIZE) = MapIn(data, dinode[ROOTINO], x \div BSIZE)
    BY <1>2, <2>1, <2>2, DiskSlots
  <2>4. RootCell(x) \in DirCell \cup {None}
    BY <2>1, <2>3 DEF RootCell, CellIn, RootInv
  <2> QED
    BY <2>1, <2>2, <2>3, <2>4
<1>6. 0 \in RootOffs
  BY <1>3 DEF RootInv, RootOffs, MAXFILE
<1>7. RootCell(0) = <<".", ROOTINO>>
  <2>1. 0 \div BSIZE = 0 /\ 0 % BSIZE = 0
    OBVIOUS
  <2> QED
    BY <1>1, <1>4, <2>1 DEF RootCell, CellIn, RootInv
<1> QED
  BY <1>1, <1>2, <1>3, <1>4, <1>5, <1>6, <1>7

\* A step that keeps the addresses, and the root directory's blocks but for
\* new ones that are zeroed.
LEMMA Grow ==
  ASSUME TypeInv, CopyInv, HoleInv, RootInv, dinode' = dinode,
         \A j \in Inums : /\ mem'[j] = None <=> mem[j] = None
                          /\ mem[j] # None => mem'[j].size = mem[j].size,
         \A j \in Inums : Kept(data, data', dinode[j], dinode[j]),
         \A j \in Inums : mem[j] # None => Kept(data, data', mem[j], mem'[j]),
         \A bn \in 0..MAXFILE - 1 : MapIn(data, Views[ROOTINO], bn) \in Blocks =>
           data'[MapIn(data, Views[ROOTINO], bn)] = data[MapIn(data, Views[ROOTINO], bn)],
         \A bn \in 0..MAXFILE - 1 :
           LET b == MapIn(data', Views'[ROOTINO], bn)
           IN b \in Blocks =>
                \/ MapIn(data, Views[ROOTINO], bn) = b
                \/ \A k \in 0..BSIZE - 1 : data'[b][k] = Nil
  PROVE  HoleInv' /\ RootInv' /\ \A x \in RootOffs : RootCell(x)' = RootCell(x)
<1>1. \A i \in Inums : /\ dinode[i] \in Inode /\ Views[i] \in Inode
                       /\ mem[i] # None => mem[i] \in Inode
  BY ViewFacts
<1>2. \A ip \in Inode : ip.size \in 0..MAXFILE * BSIZE
  BY DEF Inode
<1>3. HoleInv'
  <2>1. \A j \in Inums : Filled(data', dinode[j], dinode[j].size)
    BY <1>1, <1>2, FilledKept DEF HoleInv
  <2>2. ASSUME NEW j \in Inums, mem'[j] # None PROVE Filled(data', mem'[j], mem'[j].size)
    <3>1. mem[j] # None /\ mem'[j].size = mem[j].size /\ Kept(data, data', mem[j], mem'[j])
      BY <2>2
    <3>2. Filled(data, mem[j], mem[j].size) /\ mem[j].size \in 0..MAXFILE * BSIZE
      BY <1>1, <1>2, <3>1 DEF HoleInv
    <3>3. Filled(data', mem'[j], mem[j].size)
      BY <3>1, <3>2, FilledKept
    <3> QED
      BY <3>1, <3>3
  <2> QED
    BY <2>1, <2>2 DEF HoleInv
<1>4. RootInv'
  <2>1. /\ dinode'[ROOTINO].type = T_DIR /\ dinode'[ROOTINO].nlink = 1
        /\ dinode'[ROOTINO].addrs[0] = 1 /\ dinode'[ROOTINO].size > 0
    BY DEF RootInv
  <2>2. data'[1][0] = <<".", ROOTINO>>
    <3>1. MapIn(data, Views[ROOTINO], 0) = 1 /\ 1 \in Blocks /\ 0 \in 0..MAXFILE - 1
      BY RootFacts
    <3>2. data'[1] = data[1]
      BY <3>1
    <3> QED
      BY <3>2 DEF RootInv
  <2>3. ASSUME NEW bn \in 0..MAXFILE - 1, NEW k \in 0..BSIZE - 1,
               MapIn(data', Views'[ROOTINO], bn) \in Blocks
        PROVE  data'[MapIn(data', Views'[ROOTINO], bn)][k] \in DirCell
    <3> DEFINE b == MapIn(data', Views'[ROOTINO], bn)
    <3>1. CASE MapIn(data, Views[ROOTINO], bn) = b
      <4>1. data'[b] = data[b]
        BY <2>3, <3>1
      <4>2. data[b][k] \in DirCell
        BY <2>3, <3>1 DEF RootInv
      <4> QED
        BY <4>1, <4>2
    <3>2. CASE \A n \in 0..BSIZE - 1 : data'[b][n] = Nil
      BY <3>2 DEF DirCell
    <3> QED
      BY <2>3, <3>1, <3>2
  <2> QED
    BY <2>1, <2>2, <2>3 DEF RootInv
<1>5. ASSUME NEW x \in RootOffs PROVE RootCell(x)' = RootCell(x)
  <2> DEFINE bn == x \div BSIZE
  <2>1. /\ ROOTINO \in Inums /\ bn \in 0..MAXFILE - 1
        /\ MapIn(data, dinode[ROOTINO], bn) # 0
        /\ MapIn(data, Views[ROOTINO], bn) = MapIn(data, dinode[ROOTINO], bn)
    BY RootFacts
  <2>2. MapIn(data', dinode[ROOTINO], bn) = MapIn(data, dinode[ROOTINO], bn)
    BY <2>1 DEF Kept
  <2>3. MapIn(data, dinode[ROOTINO], bn) \in Blocks =>
          data'[MapIn(data, dinode[ROOTINO], bn)] = data[MapIn(data, dinode[ROOTINO], bn)]
    BY <2>1
  <2>4. CellIn(data', dinode[ROOTINO], x) = CellIn(data, dinode[ROOTINO], x)
    BY <2>2, <2>3 DEF CellIn
  <2> QED
    BY <2>4 DEF RootCell
<1> QED
  BY <1>3, <1>4, <1>5

\* The entries stay valid while neither their cells nor their inodes change.
LEMMA SameEntries ==
  ASSUME EntryInv, dinode'[ROOTINO].size = dinode[ROOTINO].size,
         \A x \in RootOffs : RootCell(x)' = RootCell(x),
         \A x \in RootOffs : RootCell(x) \in FileEntry =>
           /\ dinode'[RootCell(x)[2]].type = dinode[RootCell(x)[2]].type
           /\ dinode'[RootCell(x)[2]].nlink = dinode[RootCell(x)[2]].nlink
  PROVE  /\ EntryInv'
         /\ \A e : Fresh(e) /\ dinode'[e[2]].type = dinode[e[2]].type => Fresh(e)'
<1>1. RootOffs' = RootOffs
  BY DEF RootOffs
<1>2. EntryInv'
  BY <1>1 DEF EntryInv
<1>3. \A e : Fresh(e) /\ dinode'[e[2]].type = dinode[e[2]].type => Fresh(e)'
  BY <1>1 DEF Fresh
<1> QED
  BY <1>2, <1>3

-----------------------------------------------------------------------------
(***************************************************************************)
(* The image.                                                              *)
(***************************************************************************)

LEMMA NewInodeFacts ==
  ASSUME NEW t \in {T_NONE, T_DIR, T_FILE, T_DEV}, NEW n \in 0..1
  PROVE  /\ NewInode(t, n) \in Inode
         /\ NewInode(t, n).type = t /\ NewInode(t, n).nlink = n /\ NewInode(t, n).size = 0
         /\ \A k \in 0..NDIRECT : NewInode(t, n).addrs[k] = 0
         /\ \A d : \A k \in Slots : SlotIn(d, NewInode(t, n), k) = 0
<1>1. 0 \in 0..MAXFILE * BSIZE /\ 0 \in Addrs /\ NDIRECT \in 0..NDIRECT /\ 0 \notin Blocks
  BY FsAssumption DEF MAXFILE, Addrs, Blocks
<1>2. NewInode(t, n) \in Inode
  BY <1>1 DEF NewInode, Inode
<1>3. \A k \in 0..NDIRECT : NewInode(t, n).addrs[k] = 0
  BY DEF NewInode
<1>4. ASSUME NEW d, NEW k \in Slots PROVE SlotIn(d, NewInode(t, n), k) = 0
  <2>1. k <= NDIRECT => k \in 0..NDIRECT
    BY FsAssumption DEF Slots
  <2> QED
    BY <1>1, <1>3, <2>1 DEF SlotIn
<1> QED
  BY <1>2, <1>3, <1>4 DEF NewInode

LEMMA InitInv ==
  ASSUME Init
  PROVE  IInv
<1> USE FsAssumption
<1> DEFINE root == dinode[ROOTINO]
<1>1. ROOTINO \in Inums /\ 1 \in Blocks /\ 0 \notin Blocks /\ 0 \in 0..NDIRECT /\ 0 < NDIRECT /\ NDIRECT \in 0..NDIRECT
  BY DEF ROOTINO, Inums, Blocks
<1>2. BSIZE \in 0..MAXFILE * BSIZE
  <2>1. MAXFILE \in Nat /\ MAXFILE >= 1 /\ BSIZE \in Nat
    BY DEF MAXFILE
  <2> QED
    BY <2>1
<1>3. ASSUME NEW i \in Inums, i # ROOTINO PROVE dinode[i] = NewInode(T_NONE, 0)
  BY <1>3 DEF Init, ImageInodes
<1>4. /\ root \in Inode /\ root.type = T_DIR /\ root.nlink = 1 /\ root.size = BSIZE
      /\ \A k \in 0..NDIRECT : root.addrs[k] = IF k = 0 THEN 1 ELSE 0
  <2>1. root = [NewInode(T_DIR, 1) EXCEPT !.size = BSIZE, !.addrs[0] = 1]
    BY <1>1 DEF Init, ImageInodes
  <2>2. root = [type |-> T_DIR, nlink |-> 1, size |-> BSIZE,
                addrs |-> [[k \in 0..NDIRECT |-> 0] EXCEPT ![0] = 1]]
    BY <2>1 DEF NewInode
  <2>3. [[k \in 0..NDIRECT |-> 0] EXCEPT ![0] = 1] \in [0..NDIRECT -> Addrs]
    BY <1>1 DEF Addrs
  <2> QED
    BY <1>1, <1>2, <2>2, <2>3 DEF Inode
<1>5. \A i \in Inums : dinode[i] \in Inode
  BY <1>3, <1>4, NewInodeFacts
<1>6. dinode \in [Inums -> Inode]
  BY <1>5 DEF Init, ImageInodes
<1>7. data \in Data /\ \A b \in Blocks : \A k \in 0..BSIZE - 1 :
        data[b][k] = IF b = 1 /\ k < RootEntries THEN <<".", ROOTINO>> ELSE Nil
  BY CellKinds DEF Init, ImageData, Data
<1>8. Views = dinode /\ \A i \in Inums : mem[i] = None
  <2>1. \A i \in Inums : mem[i] = None /\ ilock(i) = dinode[i]
    BY DEF Init, ilock
  <2> QED
    BY <1>6, <2>1 DEF Views
<1>9. TypeInv
  BY <1>1, <1>6, <1>7, <1>8 DEF TypeInv, Init, Writing, ImageBitmap
<1>10. \A i \in Inums : \A k \in Slots : SlotIn(data, dinode[i], k) = IF i = ROOTINO /\ k = 0 THEN 1 ELSE 0
  <2> SUFFICES ASSUME NEW i \in Inums, NEW k \in Slots
               PROVE  SlotIn(data, dinode[i], k) = IF i = ROOTINO /\ k = 0 THEN 1 ELSE 0
    OBVIOUS
  <2>1. CASE i # ROOTINO
    BY <1>3, <2>1, NewInodeFacts
  <2>2. CASE i = ROOTINO /\ k <= NDIRECT
    BY <1>4, <2>2 DEF SlotIn, Slots
  <2>3. CASE i = ROOTINO /\ ~(k <= NDIRECT)
    BY <1>1, <1>4, <2>3 DEF SlotIn, Slots
  <2> QED
    BY <2>1, <2>2, <2>3
<1>11. BlockInv
  BY <1>1, <1>8, <1>10 DEF BlockInv, Covered, Apart, Init, ImageBitmap
<1>12. CopyInv
  BY <1>3, <1>4, <1>8, NewInodeFacts DEF CopyInv, T_NONE, T_DIR
<1>13. \A x \in 0..BSIZE - 1 : x \div BSIZE = 0 /\ x % BSIZE = x
  OBVIOUS
<1>14. MapIn(data, root, 0) = 1 /\ \A bn \in 0..MAXFILE - 1 : bn # 0 => MapIn(data, root, bn) = 0
  BY <1>1, <1>4 DEF MapIn, MAXFILE
<1>15. HoleInv
  <2>1. ASSUME NEW i \in Inums PROVE Filled(data, dinode[i], dinode[i].size)
    <3>1. CASE i = ROOTINO
      BY <1>4, <1>13, <1>14, <3>1 DEF Filled
    <3>2. CASE i # ROOTINO
      BY <1>3, <3>2, NewInodeFacts DEF Filled
    <3> QED
      BY <3>1, <3>2
  <2> QED
    BY <1>8, <2>1 DEF HoleInv
<1>16. WriteInv /\ CreateInv
  BY DEF WriteInv, CreateInv, Writing, Init
<1>17. RootInv
  <2>1. \A bn \in 0..MAXFILE - 1 : \A k \in 0..BSIZE - 1 :
          MapIn(data, root, bn) \in Blocks => data[MapIn(data, root, bn)][k] \in DirCell
    BY <1>1, <1>7, <1>14 DEF DirCell
  <2>2. data[1][0] = <<".", ROOTINO>>
    BY <1>1, <1>7
  <2> QED
    BY <1>1, <1>4, <1>8, <2>1, <2>2 DEF RootInv
<1>18. EntryInv
  <2>1. ASSUME NEW x \in RootOffs
        PROVE  RootCell(x) = IF x < RootEntries THEN <<".", ROOTINO>> ELSE Nil
    <3>1. x \in 0..BSIZE - 1
      BY <1>4 DEF RootOffs
    <3> QED
      BY <1>1, <1>7, <1>13, <1>14, <3>1 DEF RootCell, CellIn
  <2>2. \A x \in RootOffs : RootCell(x) \notin FileEntry
    BY <2>1, CellKinds
  <2> QED
    BY <2>1, <2>2, CellKinds DEF EntryInv
<1> QED
  BY <1>9, <1>11, <1>12, <1>15, <1>16, <1>17, <1>18 DEF IInv

-----------------------------------------------------------------------------
(***************************************************************************)
(* Steps that leave the data blocks and the inodes on the disk alone.      *)
(***************************************************************************)

LEMMA SameDisk ==
  ASSUME RootInv, EntryInv, UNCHANGED <<data, dinode>>, Views' = Views
  PROVE  /\ RootInv' /\ EntryInv' /\ RootOffs' = RootOffs
         /\ \A x : RootCell(x)' = RootCell(x)
         /\ \A e : Fresh(e) => Fresh(e)'
<1>1. RootOffs' = RootOffs /\ \A x : RootCell(x)' = RootCell(x)
  BY DEF RootOffs, RootCell
<1>2. RootInv'
  BY DEF RootInv
<1>3. EntryInv' /\ \A e : Fresh(e) => Fresh(e)'
  BY <1>1, SameEntries
<1> QED
  BY <1>1, <1>2, <1>3

\* ilock brings a copy of the inode into memory.
LEMMA LoadCopy ==
  ASSUME TypeInv, CopyInv, NEW i \in Inums, mem' = [mem EXCEPT ![i] = ilock(i)]
  PROVE  /\ mem' \in [Inums -> {None} \cup Inode]
         /\ \A j \in Inums : mem'[j] = IF j = i THEN ilock(i) ELSE mem[j]
         /\ ilock(i) \in Inode /\ ilock(i) # None /\ Views[i] = ilock(i)
         /\ dinode' = dinode => Views' = Views
<1>1. ilock(i) \in Inode /\ ilock(i) # None /\ Views[i] = ilock(i)
  BY ViewFacts, NoneAssumption
<1>2. /\ mem' \in [Inums -> {None} \cup Inode]
      /\ \A j \in Inums : mem'[j] = IF j = i THEN ilock(i) ELSE mem[j]
  BY <1>1 DEF TypeInv
<1>3. ASSUME dinode' = dinode PROVE Views' = Views
  BY <1>1, <1>2, <1>3 DEF Views, ilock
<1> QED
  BY <1>1, <1>2, <1>3

\* An entry that dirlookup finds is one of the cells.
LEMMA EntryOf ==
  ASSUME TypeInv, CopyInv, HoleInv, RootInv
  PROVE  /\ \A e \in Entries(dinode[ROOTINO]) :
              e \notin {Nil, None} /\ \E x \in RootOffs : e = RootCell(x)
         /\ \A x \in RootOffs : RootCell(x) \notin {Nil, None} => RootCell(x) \in Entries(dinode[ROOTINO])
<1> DEFINE dp == dinode[ROOTINO]
<1>1. dp.size \in Nat
  BY RootFacts, FsAssumption DEF MAXFILE
<1>2. DOMAIN Content(dp) = 1..dp.size
  BY DEF Content
<1>3. \A k \in 1..dp.size : Content(dp)[k] = RootCell(k - 1)
  BY Reading DEF Content, RootCell
<1>4. ASSUME NEW e \in Entries(dp) PROVE e \notin {Nil, None} /\ \E x \in RootOffs : e = RootCell(x)
  <2>1. PICK k \in 1..dp.size : e = Content(dp)[k] /\ e \notin {Nil, None}
    BY <1>2 DEF Entries
  <2>2. k - 1 \in RootOffs
    BY <1>1 DEF RootOffs
  <2> QED
    BY <1>3, <2>1, <2>2
<1>5. ASSUME NEW x \in RootOffs, RootCell(x) \notin {Nil, None} PROVE RootCell(x) \in Entries(dp)
  <2>1. x + 1 \in 1..dp.size /\ (x + 1) - 1 = x
    BY <1>1 DEF RootOffs
  <2>2. RootCell(x) = Content(dp)[x + 1]
    BY <1>3, <2>1
  <2> QED
    BY <1>2, <1>5, <2>1, <2>2 DEF Entries
<1> QED
  BY <1>4, <1>5

LEMMA StutterStep ==
  ASSUME IInv, UNCHANGED vars
  PROVE  IInv'
<1>1. Views' = Views
  BY DEF Views, ilock, vars
<1>2. RootInv' /\ EntryInv' /\ RootOffs' = RootOffs /\ (\A x : RootCell(x)' = RootCell(x))
      /\ \A e : Fresh(e) => Fresh(e)'
  BY <1>1, SameDisk DEF IInv, vars
<1>3. TypeInv' /\ BlockInv' /\ CopyInv' /\ HoleInv'
  BY <1>1 DEF IInv, TypeInv, BlockInv, CopyInv, HoleInv, Writing, vars
<1>4. WriteInv'
  BY <1>1 DEF IInv, WriteInv, Writing, Lacks, vars
<1>5. CreateInv'
  BY <1>2 DEF IInv, CreateInv, Writing, vars
<1> QED
  BY <1>2, <1>3, <1>4, <1>5 DEF IInv

LEMMA WriteiStep ==
  ASSUME IInv, NEW i \in Inums, NEW off \in 0..MAXFILE * BSIZE, NEW n \in 1..MaxChunk,
         NEW cells \in [1..n -> {"byte"} \X Bytes], writei(i, off, cells)
  PROVE  IInv'
<1> USE FsAssumption
<1> USE DEF IInv
<1>1. /\ pc = "idle" /\ mem' = [mem EXCEPT ![i] = ilock(i)] /\ pc' = "write"
      /\ op' = Write(i, off, cells) /\ UNCHANGED <<bitmap, dinode, data, crashes>>
      /\ ilock(i).type = T_FILE /\ off <= ilock(i).size
      /\ off + Len(cells) <= MAXFILE * BSIZE
  BY DEF writei, Running, disk
<1>2. n \in Nat /\ n >= 1
  OBVIOUS
<1>3. cells \in Seq(Cell) /\ Len(cells) = n
  <2>1. \A k \in 1..n : cells[k] \in Cell
    BY DEF Cell
  <2>2. cells \in [1..n -> Cell]
    BY <2>1
  <2> QED
    BY <1>2, <2>2, SeqDef, LenProperties
<1>4. /\ op' \in Request /\ op'.ino = i /\ op'.off = off /\ op'.cells = cells /\ op'.tot = 0
  <2>1. off \in Nat
    BY DEF MAXFILE
  <2> QED
    BY <1>1, <1>3, <2>1 DEF Write, Request
<1>5. /\ mem' \in [Inums -> {None} \cup Inode]
      /\ \A j \in Inums : mem'[j] = IF j = i THEN ilock(i) ELSE mem[j]
      /\ ilock(i) \in Inode /\ ilock(i) # None /\ Views' = Views
  BY <1>1, LoadCopy
<1>6. ilock(i) = dinode[i]
  BY <1>1 DEF CopyInv, ilock, Writing
<1>7. i # ROOTINO
  BY <1>1, <1>6 DEF RootInv, T_DIR, T_FILE
<1>8. dinode[i].nlink = 1
  <2>1. ilock(ROOTINO) = dinode[ROOTINO]
    BY <1>1, RootFacts DEF CopyInv, ilock, Writing
  <2>2. PICK e \in Entries(dinode[ROOTINO]) : e[2] = i
    BY <2>1 DEF writei
  <2>3. PICK x \in RootOffs : e = RootCell(x) /\ e \notin {Nil, None}
    BY EntryOf
  <2>4. RootCell(x) \in DirCell \cup {None}
    BY RootFacts
  <2>5. e # <<".", ROOTINO>>
    BY <1>7, <2>2
  <2>6. RootCell(x) \in FileEntry
    BY <2>3, <2>4, <2>5 DEF DirCell
  <2> QED
    BY <2>2, <2>3, <2>6 DEF EntryInv
<1>9. RootInv' /\ EntryInv'
  BY <1>1, <1>5, SameDisk
<1>10. TypeInv'
  BY <1>1, <1>4, <1>5 DEF TypeInv
<1>11. BlockInv'
  BY <1>1, <1>5 DEF BlockInv
<1>12. CopyInv'
  <2>1. Ahead(dinode[i], dinode[i])
    BY DEF Ahead
  <2> QED
    BY <1>1, <1>5, <1>6, <1>8, <2>1 DEF CopyInv, Writing
<1>13. HoleInv'
  BY <1>1, <1>5, <1>6 DEF HoleInv
<1>14. WriteInv'
  <2>1. ilock(i).size \in 0..MAXFILE * BSIZE /\ MAXFILE * BSIZE \in Nat
    BY <1>5 DEF Inode, MAXFILE
  <2>2. Filled(data, ilock(i), off + 0)
    <3>1. Filled(data, ilock(i), ilock(i).size)
      BY <1>6 DEF HoleInv
    <3>2. off + 0 \in Nat /\ ilock(i).size \in Nat /\ off + 0 <= ilock(i).size
      BY <1>1, <2>1
    <3> QED
      BY <3>1, <3>2, FilledLess
  <2>3. mem'[i] = ilock(i)
    BY <1>5
  <2>4. mem'[op'.ino] = ilock(i) /\ dinode'[op'.ino] = ilock(i) /\ op'.tot < Len(op'.cells)
    BY <1>1, <1>2, <1>3, <1>4, <1>6, <2>3
  <2> QED
    BY <1>1, <1>4, <1>5, <2>2, <2>4 DEF WriteInv, Writing
<1>15. CreateInv'
  BY <1>1, <1>4, <1>7 DEF CreateInv
<1> QED
  BY <1>9, <1>10, <1>11, <1>12, <1>13, <1>14, <1>15

LEMMA IputStep ==
  ASSUME IInv, NEW i \in Inums, iput(i)
  PROVE  IInv'
<1> USE DEF IInv
<1>1. /\ pc = "idle" /\ mem[i] # None /\ mem' = [mem EXCEPT ![i] = None]
      /\ UNCHANGED <<bitmap, dinode, data, pc, op, crashes>>
  BY DEF iput, Running, disk
<1>2. /\ mem' \in [Inums -> {None} \cup Inode]
      /\ \A j \in Inums : mem'[j] = IF j = i THEN None ELSE mem[j]
  BY <1>1 DEF TypeInv
<1>3. mem[i] = dinode[i]
  BY <1>1 DEF CopyInv, Writing
<1>4. Views' = Views
  BY <1>1, <1>2, <1>3 DEF Views, ilock
<1>5. RootInv' /\ EntryInv'
  BY <1>1, <1>4, SameDisk
<1>6. TypeInv' /\ BlockInv'
  BY <1>1, <1>2, <1>4 DEF TypeInv, BlockInv, Writing
<1>7. CopyInv' /\ HoleInv'
  BY <1>1, <1>2 DEF CopyInv, HoleInv, Writing
<1>8. WriteInv' /\ CreateInv'
  BY <1>1 DEF WriteInv, CreateInv, Writing
<1> QED
  BY <1>5, <1>6, <1>7, <1>8

\* A crash drops the copies: what is left is the disk.
LEMMA CrashStep ==
  ASSUME IInv, Crash
  PROVE  IInv'
<1> USE DEF IInv
<1>1. /\ mem' = [i \in Inums |-> None] /\ pc' = "idle" /\ crashes < MaxCrashes
      /\ crashes' = crashes + 1 /\ UNCHANGED <<bitmap, dinode, data>>
  BY DEF Crash, disk
<1>2. \A i \in Inums : mem'[i] = None
  BY <1>1
<1>3. Views' = dinode
  <2>1. Views' = [i \in Inums |-> dinode[i]]
    BY <1>1, <1>2 DEF Views, ilock
  <2> QED
    BY <2>1 DEF TypeInv
<1>4. TypeInv'
  <2>1. mem' \in [Inums -> {None} \cup Inode]
    BY <1>1
  <2> QED
    BY <1>1, <2>1, FsAssumption DEF TypeInv, Writing
<1>5. BlockInv'
  BY <1>1, <1>3, DiskBlocks DEF BlockInv
<1>6. CopyInv' /\ HoleInv' /\ WriteInv' /\ CreateInv'
  BY <1>1, <1>2 DEF CopyInv, HoleInv, WriteInv, CreateInv, Writing
<1>7. RootInv'
  <2>1. ASSUME NEW bn \in 0..MAXFILE - 1, NEW k \in 0..BSIZE - 1,
               MapIn(data, dinode[ROOTINO], bn) \in Blocks
        PROVE  data[MapIn(data, dinode[ROOTINO], bn)][k] \in DirCell
    <3>1. MapIn(data, dinode[ROOTINO], bn) # 0
      BY <2>1, FsAssumption DEF Blocks
    <3>2. MapIn(data, Views[ROOTINO], bn) = MapIn(data, dinode[ROOTINO], bn)
      BY <3>1, RootFacts, ViewFacts, DiskSlots
    <3> QED
      BY <2>1, <3>2 DEF RootInv
  <2> QED
    BY <1>1, <1>3, <2>1 DEF RootInv
<1>8. EntryInv'
  <2>1. \A x : RootCell(x)' = RootCell(x)
    BY <1>1 DEF RootCell
  <2> QED
    BY <1>1, <2>1, SameEntries
<1> QED
  BY <1>4, <1>5, <1>6, <1>7, <1>8

-----------------------------------------------------------------------------
(***************************************************************************)
(* bmap.                                                                   *)
(***************************************************************************)

\* A set of numbers has a least one.
LEMMA MinMember ==
  ASSUME NEW S, S \subseteq Nat, S # {}
  PROVE  Min(S) \in S /\ \A y \in S : Min(S) <= y
<1>1. PICK m \in S : \A y \in S : ~(<<y, m>> \in OpToRel(<, Nat))
  BY NatLessThanWellFounded, WFMin
<1>2. ASSUME NEW y \in S PROVE m <= y
  <2>1. m \in Nat /\ y \in Nat
    OBVIOUS
  <2>2. <<y, m>> \in Nat \X Nat /\ <<y, m>>[1] = y /\ <<y, m>>[2] = m
    BY <2>1
  <2>3. ~(y < m)
    BY <1>1, <2>2, Zenon DEF OpToRel
  <2> QED
    BY <2>1, <2>3
<1> QED
  BY <1>2 DEF Min

\* The writei that is at a block.
LEMMA AtBlock ==
  ASSUME IInv, pc \in {"write", "bzero", "entry"}
  PROVE  /\ op \in Request /\ op.ino \in Inums /\ mem[op.ino] \in Inode /\ Views[op.ino] = mem[op.ino]
         /\ op.tot < Len(op.cells) /\ Len(op.cells) \in Nat /\ op.off \in Nat /\ op.tot \in Nat
         /\ op.off + op.tot \in 0..MAXFILE * BSIZE
         /\ (op.off + op.tot) \div BSIZE \in 0..MAXFILE - 1
<1> USE DEF IInv
<1>1. op \in Request /\ mem[op.ino] # None /\ op.tot < Len(op.cells)
      /\ op.off + Len(op.cells) <= MAXFILE * BSIZE
  BY DEF TypeInv, WriteInv, Writing
<1>2. op.ino \in Inums /\ Len(op.cells) \in Nat /\ op.off \in Nat /\ op.tot \in Nat
  BY <1>1, LenProperties DEF Request
<1>3. mem[op.ino] \in Inode /\ Views[op.ino] = mem[op.ino]
  BY <1>1, <1>2, ViewFacts
<1>4. MAXFILE * BSIZE \in Nat
  BY FsAssumption DEF MAXFILE
<1>5. op.off + op.tot \in Nat /\ op.off + op.tot < MAXFILE * BSIZE
  BY <1>1, <1>2, <1>4
<1>6. (op.off + op.tot) \div BSIZE \in 0..MAXFILE - 1
  BY <1>5, BlockNumber
<1> QED
  BY <1>1, <1>2, <1>3, <1>4, <1>5, <1>6

\* The inode on the disk, and the copies, keep their addresses while the block
\* that is written is no indirect block.
LEMMA DiskKept ==
  ASSUME TypeInv, CopyInv, NEW b, \A c \in Blocks : c # b => data'[c] = data[c],
         \A j \in Inums : Views[j].addrs[NDIRECT] \in Blocks => Views[j].addrs[NDIRECT] # b
  PROVE  /\ \A j \in Inums : \A k \in Slots : SlotIn(data', Views[j], k) = SlotIn(data, Views[j], k)
         /\ \A j \in Inums : \A bn \in 0..MAXFILE - 1 : MapIn(data', Views[j], bn) = MapIn(data, Views[j], bn)
         /\ \A j \in Inums : Kept(data, data', dinode[j], dinode[j])
         /\ \A j \in Inums : Kept(data, data', Views[j], Views[j])
<1>1. ASSUME NEW j \in Inums
      PROVE  /\ \A k \in Slots : SlotIn(data', Views[j], k) = SlotIn(data, Views[j], k)
             /\ \A bn \in 0..MAXFILE - 1 : MapIn(data', Views[j], bn) = MapIn(data, Views[j], bn)
  <2>1. Views[j].addrs[NDIRECT] \in Blocks =>
          data'[Views[j].addrs[NDIRECT]] = data[Views[j].addrs[NDIRECT]]
    OBVIOUS
  <2> QED
    BY <2>1 DEF SlotIn, MapIn, EntryIn
<1>2. ASSUME NEW j \in Inums PROVE Kept(data, data', dinode[j], dinode[j])
  <2>1. dinode[j].addrs[NDIRECT] \in Blocks =>
          data'[dinode[j].addrs[NDIRECT]] = data[dinode[j].addrs[NDIRECT]]
    <3>1. dinode[j] \in Inode /\ Views[j] \in Inode /\ Ahead(Views[j], dinode[j])
      BY ViewFacts
    <3>2. \A c \in Blocks : dinode[j].addrs[NDIRECT] = c => Views[j].addrs[NDIRECT] = c
      BY <3>1, DiskSlots
    <3> QED
      BY <3>2
  <2>2. \A bn : MapIn(data', dinode[j], bn) = MapIn(data, dinode[j], bn)
    BY <2>1 DEF SlotIn, MapIn, EntryIn
  <2> QED
    BY <2>2 DEF Kept
<1> QED
  BY <1>1, <1>2 DEF Kept

\* A writei stays where it is while bmap works.
LEMMA SameRequest ==
  ASSUME IInv, pc \in {"write", "bzero", "entry"}, dinode' = dinode, pc' \in {"write", "bzero", "entry"},
         op'.ino = op.ino, op'.off = op.off, op'.cells = op.cells,
         \A x \in RootOffs : RootCell(x)' = RootCell(x)
  PROVE  EntryInv' /\ CreateInv'
<1>1. EntryInv' /\ \A e : Fresh(e) => Fresh(e)'
  BY SameEntries DEF IInv
<1>2. Writing /\ Writing' /\ pc' # "created" /\ pc' # "iupdate"
  BY DEF Writing
<1> QED
  BY <1>1, <1>2 DEF IInv, CreateInv

\* SetSlot fills the slot that is missing.
LEMMA SlotStep ==
  ASSUME IInv, pc \in {"write", "bzero"}, Lacks \in {"direct", "indirect"},
         NEW b \in Addrs \ {0}, SetSlot(b), pc' = "write", data' \in Data,
         \A c \in Blocks : c # b => data'[c] = data[c],
         b \in Blocks => /\ b \in bitmap /\ Unused(b, data, Views)
                         /\ \A k \in 0..BSIZE - 1 : data'[b][k] = Nil,
         UNCHANGED <<bitmap, dinode, op, crashes>>
  PROVE  IInv'
<1> USE DEF IInv
<1> DEFINE i == op.ino
           ip == mem[i]
           jp == mem'[i]
           n == (op.off + op.tot) \div BSIZE
           s == IF Lacks = "direct" THEN n ELSE NDIRECT
<1>1. /\ op \in Request /\ i \in Inums /\ ip \in Inode /\ Views[i] = ip
      /\ op.tot < Len(op.cells)
      /\ op.off + op.tot \in 0..MAXFILE * BSIZE /\ n \in 0..MAXFILE - 1
  BY AtBlock
<1>2. s \in 0..NDIRECT /\ ip.addrs[s] = 0
  BY <1>1, LacksMeans, FsAssumption DEF Lacks, TypeInv
<1>3. mem' = [mem EXCEPT ![i].addrs[s] = b]
  BY Reading DEF SetSlot, Bn
<1>4. /\ jp = [ip EXCEPT !.addrs[s] = b]
      /\ \A j \in Inums : j # i => mem'[j] = mem[j]
  BY <1>1, <1>3 DEF TypeInv
<1>5. /\ jp.type = ip.type /\ jp.nlink = ip.nlink /\ jp.size = ip.size
      /\ jp.addrs = [ip.addrs EXCEPT ![s] = b] /\ jp \in Inode
  <2>1. ip.addrs \in [0..NDIRECT -> Addrs]
    BY <1>1 DEF Inode
  <2>2. [ip.addrs EXCEPT ![s] = b] \in [0..NDIRECT -> Addrs]
    BY <1>2, <2>1
  <2> QED
    BY <1>1, <1>2, <1>4, <2>1, <2>2 DEF Inode
<1>6. jp # None
  BY <1>5, NoneAssumption
<1>7. mem' \in [Inums -> {None} \cup Inode]
  <2>1. mem' = [j \in Inums |-> mem'[j]]
    BY <1>3 DEF TypeInv
  <2>2. \A j \in Inums : mem'[j] \in {None} \cup Inode
    BY <1>4, <1>5 DEF TypeInv
  <2> QED
    BY <2>1, <2>2
<1>8. /\ Views'[i] = jp
      /\ \A j \in Inums : j # i => Views'[j] = Views[j]
  BY <1>1, <1>4, <1>6 DEF Views, ilock
<1>9. \A j \in Inums : Views[j].addrs[NDIRECT] \in Blocks => Views[j].addrs[NDIRECT] # b
  BY UnusedBlock
<1>10. /\ \A j \in Inums : \A k \in Slots : SlotIn(data', Views[j], k) = SlotIn(data, Views[j], k)
       /\ \A j \in Inums : \A bn \in 0..MAXFILE - 1 : MapIn(data', Views[j], bn) = MapIn(data, Views[j], bn)
       /\ \A j \in Inums : Kept(data, data', dinode[j], dinode[j])
       /\ \A j \in Inums : Kept(data, data', Views[j], Views[j])
  BY <1>9, DiskKept
<1>11. /\ \A k \in Slots : SlotIn(data', jp, k) = IF k = s THEN b ELSE SlotIn(data, ip, k)
       /\ \A bn \in 0..MAXFILE - 1 :
            /\ MapIn(data, ip, bn) # 0 => MapIn(data', jp, bn) = MapIn(data, ip, bn)
            /\ MapIn(data, ip, bn) = 0 => MapIn(data', jp, bn) \in {0, b}
  <2>1. data \in Data
    BY DEF TypeInv
  <2>2. ip.addrs[NDIRECT] \in Blocks => ip.addrs[NDIRECT] # b
    BY <1>1, <1>9
  <2>3. b \in Blocks => \A k \in 0..BSIZE - 1 : data'[b][k] = Nil
    OBVIOUS
  <2> HIDE DEF ip, jp, s, i, n
  <2> QED
    BY <1>1, <1>2, <1>5, <2>1, <2>2, <2>3, NewSlot
<1> HIDE DEF ip, jp, s, n
<1>12. BlockInv'
  <2>1. s \in Slots
    BY <1>2, FsAssumption DEF Slots
  <2>2. \A j \in Inums : \A k \in Slots :
          SlotIn(data', Views'[j], k) = IF j = i /\ k = s THEN b ELSE SlotIn(data, Views[j], k)
    BY <1>1, <1>8, <1>10, <1>11
  <2>3. b \in Blocks => b \in bitmap /\ Unused(b, data, Views)
    OBVIOUS
  <2>4. Covered(bitmap, data', Views') /\ Apart(data', Views')
    BY <1>1, <2>1, <2>2, <2>3, AddPlace DEF BlockInv
  <2> QED
    BY <2>4 DEF BlockInv
<1>13. TypeInv'
  BY <1>1, <1>7 DEF TypeInv, Writing
<1>14. CopyInv'
  <2>1. Ahead(ip, dinode[i])
    BY <1>1, ViewFacts
  <2>2. \A k \in 0..NDIRECT : jp.addrs[k] = IF k = s THEN b ELSE ip.addrs[k]
    BY <1>1, <1>2, <1>5 DEF Inode
  <2>3. Ahead(jp, dinode[i])
    BY <1>2, <1>5, <2>1, <2>2 DEF Ahead
  <2>4. ip # None
    BY <1>1, NoneAssumption
  <2> QED
    BY <1>4, <1>5, <2>3, <2>4 DEF CopyInv, Writing, ip, jp
<1>15. \A j \in Inums : /\ mem'[j] = None <=> mem[j] = None
                        /\ mem[j] # None => mem'[j].size = mem[j].size
  BY <1>1, <1>4, <1>5, <1>6, NoneAssumption DEF ip, jp
<1>16. \A j \in Inums : mem[j] # None => Kept(data, data', mem[j], mem'[j])
  <2> SUFFICES ASSUME NEW j \in Inums, mem[j] # None PROVE Kept(data, data', mem[j], mem'[j])
    OBVIOUS
  <2>1. CASE j = i
    BY <1>11, <2>1 DEF Kept, ip, jp
  <2>2. CASE j # i
    <3>1. Views[j] = mem[j] /\ mem'[j] = mem[j]
      BY <1>4, <2>2, ViewFacts
    <3> QED
      BY <1>10, <3>1
  <2> QED
    BY <2>1, <2>2
<1>17. HoleInv' /\ RootInv' /\ \A x \in RootOffs : RootCell(x)' = RootCell(x)
  <2>1. ROOTINO \in Inums
    BY RootFacts
  <2>2. \A bn \in 0..MAXFILE - 1 : MapIn(data, Views[ROOTINO], bn) \in Blocks =>
          data'[MapIn(data, Views[ROOTINO], bn)] = data[MapIn(data, Views[ROOTINO], bn)]
    BY <2>1, UnusedBlock
  <2>3. \A bn \in 0..MAXFILE - 1 :
          LET c == MapIn(data', Views'[ROOTINO], bn)
          IN c \in Blocks =>
               \/ MapIn(data, Views[ROOTINO], bn) = c
               \/ \A k \in 0..BSIZE - 1 : data'[c][k] = Nil
    <3>1. CASE i = ROOTINO
      <4>1. 0 \notin Blocks
        BY FsAssumption DEF Blocks
      <4> QED
        BY <1>1, <1>8, <1>11, <3>1, <4>1
    <3>2. CASE i # ROOTINO
      BY <1>8, <1>10, <2>1, <3>2
    <3> QED
      BY <3>1, <3>2
  <2> QED
    BY <1>10, <1>15, <1>16, <2>2, <2>3, Grow
<1>18. EntryInv' /\ CreateInv'
  BY <1>17, SameRequest
<1>19. WriteInv'
  <2>1. Kept(data, data', ip, jp)
    BY <1>11 DEF Kept
  <2>2. Filled(data, ip, op.off + op.tot)
    BY DEF WriteInv, Writing, ip
  <2>3. Filled(data', jp, op.off + op.tot)
    BY <1>1, <2>1, <2>2, FilledKept
  <2>4. ~(op.off + Len(op.cells) <= ip.size)
    <3> SUFFICES ASSUME op.off + Len(op.cells) <= ip.size PROVE FALSE
      OBVIOUS
    <3>1. MapIn(data, ip, n) = 0
      BY <1>1, LacksMeans DEF Lacks, TypeInv, ip, n
    <3>2. op.off + op.tot \in 0..ip.size - 1
      <4>1. Len(op.cells) \in Nat /\ op.off \in Nat /\ op.tot \in Nat
        BY AtBlock
      <4>2. ip.size \in 0..MAXFILE * BSIZE
        BY <1>1 DEF Inode
      <4>3. ip.size \in Int
        BY <4>2
      <4> QED
        BY <1>1, <4>1, <4>3
    <3>3. Filled(data, ip, ip.size)
      BY <1>1, NoneAssumption DEF HoleInv, ip
    <3> QED
      BY <3>1, <3>2, <3>3 DEF Filled, n
  <2> QED
    BY <1>1, <1>5, <1>6, <2>3, <2>4 DEF WriteInv, Writing, ip, jp
<1> QED
  BY <1>12, <1>13, <1>14, <1>17, <1>18, <1>19

\* A block that is neither indirect nor the root directory's is overwritten.
LEMMA Overwrite ==
  ASSUME IInv, NEW b, UNCHANGED <<bitmap, dinode, mem>>,
         \A c \in Blocks : c # b => data'[c] = data[c],
         \A j \in Inums : Views[j].addrs[NDIRECT] \in Blocks => Views[j].addrs[NDIRECT] # b,
         \A bn \in 0..MAXFILE - 1 : MapIn(data, Views[ROOTINO], bn) \in Blocks =>
           MapIn(data, Views[ROOTINO], bn) # b
  PROVE  /\ Views' = Views /\ BlockInv' /\ HoleInv' /\ RootInv'
         /\ \A x \in RootOffs : RootCell(x)' = RootCell(x)
         /\ \A j \in Inums : \A k \in Slots : SlotIn(data', Views[j], k) = SlotIn(data, Views[j], k)
         /\ \A j \in Inums : mem[j] # None => Kept(data, data', mem[j], mem[j])
<1> USE DEF IInv
<1>1. Views' = Views
  BY DEF Views, ilock
<1>2. /\ \A j \in Inums : \A k \in Slots : SlotIn(data', Views[j], k) = SlotIn(data, Views[j], k)
      /\ \A j \in Inums : \A bn \in 0..MAXFILE - 1 : MapIn(data', Views[j], bn) = MapIn(data, Views[j], bn)
      /\ \A j \in Inums : Kept(data, data', dinode[j], dinode[j])
      /\ \A j \in Inums : Kept(data, data', Views[j], Views[j])
  BY DiskKept
<1>3. \A j \in Inums : mem[j] # None => Kept(data, data', mem[j], mem[j])
  BY <1>2, ViewFacts
<1>4. BlockInv'
  BY <1>1, <1>2 DEF BlockInv, Covered, Apart
<1>5. HoleInv' /\ RootInv' /\ \A x \in RootOffs : RootCell(x)' = RootCell(x)
  <2>1. ROOTINO \in Inums
    BY RootFacts
  <2>2. \A bn \in 0..MAXFILE - 1 :
          LET c == MapIn(data', Views'[ROOTINO], bn)
          IN c \in Blocks =>
               \/ MapIn(data, Views[ROOTINO], bn) = c
               \/ \A k \in 0..BSIZE - 1 : data'[c][k] = Nil
    BY <1>1, <1>2, <2>1
  <2>3. \A bn \in 0..MAXFILE - 1 : MapIn(data, Views[ROOTINO], bn) \in Blocks =>
          data'[MapIn(data, Views[ROOTINO], bn)] = data[MapIn(data, Views[ROOTINO], bn)]
    OBVIOUS
  <2>4. \A j \in Inums : mem[j] # None => Kept(data, data', mem[j], mem'[j])
    BY <1>3
  <2> QED
    BY <1>2, <2>2, <2>3, <2>4, Grow
<1> QED
  BY <1>1, <1>2, <1>3, <1>4, <1>5

\* SetEntry fills the entry that is missing.
LEMMA EntryStep ==
  ASSUME IInv, pc \in {"write", "entry"}, Lacks = "entry",
         NEW b \in Addrs \ {0}, SetEntry(b), pc' = "write",
         b \in Blocks => /\ b \in bitmap /\ Unused(b, data, Views)
                         /\ \A k \in 0..BSIZE - 1 : data[b][k] = Nil,
         UNCHANGED <<bitmap, dinode, mem, op, crashes>>
  PROVE  IInv'
<1> USE DEF IInv
<1> DEFINE i == op.ino
           ip == mem[i]
           n == (op.off + op.tot) \div BSIZE
           m == n - NDIRECT
           s == NDIRECT + 1 + m
           ind == ip.addrs[NDIRECT]
<1>1. /\ op \in Request /\ i \in Inums /\ ip \in Inode /\ Views[i] = ip
      /\ op.tot < Len(op.cells)
      /\ op.off + op.tot \in 0..MAXFILE * BSIZE /\ n \in 0..MAXFILE - 1
  BY AtBlock
<1>2. data \in Data
  BY DEF TypeInv
<1>3. m \in 0..NINDIRECT - 1 /\ ind \in Blocks /\ EntryIn(data, ind, m) = 0
  BY <1>1, <1>2, LacksMeans DEF Lacks
<1>4. data' = [data EXCEPT ![ind][m] = <<b>>]
  BY DEF SetEntry, Ip, Bn
<1>5. Views' = Views
  BY DEF Views, ilock
<1>6. /\ data' \in Data
      /\ \A c \in Blocks : c # ind => data'[c] = data[c]
      /\ \A k \in Slots : SlotIn(data', ip, k) = IF k = NDIRECT + 1 + m THEN b ELSE SlotIn(data, ip, k)
      /\ \A bn \in 0..MAXFILE - 1 : MapIn(data', ip, bn) = IF bn = NDIRECT + m THEN b ELSE MapIn(data, ip, bn)
      /\ MapIn(data, ip, NDIRECT + m) = 0
  <2>1. b \in Addrs /\ <<b>> \in Cell
    BY CellKinds
  <2>2. m \in 0..BSIZE - 1
    BY <1>3, FsAssumption
  <2> HIDE DEF ip, m, n
  <2>3. data' \in Data
    BY <1>2, <1>3, <1>4, <2>1, <2>2 DEF Data
  <2>4. \A c \in Blocks : c # ind => data'[c] = data[c]
    BY <1>2, <1>4 DEF Data
  <2>5. \A k \in 0..BSIZE - 1 : data'[ind][k] = IF k = m THEN <<b>> ELSE data[ind][k]
    BY <1>2, <1>3, <1>4, <2>2 DEF Data
  <2>6. /\ \A k \in Slots : SlotIn(data', ip, k) = IF k = NDIRECT + 1 + m THEN b ELSE SlotIn(data, ip, k)
        /\ \A bn \in 0..MAXFILE - 1 : MapIn(data', ip, bn) = IF bn = NDIRECT + m THEN b ELSE MapIn(data, ip, bn)
        /\ MapIn(data, ip, NDIRECT + m) = 0
    BY <1>1, <1>2, <1>3, <2>1, <2>3, <2>5, NewEntry
  <2> QED
    BY <2>3, <2>4, <2>6
<1>7. NDIRECT \in Slots /\ s \in Slots
  BY <1>3, FsAssumption DEF Slots
<1> HIDE DEF ip, m, n
<1>8. ASSUME NEW j \in Inums, j # i
      PROVE  Views[j].addrs[NDIRECT] # ind
  <2>1. SlotIn(data, Views[j], NDIRECT) = Views[j].addrs[NDIRECT] /\ SlotIn(data, Views[i], NDIRECT) = ind
    BY <1>1, FsAssumption DEF SlotIn
  <2> QED
    BY <1>1, <1>3, <1>7, <1>8, <2>1 DEF BlockInv, Apart
<1>9. ASSUME NEW j \in Inums, j # i
      PROVE  /\ \A k \in Slots : SlotIn(data', Views[j], k) = SlotIn(data, Views[j], k)
             /\ \A bn \in 0..MAXFILE - 1 : MapIn(data', Views[j], bn) = MapIn(data, Views[j], bn)
             /\ \A bn \in 0..MAXFILE - 1 : MapIn(data', dinode[j], bn) = MapIn(data, dinode[j], bn)
  <2>1. Views[j].addrs[NDIRECT] \in Blocks =>
          data'[Views[j].addrs[NDIRECT]] = data[Views[j].addrs[NDIRECT]]
    BY <1>6, <1>8, <1>9
  <2>2. dinode[j].addrs[NDIRECT] \in Blocks =>
          data'[dinode[j].addrs[NDIRECT]] = data[dinode[j].addrs[NDIRECT]]
    <3>1. dinode[j] \in Inode /\ Views[j] \in Inode /\ Ahead(Views[j], dinode[j])
      BY ViewFacts
    <3>2. \A c \in Blocks : dinode[j].addrs[NDIRECT] = c => Views[j].addrs[NDIRECT] = c
      BY <3>1, DiskSlots
    <3> QED
      BY <1>6, <1>8, <1>9, <3>2
  <2>3. \A k \in Slots : SlotIn(data', Views[j], k) = SlotIn(data, Views[j], k)
    BY <2>1 DEF SlotIn, EntryIn
  <2>4. \A bn \in 0..MAXFILE - 1 : MapIn(data', Views[j], bn) = MapIn(data, Views[j], bn)
    BY <2>1 DEF MapIn, EntryIn
  <2>5. \A bn \in 0..MAXFILE - 1 : MapIn(data', dinode[j], bn) = MapIn(data, dinode[j], bn)
    BY <2>2 DEF MapIn, EntryIn
  <2> QED
    BY <2>3, <2>4, <2>5
<1>10. BlockInv'
  <2>1. \A j \in Inums : \A k \in Slots :
          SlotIn(data', Views'[j], k) = IF j = i /\ k = s THEN b ELSE SlotIn(data, Views[j], k)
    BY <1>1, <1>5, <1>6, <1>9
  <2> HIDE DEF s
  <2>2. b \in Blocks => b \in bitmap /\ Unused(b, data, Views)
    OBVIOUS
  <2>3. Covered(bitmap, data', Views')
    BY <2>1, <2>2 DEF BlockInv, Covered
  <2>4. Apart(data', Views')
    BY <2>1, <2>2 DEF BlockInv, Apart, Unused
  <2> QED
    BY <2>3, <2>4 DEF BlockInv
<1>11. TypeInv' /\ CopyInv'
  BY <1>6 DEF TypeInv, CopyInv, Writing
<1>12. Kept(data, data', ip, ip)
  BY <1>6 DEF Kept
<1>13. \A j \in Inums : Kept(data, data', dinode[j], dinode[j])
  <2> SUFFICES ASSUME NEW j \in Inums PROVE Kept(data, data', dinode[j], dinode[j])
    OBVIOUS
  <2>1. CASE j # i
    BY <1>9, <2>1 DEF Kept
  <2>2. CASE j = i
    <3> SUFFICES ASSUME NEW bn \in 0..MAXFILE - 1, MapIn(data, dinode[i], bn) # 0
                 PROVE  MapIn(data', dinode[i], bn) = MapIn(data, dinode[i], bn)
      BY <2>2 DEF Kept
    <3>1. dinode[i] \in Inode /\ Ahead(ip, dinode[i])
      BY <1>1, ViewFacts
    <3>4. CASE bn < NDIRECT
      BY <3>4 DEF MapIn
    <3>5. CASE ~(bn < NDIRECT)
      <4>1. dinode[i].addrs[NDIRECT] # 0
        BY <3>5, FsAssumption DEF MapIn, Blocks
      <4>2. NDIRECT \in 0..NDIRECT
        BY FsAssumption
      <4>3. ip.addrs[NDIRECT] = dinode[i].addrs[NDIRECT]
        BY <3>1, <4>1, <4>2 DEF Ahead
      <4>4. /\ MapIn(data', dinode[i], bn) = MapIn(data', ip, bn)
            /\ MapIn(data, dinode[i], bn) = MapIn(data, ip, bn)
        BY <3>5, <4>3 DEF MapIn
      <4> QED
        BY <1>12, <4>4 DEF Kept
    <3> QED
      BY <3>4, <3>5
  <2> QED
    BY <2>1, <2>2
<1>14. \A j \in Inums : mem[j] # None => Kept(data, data', mem[j], mem'[j])
  <2> SUFFICES ASSUME NEW j \in Inums, mem[j] # None PROVE Kept(data, data', mem[j], mem[j])
    OBVIOUS
  <2>1. CASE j = i
    BY <1>12, <2>1 DEF ip
  <2>2. CASE j # i
    <3>1. Views[j] = mem[j]
      BY ViewFacts
    <3> QED
      BY <1>9, <2>2, <3>1 DEF Kept
  <2> QED
    BY <2>1, <2>2
<1>15. HoleInv' /\ RootInv' /\ \A x \in RootOffs : RootCell(x)' = RootCell(x)
  <2>1. ROOTINO \in Inums
    BY RootFacts
  <2>2. \A bn \in 0..MAXFILE - 1 : MapIn(data, Views[ROOTINO], bn) \in Blocks =>
          data'[MapIn(data, Views[ROOTINO], bn)] = data[MapIn(data, Views[ROOTINO], bn)]
    <3> SUFFICES ASSUME NEW bn \in 0..MAXFILE - 1, MapIn(data, Views[ROOTINO], bn) \in Blocks
                 PROVE  MapIn(data, Views[ROOTINO], bn) # ind
      BY <1>6
    <3> QED
      BY <1>1, <2>1, DataBlock DEF BlockInv
  <2>3. \A bn \in 0..MAXFILE - 1 :
          LET c == MapIn(data', Views'[ROOTINO], bn)
          IN c \in Blocks =>
               \/ MapIn(data, Views[ROOTINO], bn) = c
               \/ \A k \in 0..BSIZE - 1 : data'[c][k] = Nil
    <3>1. CASE i = ROOTINO
      <4>1. b \in Blocks => b # ind
        BY <1>1, UnusedBlock
      <4>2. b \in Blocks => \A k \in 0..BSIZE - 1 : data'[b][k] = Nil
        BY <1>6, <4>1
      <4> QED
        BY <1>1, <1>5, <1>6, <3>1, <4>2
    <3>2. CASE i # ROOTINO
      BY <1>5, <1>9, <2>1, <3>2
    <3> QED
      BY <3>1, <3>2
  <2>4. \A j \in Inums : /\ mem'[j] = None <=> mem[j] = None
                         /\ mem[j] # None => mem'[j].size = mem[j].size
    OBVIOUS
  <2> QED
    BY <1>13, <1>14, <2>2, <2>3, <2>4, Grow
<1>16. EntryInv' /\ CreateInv'
  BY <1>15, SameRequest
<1>17. WriteInv'
  <2>1. Filled(data, ip, op.off + op.tot) /\ ip # None /\ op.off <= ip.size
    BY DEF WriteInv, Writing, ip
  <2>2. Filled(data', ip, op.off + op.tot)
    BY <1>1, <1>12, <2>1, FilledKept
  <2> QED
    BY <1>1, <2>1, <2>2 DEF WriteInv, Writing, ip
<1> QED
  BY <1>10, <1>11, <1>15, <1>16, <1>17

LEMMA BallocStep ==
  ASSUME IInv, balloc
  PROVE  IInv'
<1> USE DEF IInv
<1>1. /\ pc = "write" /\ Lacks \in {"direct", "indirect", "entry"} /\ UNCHANGED <<dinode, crashes>>
  BY Reading DEF balloc, Running
<1>2. CASE Free # {}
  <2> DEFINE b == Min(Free)
  <2>1. b \in Blocks /\ b \notin bitmap
    <3>1. Free \subseteq Nat
      BY FsAssumption DEF Free, Blocks
    <3> QED
      BY <1>2, <3>1, MinMember DEF Free
  <2>2. /\ bitmap' = bitmap \cup {b} /\ op' = [op EXCEPT !.new = b] /\ pc' = "bzero"
        /\ UNCHANGED <<data, mem, dinode, crashes>>
    BY <1>1, <1>2 DEF balloc
  <2> HIDE DEF b
  <2>3. /\ op \in Request /\ mem[op.ino] # None /\ op.tot < Len(op.cells)
        /\ op.off <= mem[op.ino].size /\ op.off + Len(op.cells) <= MAXFILE * BSIZE
        /\ Filled(data, mem[op.ino], op.off + op.tot)
    BY <1>1 DEF TypeInv, WriteInv, Writing
  <2>4. /\ op' \in Request /\ op'.ino = op.ino /\ op'.off = op.off /\ op'.cells = op.cells
        /\ op'.tot = op.tot /\ op'.new = b
    BY <2>1, <2>2, <2>3 DEF Request
  <2>5. Views' = Views
    BY <2>2 DEF Views, ilock
  <2>6. \A x \in RootOffs : RootCell(x)' = RootCell(x)
    BY <2>2 DEF RootCell
  <2>7. EntryInv' /\ CreateInv'
    BY <1>1, <2>2, <2>4, <2>6, SameRequest
  <2>8. TypeInv'
    BY <2>1, <2>2, <2>4 DEF TypeInv
  <2>9. BlockInv'
    BY <2>2, <2>5 DEF BlockInv, Covered
  <2>10. CopyInv' /\ HoleInv' /\ RootInv'
    BY <1>1, <2>2, <2>4, <2>5 DEF CopyInv, HoleInv, RootInv, Writing
  <2>11. Unused(b, data, Views)
    BY <2>1 DEF BlockInv, Covered, Unused
  <2>12. Lacks' = Lacks
    BY <2>2, <2>4 DEF Lacks
  <2>13. WriteInv'
    BY <1>1, <2>2, <2>3, <2>4, <2>5, <2>11, <2>12 DEF WriteInv, Writing
  <2> QED
    BY <2>7, <2>8, <2>9, <2>10, <2>13
<1>3. CASE Free = {}
  <2>1. NoSpace \in Addrs \ {0} /\ NoSpace \notin Blocks
    BY FsAssumption DEF NoSpace, Addrs, Blocks
  <2>2. UNCHANGED <<bitmap, op, pc>>
    BY <1>3 DEF balloc
  <2>3. CASE Lacks = "entry"
    <3>1. SetEntry(NoSpace) /\ UNCHANGED mem
      BY <1>3, <2>3, Reading DEF balloc
    <3> QED
      BY <1>1, <2>1, <2>2, <2>3, <3>1, EntryStep
  <2>4. CASE Lacks # "entry"
    <3>1. SetSlot(NoSpace) /\ UNCHANGED data
      BY <1>3, <2>4, Reading DEF balloc
    <3>2. data' \in Data
      BY <3>1 DEF TypeInv
    <3> QED
      BY <1>1, <2>1, <2>2, <2>4, <3>1, <3>2, SlotStep
  <2> QED
    BY <2>3, <2>4
<1> QED
  BY <1>2, <1>3

LEMMA BzeroStep ==
  ASSUME IInv, bzero
  PROVE  IInv'
<1> USE DEF IInv
<1> DEFINE b == op.new
           zero == [k \in 0..BSIZE-1 |-> Nil]
<1>1. /\ pc = "bzero" /\ data' = [data EXCEPT ![b] = zero]
      /\ UNCHANGED <<bitmap, dinode, op, crashes>>
  BY DEF bzero, Running
<1>2. /\ b \in bitmap /\ Unused(b, data, Views) /\ Lacks \in {"direct", "indirect", "entry"}
      /\ op \in Request
  BY <1>1 DEF WriteInv, TypeInv, Writing
<1>3. b \in Blocks
  BY <1>2 DEF TypeInv
<1>4. b \in Addrs \ {0}
  BY <1>3, FsAssumption DEF Addrs, Blocks
<1>5. /\ data' \in Data /\ data'[b] = zero
      /\ \A c \in Blocks : c # b => data'[c] = data[c]
  <2>1. zero \in [0..BSIZE-1 -> Cell]
    BY CellKinds
  <2> QED
    BY <1>1, <1>3, <2>1 DEF TypeInv, Data
<1>6. \A k \in 0..BSIZE - 1 : data'[b][k] = Nil
  BY <1>5
<1> HIDE DEF b, zero
<1>7. CASE Lacks = "entry"
  <2>1. pc' = "entry" /\ UNCHANGED mem
    BY <1>7, Reading DEF bzero
  <2>2. ROOTINO \in Inums
    BY RootFacts
  <2>3. /\ \A j \in Inums : Views[j].addrs[NDIRECT] # b
        /\ \A bn \in 0..MAXFILE - 1 : MapIn(data, Views[ROOTINO], bn) # b
    BY <1>2, <1>3, <2>2, UnusedBlock
  <2>4. /\ Views' = Views /\ BlockInv' /\ HoleInv' /\ RootInv'
        /\ \A x \in RootOffs : RootCell(x)' = RootCell(x)
        /\ \A j \in Inums : \A k \in Slots : SlotIn(data', Views[j], k) = SlotIn(data, Views[j], k)
        /\ \A j \in Inums : mem[j] # None => Kept(data, data', mem[j], mem[j])
    BY <1>1, <1>5, <2>1, <2>3, Overwrite
  <2>5. EntryInv' /\ CreateInv'
    BY <1>1, <2>1, <2>4, SameRequest
  <2>6. TypeInv' /\ CopyInv'
    BY <1>1, <1>2, <1>5, <2>1 DEF TypeInv, CopyInv, Writing
  <2>7. Unused(b, data', Views')
    BY <1>2, <2>4 DEF Unused
  <2> DEFINE ip == mem[op.ino]
             n == (op.off + op.tot) \div BSIZE
  <2>8. /\ op.ino \in Inums /\ ip \in Inode /\ Views[op.ino] = ip
        /\ op.off + op.tot \in 0..MAXFILE * BSIZE /\ n \in 0..MAXFILE - 1
    BY <1>1, AtBlock
  <2>9. Lacks' = Lacks
    <3>1. data'[ip.addrs[NDIRECT]] = data[ip.addrs[NDIRECT]]
      <4>1. ip.addrs[NDIRECT] \in Blocks
        BY <1>7, <2>8, LacksMeans DEF Lacks, TypeInv
      <4> QED
        BY <1>5, <2>3, <2>8, <4>1
    <3> QED
      BY <1>1, <2>1, <3>1 DEF Lacks, LacksIn, EntryIn
  <2>10. Filled(data', ip, op.off + op.tot)
    <3>1. Filled(data, ip, op.off + op.tot) /\ ip # None
      BY <1>1 DEF WriteInv, Writing
    <3>2. Kept(data, data', ip, ip)
      BY <2>4, <2>8, <3>1
    <3> HIDE DEF ip
    <3> QED
      BY <2>8, <3>1, <3>2, FilledKept
  <2>11. WriteInv'
    BY <1>1, <1>2, <1>5, <1>7, <2>1, <2>7, <2>9, <2>10 DEF WriteInv, Writing, b, zero
  <2> QED
    BY <2>4, <2>5, <2>6, <2>11
<1>8. CASE Lacks # "entry"
  <2>1. pc' = "write" /\ SetSlot(b)
    BY <1>8, Reading DEF bzero, b
  <2> QED
    BY <1>1, <1>2, <1>4, <1>5, <1>6, <1>8, <2>1, SlotStep
<1> QED
  BY <1>7, <1>8

LEMMA BmapEntryStep ==
  ASSUME IInv, bmapEntry
  PROVE  IInv'
<1> USE DEF IInv
<1> DEFINE b == op.new
<1>1. /\ pc = "entry" /\ SetEntry(b) /\ pc' = "write"
      /\ UNCHANGED <<bitmap, dinode, mem, op, crashes>>
  BY DEF bmapEntry, Running
<1>2. /\ b \in bitmap /\ Unused(b, data, Views) /\ Lacks = "entry"
      /\ data[b] = [k \in 0..BSIZE-1 |-> Nil]
  BY <1>1 DEF WriteInv, Writing
<1>3. b \in Blocks
  BY <1>2 DEF TypeInv
<1> HIDE DEF b
<1>4. b \in Addrs \ {0}
  BY <1>3, FsAssumption DEF Addrs, Blocks
<1>5. \A k \in 0..BSIZE - 1 : data[b][k] = Nil
  BY <1>2
<1> QED
  BY <1>1, <1>2, <1>4, <1>5, EntryStep

-----------------------------------------------------------------------------
(***************************************************************************)
(* The loop of writei and its end.                                         *)
(***************************************************************************)

\* The cell that goes to place k of the block is one of the request.
LEMMA SourceIndex ==
  ASSUME NEW t \in Nat, NEW c \in Nat, NEW m \in Nat, NEW s \in Nat, NEW k \in Nat,
         m <= c - t, s <= k, k <= s + m - 1
  PROVE  t + k - s + 1 \in 1..c
  OBVIOUS

\* What the bwrite of the loop does, whichever block it is.
LEMMA WriteBlockFacts ==
  ASSUME IInv, writeBlock
  PROVE  \E at, m, b :
         LET ip == mem[op.ino]
             bn == (op.off + op.tot) \div BSIZE
             n == Len(op.cells)
         IN /\ at = (op.off + op.tot) % BSIZE /\ at \in 0..BSIZE - 1
            /\ m \in Nat /\ m > 0 /\ m <= n - op.tot /\ m <= BSIZE - at
            /\ m = n - op.tot \/ m = BSIZE - at
            /\ b = MapIn(data, ip, bn) /\ b # 0
            /\ b \notin Blocks => data' = data
            /\ data' \in Data
            /\ \A c \in Blocks : c # b => data'[c] = data[c]
            /\ b \in Blocks => \A k \in 0..BSIZE - 1 :
                 data'[b][k] = IF k \in at..at + m - 1 THEN op.cells[op.tot + k - at + 1] ELSE data[b][k]
            /\ IF op.tot + m = n /\ op.off + n <= ip.size
               THEN op' = None
               ELSE op' = [op EXCEPT !.tot = op.tot + m]
            /\ pc' = IF op.tot + m < n THEN "write"
                     ELSE IF op.off + n > ip.size THEN "iupdate" ELSE "idle"
<1> USE DEF IInv
<1> DEFINE ip == mem[op.ino]
           bn == (op.off + op.tot) \div BSIZE
           at == (op.off + op.tot) % BSIZE
           n == Len(op.cells)
           m == Min({n - op.tot, BSIZE - at})
           b == MapIn(data, ip, bn)
<1>1. pc = "write" /\ Lacks \in {"none", "garbage"}
  BY Reading DEF writeBlock, Running
<1>2. /\ op \in Request /\ op.ino \in Inums /\ ip \in Inode
      /\ op.tot < n /\ n \in Nat /\ op.off \in Nat /\ op.tot \in Nat
      /\ op.off + op.tot \in Nat /\ bn \in 0..MAXFILE - 1
  BY <1>1, AtBlock
<1>3. BSIZE \in Nat /\ at \in 0..BSIZE - 1
  BY <1>2, DivMod, FsAssumption
<1>4. m \in {n - op.tot, BSIZE - at} /\ m <= n - op.tot /\ m <= BSIZE - at
  <2> HIDE DEF at, n
  <2>1. n - op.tot \in Nat /\ BSIZE - at \in Nat
    BY <1>2, <1>3
  <2>2. {n - op.tot, BSIZE - at} \subseteq Nat /\ {n - op.tot, BSIZE - at} # {}
    BY <2>1
  <2> QED
    BY <2>2, MinMember
<1>5. m \in Nat /\ m > 0
  <2> HIDE DEF at, n
  <2>1. n - op.tot \in Nat /\ BSIZE - at \in Nat /\ n - op.tot > 0 /\ BSIZE - at > 0
    BY <1>2, <1>3
  <2> HIDE DEF m
  <2> QED
    BY <1>4, <2>1
<1>6. b # 0
  BY <1>1, <1>2, LacksMeans DEF Lacks, TypeInv
<1>7. /\ data' = IF b \notin Blocks THEN data
                 ELSE [data EXCEPT ![b] =
                        [k \in 0..BSIZE-1 |->
                           IF k \in at..at + m - 1 THEN op.cells[op.tot + k - at + 1] ELSE data[b][k]]]
      /\ op' = IF op.tot + m = n /\ op.off + n <= ip.size
               THEN None ELSE [op EXCEPT !.tot = op.tot + m]
      /\ pc' = IF op.tot + m < n THEN "write"
               ELSE IF op.off + n > ip.size THEN "iupdate" ELSE "idle"
  BY Reading DEF writeBlock, Ip, Bn, Put, At, Part
<1> HIDE DEF m, at
<1>8. ASSUME b \in Blocks
      PROVE  /\ data' \in Data
             /\ \A c \in Blocks : c # b => data'[c] = data[c]
             /\ \A k \in 0..BSIZE - 1 :
                 data'[b][k] = IF k \in at..at + m - 1 THEN op.cells[op.tot + k - at + 1] ELSE data[b][k]
  <2> DEFINE new == [k \in 0..BSIZE-1 |->
                      IF k \in at..at + m - 1 THEN op.cells[op.tot + k - at + 1] ELSE data[b][k]]
  <2>1. data \in Data
    BY DEF TypeInv
  <2>2. ASSUME NEW k \in 0..BSIZE - 1, k \in at..at + m - 1 PROVE op.cells[op.tot + k - at + 1] \in Cell
    <3>1. op.tot + k - at + 1 \in 1..n
      <4>1. m \in Nat /\ at \in Nat /\ m <= n - op.tot
        BY <1>3, <1>4, <1>5
      <4>2. k \in Nat /\ at <= k /\ k <= at + m - 1
        BY <2>2, <4>1
      <4> QED
        BY <1>2, <4>1, <4>2, SourceIndex
    <3>2. op.cells \in Seq(Cell)
      BY <1>2 DEF Request
    <3> QED
      BY <3>1, <3>2, ElementOfSeq
  <2>3. new \in [0..BSIZE-1 -> Cell]
    BY <1>8, <2>1, <2>2 DEF Data
  <2>4. data' = [data EXCEPT ![b] = new]
    BY <1>7, <1>8
  <2>5. data' \in Data /\ (\A c \in Blocks : c # b => data'[c] = data[c]) /\ data'[b] = new
    <3> HIDE DEF new, b
    <3> QED
      BY <1>8, <2>1, <2>3, <2>4 DEF Data
  <2> QED
    BY <2>5
<1>9. b \notin Blocks => data' = data /\ data' \in Data
  BY <1>7 DEF TypeInv
<1>10. at = (op.off + op.tot) % BSIZE
  BY DEF at
<1> HIDE DEF b
<1>11. b = MapIn(data, ip, bn)
  BY DEF b
<1> QED
  <2> WITNESS at, m, b
  <2> QED
    BY <1>3, <1>4, <1>5, <1>6, <1>7, <1>8, <1>9, <1>10, <1>11

LEMMA WriteBlockStep ==
  ASSUME IInv, writeBlock
  PROVE  IInv'
<1> USE DEF IInv
<1> DEFINE i == op.ino
           ip == mem[i]
           bn == (op.off + op.tot) \div BSIZE
           n == Len(op.cells)
<1>1. /\ pc = "write" /\ UNCHANGED <<bitmap, dinode, mem, crashes>>
  BY DEF writeBlock, Running
<1>2. PICK at, m, b :
        /\ at = (op.off + op.tot) % BSIZE /\ at \in 0..BSIZE - 1
        /\ m \in Nat /\ m > 0 /\ m <= n - op.tot /\ m <= BSIZE - at
        /\ m = n - op.tot \/ m = BSIZE - at
        /\ b = MapIn(data, ip, bn) /\ b # 0
        /\ b \notin Blocks => data' = data
        /\ data' \in Data
        /\ \A c \in Blocks : c # b => data'[c] = data[c]
        /\ b \in Blocks => \A k \in 0..BSIZE - 1 :
             data'[b][k] = IF k \in at..at + m - 1 THEN op.cells[op.tot + k - at + 1] ELSE data[b][k]
        /\ IF op.tot + m = n /\ op.off + n <= ip.size
           THEN op' = None
           ELSE op' = [op EXCEPT !.tot = op.tot + m]
        /\ pc' = IF op.tot + m < n THEN "write"
                 ELSE IF op.off + n > ip.size THEN "iupdate" ELSE "idle"
  BY WriteBlockFacts
<1>3. /\ op \in Request /\ i \in Inums /\ ip \in Inode /\ ip # None /\ Views[i] = ip
      /\ op.tot < n /\ n \in Nat /\ op.off \in Nat /\ op.tot \in Nat
      /\ op.off + op.tot \in Nat /\ bn \in 0..MAXFILE - 1
  BY <1>1, AtBlock, NoneAssumption
<1>4. /\ op.off <= ip.size /\ op.off + n <= MAXFILE * BSIZE
      /\ op.off + n <= ip.size => ip = dinode[i]
      /\ Filled(data, ip, op.off + op.tot)
  BY <1>1 DEF WriteInv, Writing
<1>5. ip.size \in Nat /\ MAXFILE * BSIZE \in Nat /\ BSIZE \in Nat
  <2>1. MAXFILE * BSIZE \in Nat /\ BSIZE \in Nat
    BY FsAssumption DEF MAXFILE
  <2> QED
    BY <1>3, <2>1 DEF Inode
<1>6. op.tot + m \in Nat /\ op.tot + m <= n /\ op.off + (op.tot + m) \in 0..MAXFILE * BSIZE
  <2> HIDE DEF n
  <2> QED
    BY <1>2, <1>3, <1>4, <1>5
<1>7. ASSUME Writing'
      PROVE  /\ op' \in Request /\ op'.ino = i /\ op'.off = op.off /\ op'.cells = op.cells
             /\ op'.tot = op.tot + m
  <2>1. op' = [op EXCEPT !.tot = op.tot + m]
    <3> HIDE DEF n, ip
    <3> QED
      BY <1>2, <1>3, <1>5, <1>6, <1>7 DEF Writing
  <2> QED
    BY <1>3, <1>6, <2>1 DEF Request
<1>8. pc' \in {"write", "iupdate", "idle"}
      /\ (pc' = "write" => op.tot + m < n)
      /\ (pc' = "iupdate" => op.tot + m = n /\ op.off + n > ip.size)
      /\ (pc' = "idle" => op.off + n <= ip.size)
  <2> HIDE DEF n, ip
  <2> QED
    BY <1>2, <1>3, <1>5, <1>6
<1>9. Filled(data, ip, op.off + (op.tot + m))
  <2> SUFFICES ASSUME NEW y \in 0..(op.off + (op.tot + m)) - 1
               PROVE  MapIn(data, ip, y \div BSIZE) # 0
    BY Zenon DEF Filled
  <2>1. CASE y < op.off + op.tot
    <3>1. y \in 0..(op.off + op.tot) - 1
      BY <1>3, <2>1
    <3> QED
      BY <1>4, <3>1 DEF Filled
  <2>2. CASE ~(y < op.off + op.tot)
    <3> DEFINE x == op.off + op.tot
    <3>1. y \in Nat /\ x \in Nat /\ x <= y /\ y < x + m
      BY <1>2, <1>3, <2>2
    <3>2. y < x + (BSIZE - (x % BSIZE))
      <4>1. at = x % BSIZE /\ at \in Nat
        BY <1>2
      <4> HIDE DEF x
      <4> QED
        BY <1>2, <1>5, <3>1, <4>1
    <3>3. y \div BSIZE = x \div BSIZE
      <4> HIDE DEF x
      <4> QED
        BY <3>1, <3>2, SameBlock
    <3> QED
      BY <1>2, <3>3
  <2> QED
    BY <2>1, <2>2
<1>10. \A j \in Inums : Views[j].addrs[NDIRECT] \in Blocks => Views[j].addrs[NDIRECT] # b
  <2>1. CASE b \in Blocks
    <3>1. MapIn(data, Views[i], bn) = b
      BY <1>2, <1>3
    <3> HIDE DEF bn, i
    <3> QED
      BY <1>3, <2>1, <3>1, DataBlock DEF BlockInv
  <2> QED
    BY <2>1
<1>11. /\ \A j \in Inums : \A k \in Slots : SlotIn(data', Views[j], k) = SlotIn(data, Views[j], k)
       /\ \A j \in Inums : \A l \in 0..MAXFILE - 1 : MapIn(data', Views[j], l) = MapIn(data, Views[j], l)
       /\ \A j \in Inums : Kept(data, data', dinode[j], dinode[j])
       /\ \A j \in Inums : Kept(data, data', Views[j], Views[j])
  BY <1>2, <1>10, DiskKept
<1>12. Views' = Views
  BY <1>1 DEF Views, ilock
<1>13. TypeInv'
  BY <1>1, <1>2, <1>7, <1>8 DEF TypeInv
<1>14. BlockInv'
  BY <1>1, <1>11, <1>12 DEF BlockInv, Covered, Apart
<1>15. CopyInv'
  <2>1. ~Writing' => ip = dinode[i]
    BY <1>4, <1>8 DEF Writing
  <2> QED
    BY <1>1, <1>7, <1>8, <2>1 DEF CopyInv, Writing
<1>16. HoleInv'
  <2>1. \A dp \in Inode : dp.size \in 0..MAXFILE * BSIZE
    BY DEF Inode
  <2>2. \A j \in Inums : Filled(data', dinode[j], dinode[j].size)
    BY <1>11, <2>1, ViewFacts, FilledKept DEF HoleInv
  <2>3. ASSUME NEW j \in Inums, mem[j] # None PROVE Filled(data', mem[j], mem[j].size)
    <3>1. Views[j] = mem[j] /\ mem[j] \in Inode
      BY <2>3, ViewFacts
    <3>2. Kept(data, data', mem[j], mem[j]) /\ mem[j].size \in 0..MAXFILE * BSIZE
      BY <1>11, <2>1, <3>1
    <3> QED
      BY <2>3, <3>2, FilledKept DEF HoleInv
  <2> QED
    BY <1>1, <2>2, <2>3 DEF HoleInv
<1>17. WriteInv'
  <2>1. Kept(data, data', ip, ip)
    BY <1>3, <1>11
  <2>2. Filled(data', ip, op.off + (op.tot + m))
    <3> HIDE DEF ip
    <3> QED
      BY <1>6, <1>9, <2>1, FilledKept
  <2> SUFFICES ASSUME Writing' PROVE WriteInv'
    BY DEF WriteInv
  <2>3. /\ op'.ino = i /\ op'.off = op.off /\ op'.cells = op.cells /\ op'.tot = op.tot + m
        /\ pc' \in {"write", "iupdate"}
    BY <1>7, <1>8 DEF Writing
  <2> QED
    BY <1>1, <1>3, <1>4, <1>8, <2>2, <2>3 DEF WriteInv
<1>18. CASE b \notin Blocks \/ i # ROOTINO
  <2>1. \A l \in 0..MAXFILE - 1 : MapIn(data, Views[ROOTINO], l) \in Blocks => MapIn(data, Views[ROOTINO], l) # b
    <3>1. CASE b \notin Blocks
      BY <3>1
    <3>2. CASE b \in Blocks /\ i # ROOTINO
      <4>1. MapIn(data, Views[i], bn) = b /\ ROOTINO \in Inums
        BY <1>2, <1>3, RootFacts
      <4> HIDE DEF bn, i
      <4> QED
        BY <1>3, <3>2, <4>1, DataBlock DEF BlockInv
    <3> QED
      BY <1>18, <3>1, <3>2
  <2>2. RootInv' /\ \A x \in RootOffs : RootCell(x)' = RootCell(x)
    BY <1>1, <1>2, <1>10, <2>1, Overwrite
  <2>3. EntryInv' /\ \A e : Fresh(e) => Fresh(e)'
    BY <1>1, <2>2, SameEntries
  <2>4. CreateInv'
    <3>1. pc' # "created"
      BY <1>8
    <3> SUFFICES ASSUME Writing', op'.ino = ROOTINO
                 PROVE  /\ op'.off > 0
                        /\ \E e \in FileEntry :
                             /\ op'.cells = <<e>>
                             /\ Fresh(e)'
                             /\ dinode'[e[2]].nlink = 1
                             /\ pc' = "iupdate" => CellIn(data', mem'[ROOTINO], op'.off) \in {None, e}
      BY <3>1 DEF CreateInv
    <3>2. /\ op'.off = op.off /\ op'.cells = op.cells /\ i = ROOTINO
      BY <1>7
    <3>3. PICK e \in FileEntry : op.cells = <<e>> /\ Fresh(e) /\ dinode[e[2]].nlink = 1
      BY <1>1, <3>2 DEF CreateInv, Writing
    <3>4. op.off > 0
      BY <1>1, <3>2 DEF CreateInv, Writing
    <3>5. CellIn(data', mem[ROOTINO], op.off) = None
      <4>1. n = 1
        BY <3>3
      <4>2. op.tot = 0 /\ op.off + op.tot = op.off
        <5> HIDE DEF n
        <5> QED
          BY <1>3, <4>1
      <4>3. b \notin Blocks /\ data' = data
        BY <1>2, <1>18, <3>2
      <4> QED
        BY <1>2, <3>2, <4>2, <4>3 DEF CellIn
    <3> QED
      BY <1>1, <2>3, <3>2, <3>3, <3>4, <3>5
  <2> QED
    BY <1>13, <1>14, <1>15, <1>16, <1>17, <2>2, <2>3, <2>4
<1>19. CASE b \in Blocks /\ i = ROOTINO
  <2>1. PICK e \in FileEntry : op.cells = <<e>> /\ Fresh(e) /\ dinode[e[2]].nlink = 1
    BY <1>1, <1>19 DEF CreateInv, Writing
  <2>2. op.off > 0
    BY <1>1, <1>19 DEF CreateInv, Writing
  <2>3. n = 1 /\ op.cells[1] = e
    BY <2>1
  <2>4. op.tot = 0 /\ op.off + op.tot = op.off /\ m = 1
    <3> HIDE DEF n
    <3> QED
      BY <1>2, <1>3, <2>3
  <2>5. at = op.off % BSIZE /\ bn = op.off \div BSIZE /\ MapIn(data, Views[ROOTINO], bn) = b
    BY <1>2, <1>3, <1>19, <2>4
  <2>6. \A k \in 0..BSIZE - 1 : data'[b][k] = IF k = at THEN e ELSE data[b][k]
    <3> SUFFICES ASSUME NEW k \in 0..BSIZE - 1
                 PROVE  data'[b][k] = IF k = at THEN e ELSE data[b][k]
      OBVIOUS
    <3>1. k \in at..at + m - 1 <=> k = at
      BY <1>2, <2>4
    <3>2. k = at => op.tot + k - at + 1 = 1
      BY <1>2, <2>4
    <3> QED
      BY <1>2, <1>19, <2>3, <3>1, <3>2
  <2>7. \A l \in 0..MAXFILE - 1 : MapIn(data, Views[ROOTINO], l) = b => l = bn
    <3>1. ROOTINO \in Inums /\ bn \in 0..MAXFILE - 1
      BY <1>3, RootFacts
    <3> HIDE DEF bn
    <3> QED
      BY <1>19, <2>5, <3>1, DataBlock DEF BlockInv
  <2>8. ASSUME NEW x \in RootOffs PROVE RootCell(x)' = IF x = op.off THEN e ELSE RootCell(x)
    <3> DEFINE c == MapIn(data, dinode[ROOTINO], x \div BSIZE)
    <3>1. /\ x \in Nat /\ x \div BSIZE \in 0..MAXFILE - 1 /\ x % BSIZE \in 0..BSIZE - 1
          /\ c # 0 /\ MapIn(data, Views[ROOTINO], x \div BSIZE) = c /\ ROOTINO \in Inums
      BY RootFacts
    <3>2. MapIn(data', dinode[ROOTINO], x \div BSIZE) = c
      BY <1>11, <3>1 DEF Kept
    <3>3. RootCell(x) = IF c \in Blocks THEN data[c][x % BSIZE] ELSE None
      BY DEF RootCell, CellIn
    <3>4. RootCell(x)' = IF c \in Blocks THEN data'[c][x % BSIZE] ELSE None
      BY <1>1, <3>2 DEF RootCell, CellIn
    <3>5. CASE c = b
      <4>1. x \div BSIZE = bn
        BY <2>7, <3>1, <3>5
      <4>2. x % BSIZE = at => x = op.off
        BY <1>3, <2>5, <3>1, <4>1, SamePlace
      <4>3. x = op.off => x % BSIZE = at
        BY <2>5
      <4> HIDE DEF c
      <4> QED
        BY <1>19, <2>6, <3>1, <3>3, <3>4, <3>5, <4>2, <4>3
    <3>6. CASE c # b
      <4>1. x # op.off
        BY <2>5, <3>1, <3>6
      <4> HIDE DEF c
      <4> QED
        BY <1>2, <3>3, <3>4, <3>6, <4>1
    <3> QED
      BY <3>5, <3>6
  <2>9. e \in DirCell /\ e # <<".", ROOTINO>>
    BY CellKinds DEF DirCell
  <2>10. RootInv'
    <3>1. data'[1][0] = <<".", ROOTINO>>
      <4>1. MapIn(data, Views[ROOTINO], 0) = 1 /\ 1 \in Blocks /\ 0 \in 0..MAXFILE - 1
        BY RootFacts
      <4>2. CASE b = 1
        <5>1. bn = 0
          BY <2>7, <4>1, <4>2
        <5>2. at # 0
          <6>1. 0 \div BSIZE = 0 /\ 0 % BSIZE = 0
            BY FsAssumption
          <6>2. op.off \in Nat /\ op.off # 0 /\ 0 \in Nat
            BY <1>3, <2>2
          <6> QED
            BY <2>5, <5>1, <6>1, <6>2, SamePlace
        <5>3. data[1][0] = <<".", ROOTINO>> /\ 0 \in 0..BSIZE - 1
          BY FsAssumption DEF RootInv
        <5> QED
          BY <2>6, <4>2, <5>2, <5>3
      <4>3. CASE b # 1
        BY <1>2, <4>1, <4>3 DEF RootInv
      <4> QED
        BY <4>2, <4>3
    <3>2. ASSUME NEW l \in 0..MAXFILE - 1, NEW k \in 0..BSIZE - 1, MapIn(data', Views[ROOTINO], l) \in Blocks
          PROVE  data'[MapIn(data', Views[ROOTINO], l)][k] \in DirCell
      <4> DEFINE c == MapIn(data, Views[ROOTINO], l)
      <4>1. MapIn(data', Views[ROOTINO], l) = c /\ c \in Blocks
        BY <1>11, <3>2, RootFacts
      <4>2. data[c][k] \in DirCell
        BY <4>1 DEF RootInv
      <4> HIDE DEF c
      <4>3. data'[c][k] \in DirCell
        BY <1>2, <2>6, <2>9, <4>1, <4>2
      <4> QED
        BY <4>1, <4>3
    <3> QED
      BY <1>1, <1>12, <3>1, <3>2 DEF RootInv
  <2>11. RootOffs' = RootOffs
    BY <1>1 DEF RootOffs
  <2>12. EntryInv'
    BY <1>1, <2>1, <2>8, <2>9, <2>11 DEF EntryInv, Fresh
  <2>13. CreateInv'
    <3>1. pc' # "created"
      BY <1>8
    <3> SUFFICES ASSUME Writing', op'.ino = ROOTINO
                 PROVE  /\ op'.off > 0
                        /\ \E f \in FileEntry :
                             /\ op'.cells = <<f>>
                             /\ Fresh(f)'
                             /\ dinode'[f[2]].nlink = 1
                             /\ pc' = "iupdate" => CellIn(data', mem'[ROOTINO], op'.off) \in {None, f}
      BY <3>1 DEF CreateInv
    <3>2. /\ op'.off = op.off /\ op'.cells = op.cells
      BY <1>7
    <3>3. op.off + 1 > ip.size
      <4> HIDE DEF ip, n
      <4> QED
        BY <1>8, <2>3, <2>4 DEF Writing
    <3>4. op.off \notin RootOffs
      <4>1. ip.size = dinode[ROOTINO].size
        BY <1>3, <1>19 DEF CopyInv, Ahead
      <4> HIDE DEF ip
      <4> QED
        BY <1>3, <1>5, <3>3, <4>1 DEF RootOffs
    <3>5. Fresh(e)'
      BY <1>1, <2>1, <2>8, <2>11, <3>4 DEF Fresh
    <3>6. CellIn(data', mem[ROOTINO], op.off) = e
      <4>1. MapIn(data', mem[ROOTINO], bn) = b
        BY <1>3, <1>11, <1>19, <2>5
      <4> QED
        BY <1>2, <1>19, <2>5, <2>6, <4>1 DEF CellIn
    <3> QED
      BY <1>1, <2>1, <2>2, <3>2, <3>5, <3>6
  <2> QED
    BY <1>13, <1>14, <1>15, <1>16, <1>17, <2>10, <2>12, <2>13
<1> QED
  BY <1>18, <1>19

LEMMA IupdateStep ==
  ASSUME IInv, iupdate
  PROVE  IInv'
<1> USE DEF IInv
<1> DEFINE i == op.ino
           ip == mem[i]
           jp == [ip EXCEPT !.size = op.off + Len(op.cells)]
<1>1. /\ pc = "iupdate" /\ pc' = "idle" /\ UNCHANGED <<bitmap, data, crashes>>
      /\ mem' = [mem EXCEPT ![i] = jp] /\ dinode' = [dinode EXCEPT ![i] = jp]
  BY DEF iupdate, Running, Ip
<1>2. /\ op \in Request /\ ip # None /\ op.off <= ip.size /\ op.off + Len(op.cells) <= MAXFILE * BSIZE
      /\ op.tot = Len(op.cells) /\ op.off + op.tot > ip.size
      /\ Filled(data, ip, op.off + op.tot)
  BY <1>1 DEF WriteInv, TypeInv, Writing
<1>3. /\ i \in Inums /\ Len(op.cells) \in Nat /\ op.off \in Nat
  BY <1>2, LenProperties DEF Request
<1>4. ip \in Inode /\ Views[i] = ip /\ Ahead(ip, dinode[i]) /\ dinode[i] \in Inode
  BY <1>2, <1>3, ViewFacts
<1>5. ip.nlink > 0
  BY <1>1, <1>2, <1>3 DEF CopyInv
<1>6. ip.size \in Nat
  <2>1. MAXFILE * BSIZE \in Nat
    BY FsAssumption DEF MAXFILE
  <2> QED
    BY <1>4, <2>1 DEF Inode
<1>7. /\ jp \in Inode /\ jp # None /\ jp.type = dinode[i].type /\ jp.nlink = dinode[i].nlink
      /\ jp.addrs = ip.addrs /\ jp.size = op.off + op.tot
  <2>1. op.off + Len(op.cells) \in 0..MAXFILE * BSIZE
    BY <1>2, <1>3, FsAssumption DEF MAXFILE
  <2>2. jp \in Inode /\ jp.type = ip.type /\ jp.nlink = ip.nlink /\ jp.addrs = ip.addrs /\ jp.size = op.off + op.tot
    BY <1>2, <1>4, <2>1 DEF Inode
  <2> QED
    BY <1>4, <2>2, NoneAssumption DEF Ahead
<1> HIDE DEF jp
<1>8. /\ mem' \in [Inums -> {None} \cup Inode] /\ dinode' \in [Inums -> Inode]
      /\ mem'[i] = jp /\ dinode'[i] = jp
      /\ \A j \in Inums : j # i => mem'[j] = mem[j] /\ dinode'[j] = dinode[j]
  BY <1>1, <1>3, <1>7 DEF TypeInv
<1>9. Views'[i] = jp /\ \A j \in Inums : j # i => Views'[j] = Views[j]
  BY <1>3, <1>7, <1>8 DEF Views, ilock
<1>10. /\ \A k : SlotIn(data, jp, k) = SlotIn(data, ip, k)
       /\ \A bn : MapIn(data, jp, bn) = MapIn(data, ip, bn)
       /\ \A x : CellIn(data, jp, x) = CellIn(data, ip, x)
  BY <1>7 DEF SlotIn, MapIn, CellIn
<1>11. \A j \in Inums : \A k \in Slots : SlotIn(data', Views'[j], k) = SlotIn(data, Views[j], k)
  BY <1>1, <1>4, <1>9, <1>10
<1>12. BlockInv'
  BY <1>1, <1>11 DEF BlockInv, Covered, Apart
<1>13. TypeInv'
  BY <1>1, <1>8 DEF TypeInv, Writing
<1>14. CopyInv'
  <2>1. Ahead(jp, jp)
    BY DEF Ahead
  <2>2. jp.nlink > 0 /\ (jp.type = T_NONE => jp.nlink = 0)
    BY <1>3, <1>4, <1>5, <1>7 DEF Ahead, CopyInv
  <2> QED
    BY <1>1, <1>8, <2>1, <2>2 DEF CopyInv, Writing
<1>15. HoleInv'
  <2>1. Filled(data, jp, jp.size)
    BY <1>2, <1>7, <1>10 DEF Filled
  <2> QED
    BY <1>1, <1>8, <2>1 DEF HoleInv
<1>16. WriteInv' /\ CreateInv'
  BY <1>1 DEF WriteInv, CreateInv, Writing
<1>17. ROOTINO \in Inums
  BY RootFacts
<1>18. RootInv'
  <2>1. /\ dinode'[ROOTINO].type = T_DIR /\ dinode'[ROOTINO].nlink = 1
        /\ dinode'[ROOTINO].addrs[0] = 1 /\ dinode'[ROOTINO].size > 0
    <3>1. CASE i = ROOTINO
      <4>1. 0 \in 0..NDIRECT
        BY FsAssumption
      <4>2. ip.addrs[0] = 1
        BY <1>4, <3>1, <4>1 DEF Ahead, RootInv
      <4>3. ip.size > 0
        BY <1>4, <3>1 DEF Ahead, RootInv
      <4>4. jp.size > 0
        BY <1>2, <1>3, <1>6, <1>7, <4>3
      <4> QED
        BY <1>7, <1>8, <3>1, <4>2, <4>4 DEF RootInv
    <3>2. CASE i # ROOTINO
      BY <1>8, <1>17, <3>2 DEF RootInv
    <3> QED
      BY <3>1, <3>2
  <2>2. \A bn : MapIn(data, Views'[ROOTINO], bn) = MapIn(data, Views[ROOTINO], bn)
    BY <1>4, <1>9, <1>10, <1>17
  <2> QED
    BY <1>1, <2>1, <2>2 DEF RootInv
<1>19. \A x \in RootOffs : RootCell(x)' = RootCell(x)
  <2>1. CASE i = ROOTINO
    <3> SUFFICES ASSUME NEW x \in RootOffs PROVE CellIn(data, jp, x) = CellIn(data, dinode[ROOTINO], x)
      BY <1>1, <1>8, <2>1 DEF RootCell
    <3>1. MapIn(data, ip, x \div BSIZE) = MapIn(data, dinode[ROOTINO], x \div BSIZE)
      BY <1>4, <2>1, RootFacts
    <3> QED
      BY <1>10, <3>1 DEF CellIn
  <2>2. CASE i # ROOTINO
    BY <1>1, <1>8, <1>17, <2>2 DEF RootCell
  <2> QED
    BY <2>1, <2>2
<1>20. \A j \in Inums : dinode'[j].type = dinode[j].type /\ dinode'[j].nlink = dinode[j].nlink
  BY <1>7, <1>8
<1>21. \A e \in FileEntry : e[2] \in Inums
  BY DEF FileEntry
<1>22. EntryInv'
  <2>1. CASE i # ROOTINO
    <3>1. dinode'[ROOTINO].size = dinode[ROOTINO].size
      BY <1>8, <1>17, <2>1
    <3> QED
      BY <1>19, <1>20, <1>21, <3>1, SameEntries
  <2>2. CASE i = ROOTINO
    <3>1. PICK e \in FileEntry : /\ op.cells = <<e>> /\ Fresh(e) /\ dinode[e[2]].nlink = 1
                                 /\ CellIn(data, ip, op.off) \in {None, e}
      BY <1>1, <2>2 DEF CreateInv, Writing
    <3>2. Len(op.cells) = 1
      BY <3>1
    <3>3. ip.size = dinode[ROOTINO].size
      BY <1>4, <2>2 DEF Ahead
    <3>4. op.off = ip.size /\ jp.size = ip.size + 1
      BY <1>2, <1>3, <1>6, <1>7, <3>2
    <3>5. PICK y \in Nat : y = op.off
      BY <1>3
    <3>6. RootOffs' = RootOffs \cup {y} /\ y \notin RootOffs
      BY <1>6, <1>8, <2>2, <3>3, <3>4, <3>5 DEF RootOffs
    <3>8. RootCell(y)' \in {None, e}
      <4>1. CellIn(data, ip, y) \in {None, e}
        BY <3>1, <3>5
      <4>2. CellIn(data, jp, y) \in {None, e}
        BY <1>10, <4>1
      <4>3. RootCell(y)' = CellIn(data, jp, y)
        BY <1>1, <1>8, <2>2 DEF RootCell
      <4> QED
        BY <4>2, <4>3
    <3>7. None \notin FileEntry /\ None # <<".", ROOTINO>> /\ e # <<".", ROOTINO>>
      BY CellKinds DEF DirCell
    <3> QED
      BY <1>19, <1>20, <1>21, <3>1, <3>6, <3>7, <3>8 DEF EntryInv, Fresh
  <2> QED
    BY <2>1, <2>2
<1> QED
  BY <1>12, <1>13, <1>14, <1>15, <1>16, <1>18, <1>22
-----------------------------------------------------------------------------
(***************************************************************************)
(* create.                                                                 *)
(***************************************************************************)

\* An inode that is free or new takes no part in the blocks or the entries.
LEMMA InodeChange ==
  ASSUME IInv, NEW i \in Inums, NEW ip \in Inode, i # ROOTINO,
         dinode' = [dinode EXCEPT ![i] = ip], data' = data,
         Views'[i] = ip, \A j \in Inums : j # i => Views'[j] = Views[j],
         \A k \in Slots : SlotIn(data, ip, k) \in {0, SlotIn(data, Views[i], k)},
         \A x \in RootOffs : RootCell(x) \in FileEntry => RootCell(x)[2] # i
  PROVE  /\ Apart(data', Views') /\ Covered(bitmap, data', Views')
         /\ RootInv' /\ EntryInv' /\ RootOffs' = RootOffs
         /\ \A x : RootCell(x)' = RootCell(x)
         /\ dinode' \in [Inums -> Inode] /\ dinode'[i] = ip
         /\ \A j \in Inums : j # i => dinode'[j] = dinode[j]
<1> USE DEF IInv
<1>1. /\ dinode' \in [Inums -> Inode] /\ dinode'[i] = ip
      /\ \A j \in Inums : j # i => dinode'[j] = dinode[j]
  BY DEF TypeInv
<1>2. ROOTINO \in Inums
  BY RootFacts
<1>3. dinode'[ROOTINO] = dinode[ROOTINO] /\ Views'[ROOTINO] = Views[ROOTINO]
  BY <1>1, <1>2
<1>4. RootOffs' = RootOffs /\ \A x : RootCell(x)' = RootCell(x)
  BY <1>3 DEF RootOffs, RootCell
<1>5. \A j \in Inums : \A k \in Slots :
        SlotIn(data', Views'[j], k) \in {0, SlotIn(data, Views[j], k)}
  BY Zenon
<1>6. 0 \notin Blocks
  BY FsAssumption DEF Blocks
<1>7. Covered(bitmap, data', Views')
  BY <1>5, <1>6 DEF BlockInv, Covered
<1>8. Apart(data', Views')
  <2>1. \A j \in Inums : \A k \in Slots : SlotIn(data', Views'[j], k) \in Blocks =>
          SlotIn(data', Views'[j], k) = SlotIn(data, Views[j], k)
    BY <1>5, <1>6
  <2> QED
    BY <2>1 DEF BlockInv, Apart
<1>9. RootInv'
  BY <1>3 DEF RootInv
<1>10. EntryInv'
  <2>1. \A e \in FileEntry : e[2] \in Inums
    BY DEF FileEntry
  <2> QED
    BY <1>1, <1>3, <1>4, <2>1, SameEntries
<1> QED
  BY <1>1, <1>4, <1>7, <1>8, <1>9, <1>10

LEMMA CreateStep ==
  ASSUME IInv, NEW name \in Names, NEW type \in {T_FILE, T_DEV}, create(name, type),
         pc' # "fault"
  PROVE  IInv'
<1> USE DEF IInv
<1> DEFINE dp == ilock(ROOTINO)  np == NewInode(type, 0)
<1>1. /\ pc = "idle" /\ ~dirlookup(dp, name)
      /\ UNCHANGED <<bitmap, data, crashes>>
  BY DEF create, Running
<1>2. ROOTINO \in Inums /\ dp = dinode[ROOTINO]
  BY <1>1, RootFacts DEF CopyInv, ilock, Writing
<1>3. CASE /\ FreeInums # {} /\ ~\E k \in DOMAIN Content(dp) : Content(dp)[k] = None
           /\ dinode' = [dinode EXCEPT ![Min(FreeInums)] = np]
           /\ mem' = [mem EXCEPT ![ROOTINO] = dp]
           /\ op' = <<name, Min(FreeInums)>> /\ pc' = "created"
  <2>1. PICK i \in Inums : i = Min(FreeInums) /\ dinode[i].type = T_NONE
    <3>1. FreeInums \subseteq Nat
      BY FsAssumption DEF FreeInums, Inums
    <3>2. Min(FreeInums) \in FreeInums
      BY <1>3, <3>1, MinMember
    <3> QED
      BY <3>2 DEF FreeInums
  <2>2. i # ROOTINO /\ mem[i] = None
    <3>1. i # ROOTINO
      BY <2>1 DEF RootInv, T_NONE, T_DIR
    <3>2. ASSUME mem[i] # None PROVE FALSE
      <4>1. mem[i] = dinode[i] /\ mem[i].nlink > 0 /\ dinode[i].nlink = 0
        BY <1>1, <2>1, <3>2 DEF CopyInv, Writing
      <4> QED
        BY <4>1
    <3> QED
      BY <3>1, <3>2
  <2>3. /\ np \in Inode /\ np.type = type /\ np.nlink = 0 /\ np.size = 0
        /\ \A d : \A k \in Slots : SlotIn(d, np, k) = 0
    BY NewInodeFacts
  <2> HIDE DEF np
  <2>4. /\ mem' \in [Inums -> {None} \cup Inode] /\ mem'[ROOTINO] = dp /\ dp # None /\ dp \in Inode
        /\ \A j \in Inums : j # ROOTINO => mem'[j] = mem[j]
    BY <1>2, <1>3, LoadCopy
  <2>5. dinode'[i] = np /\ \A j \in Inums : j # i => dinode'[j] = dinode[j]
    BY <1>3, <2>1 DEF TypeInv
  <2>6. Views'[i] = np /\ \A j \in Inums : j # i => Views'[j] = Views[j]
    <3>1. \A j \in Inums : Views'[j] = IF mem'[j] = None THEN dinode'[j] ELSE mem'[j]
      BY DEF Views, ilock
    <3>2. \A j \in Inums : Views[j] = IF mem[j] = None THEN dinode[j] ELSE mem[j]
      BY DEF Views, ilock
    <3>3. Views[ROOTINO] = dp
      BY <1>2 DEF Views
    <3>4. Views'[ROOTINO] = dp
      BY <1>2, <2>4, <3>1
    <3> HIDE DEF dp
    <3> QED
      BY <2>1, <2>2, <2>4, <2>5, <3>1, <3>2, <3>3, <3>4
  <2>7. \A x \in RootOffs : RootCell(x) \in FileEntry => RootCell(x)[2] # i
    BY <2>1 DEF EntryInv, T_NONE, T_FILE, T_DEV
  <2>8. /\ Apart(data', Views') /\ Covered(bitmap, data', Views')
        /\ RootInv' /\ EntryInv' /\ RootOffs' = RootOffs
        /\ \A x : RootCell(x)' = RootCell(x)
        /\ dinode' \in [Inums -> Inode]
    <3>1. \A k \in Slots : SlotIn(data, np, k) \in {0, SlotIn(data, Views[i], k)}
      BY <2>3
    <3>2. dinode' = [dinode EXCEPT ![i] = np] /\ data' = data
      BY <1>1, <1>3, <2>1
    <3> QED
      BY <2>2, <2>3, <2>6, <2>7, <3>1, <3>2, InodeChange
  <2>9. TypeInv' /\ BlockInv' /\ WriteInv'
    BY <1>1, <1>3, <2>4, <2>8 DEF TypeInv, BlockInv, WriteInv, Writing
  <2>10. CopyInv'
    <3>1. Ahead(dp, dp)
      BY DEF Ahead
    <3>2. \A j \in Inums : mem'[j] # None =>
            mem'[j] = dinode'[j] /\ Ahead(mem'[j], dinode'[j]) /\ mem'[j].nlink > 0
      <4> SUFFICES ASSUME NEW j \in Inums, mem'[j] # None
                   PROVE  mem'[j] = dinode'[j] /\ Ahead(mem'[j], dinode'[j]) /\ mem'[j].nlink > 0
        OBVIOUS
      <4>1. CASE j = ROOTINO
        BY <1>2, <2>2, <2>4, <2>5, <3>1, <4>1 DEF RootInv
      <4>2. CASE j # ROOTINO
        BY <1>1, <2>2, <2>4, <2>5, <4>2 DEF CopyInv, Writing
      <4> QED
        BY <4>1, <4>2
    <3>3. \A j \in Inums : dinode'[j].type = T_NONE => dinode'[j].nlink = 0
      BY <2>3, <2>5 DEF CopyInv
    <3> QED
      BY <3>2, <3>3 DEF CopyInv
  <2>11. HoleInv'
    <3>1. Filled(data, np, np.size)
      BY <2>3 DEF Filled
    <3>2. \A j \in Inums : Filled(data, dinode'[j], dinode'[j].size)
      BY <2>5, <3>1 DEF HoleInv
    <3>3. Filled(data, dp, dp.size)
      BY <1>2 DEF HoleInv
    <3>4. \A j \in Inums : mem'[j] # None => Filled(data, mem'[j], mem'[j].size)
      BY <2>4, <3>3 DEF HoleInv
    <3> QED
      BY <1>1, <3>2, <3>4 DEF HoleInv
  <2>12. CreateInv'
    <3>1. name # "."
      <4>1. 0 \in RootOffs /\ RootCell(0) = <<".", ROOTINO>> /\ <<".", ROOTINO>> \notin {Nil, None}
        BY RootFacts, CellKinds DEF DirCell
      <4>2. <<".", ROOTINO>> \in Entries(dp)
        BY <1>2, <4>1, EntryOf
      <4> QED
        BY <1>1, <4>2 DEF dirlookup
    <3>2. <<name, i>> \in FileEntry
      BY <2>1, <3>1 DEF FileEntry
    <3>3. \A x \in RootOffs : RootCell(x) \in FileEntry => RootCell(x)[1] # name
      <4> SUFFICES ASSUME NEW x \in RootOffs, RootCell(x) \in FileEntry, RootCell(x)[1] = name
                   PROVE  FALSE
        OBVIOUS
      <4>1. RootCell(x) \notin {Nil, None}
        BY CellKinds DEF DirCell
      <4>2. RootCell(x) \in Entries(dinode[ROOTINO])
        BY <4>1, EntryOf
      <4>3. ~\E e \in Entries(dinode[ROOTINO]) : e[1] = name
        BY <1>1, <1>2 DEF dirlookup
      <4> QED
        BY <4>2, <4>3
    <3>4. Fresh(<<name, i>>)'
      <4>1. dinode'[i].type \in {T_FILE, T_DEV}
        BY <2>3, <2>5
      <4> QED
        BY <2>7, <2>8, <3>3, <4>1 DEF Fresh
    <3>5. ASSUME NEW x \in RootOffs PROVE RootCell(x) # None
      <4>1. dp.size \in Nat
        BY <1>2, RootFacts, FsAssumption DEF MAXFILE
      <4>2. x + 1 \in 1..dp.size /\ (x + 1) - 1 = x
        BY <1>2, <4>1 DEF RootOffs
      <4>3. DOMAIN Content(dp) = 1..dp.size /\ Content(dp)[x + 1] = CellAt(dp, x)
        BY <4>2 DEF Content
      <4> QED
        BY <1>2, <1>3, <4>2, <4>3, Reading DEF RootCell
    <3>6. op' = <<name, i>> /\ op'[2] = i
      BY <1>3, <2>1
    <3>7. pc' = "created" /\ mem'[i] = None /\ mem'[ROOTINO] # None
      BY <1>3, <2>1, <2>2, <2>4
    <3>8. \A x \in RootOffs' : RootCell(x)' # None
      BY <2>8, <3>5
    <3>9. (Fresh(op))'
      BY <3>4, <3>6 DEF Fresh
    <3> QED
      BY <3>2, <3>6, <3>7, <3>8, <3>9 DEF CreateInv, Writing
  <2> QED
    BY <2>8, <2>9, <2>10, <2>11, <2>12
<1> QED
  BY <1>3 DEF create

\* While every entry is taken, the inode that create has taken is one that no
\* entry names: the root directory has room for one more.
LEMMA RootRoom ==
  ASSUME IInv, pc = "created", \A x \in RootOffs : RootCell(x) # Nil
  PROVE  dinode[ROOTINO].size + 1 <= MAXFILE * BSIZE
<1> USE DEF IInv
<1> DEFINE size == dinode[ROOTINO].size
           S == RootEntries..size - 1
           T == (Inums \ {ROOTINO}) \ {op[2]}
           f == [x \in S |-> RootCell(x)[2]]
<1>1. size \in Nat
  BY RootFacts, FsAssumption DEF MAXFILE
<1>2. op \in FileEntry /\ Fresh(op) /\ \A x \in RootOffs : RootCell(x) # None
  BY DEF CreateInv
<1>3. op[2] \in Inums /\ op[2] # ROOTINO /\ ROOTINO \in Inums
  BY <1>2, RootFacts DEF FileEntry, Fresh, RootInv, T_DIR, T_FILE, T_DEV
<1>4. ASSUME NEW x \in S PROVE x \in RootOffs /\ RootCell(x) \in FileEntry /\ RootCell(x)[2] \in T
  <2>1. x \in RootOffs /\ ~(x < RootEntries)
    BY <1>1, FsAssumption DEF RootOffs
  <2>2. RootCell(x) \in DirCell \cup {None} /\ RootCell(x) # None /\ RootCell(x) # Nil
    BY <1>2, <2>1, RootFacts
  <2>3. RootCell(x) # <<".", ROOTINO>>
    BY <2>1 DEF EntryInv
  <2>4. RootCell(x) \in FileEntry
    BY <2>2, <2>3 DEF DirCell
  <2>5. RootCell(x)[2] \in Inums /\ RootCell(x)[2] # op[2]
    BY <1>2, <2>1, <2>4 DEF FileEntry, Fresh
  <2>6. RootCell(x)[2] # ROOTINO
    BY <2>1, <2>4 DEF EntryInv, RootInv, T_DIR, T_FILE, T_DEV
  <2> QED
    BY <2>1, <2>4, <2>5, <2>6
<1>5. f \in Injection(S, T)
  <2>1. f \in [S -> T] /\ \A x \in S : f[x] = RootCell(x)[2]
    BY <1>4
  <2>2. ASSUME NEW x \in S, NEW y \in S, f[x] = f[y] PROVE x = y
    <3>1. RootCell(x)[2] = RootCell(y)[2]
      BY <2>1, <2>2
    <3>2. x \in RootOffs /\ y \in RootOffs /\ RootCell(x) \in FileEntry /\ RootCell(y) \in FileEntry
      BY <1>4
    <3> HIDE DEF S, f
    <3> QED
      BY <3>1, <3>2 DEF EntryInv
  <2> QED
    BY <2>1, <2>2 DEF Injection, IsInjective
<1> HIDE DEF f
<1>6. IsFiniteSet(Inums) /\ Cardinality(Inums) = NINODES - 1
  <2>1. NINODES \in Nat /\ NINODES > 1 /\ 1 \in Int /\ NINODES - 1 \in Int
    BY FsAssumption
  <2>2. /\ IsFiniteSet(1..NINODES - 1)
        /\ Cardinality(1..NINODES - 1) = IF 1 > NINODES - 1 THEN 0 ELSE NINODES - 1 - 1 + 1
    BY <2>1, FS_Interval, Zenon
  <2> QED
    BY <2>1, <2>2 DEF Inums
<1>7. IsFiniteSet(T) /\ Cardinality(T) = NINODES - 3
  <2>1. IsFiniteSet(Inums \ {ROOTINO}) /\ Cardinality(Inums \ {ROOTINO}) = NINODES - 2
    BY <1>3, <1>6, FS_RemoveElement, FsAssumption
  <2> DEFINE R == Inums \ {ROOTINO}
  <2>2. op[2] \in R /\ T = R \ {op[2]}
    BY <1>3
  <2>3. IsFiniteSet(R) /\ Cardinality(R) = NINODES - 2
    BY <2>1
  <2> HIDE DEF R, T
  <2>4. IsFiniteSet(T) /\ Cardinality(T) = Cardinality(R) - 1
    BY <2>2, <2>3, FS_RemoveElement
  <2> QED
    BY <2>3, <2>4, FsAssumption
<1>8. Cardinality(S) = IF RootEntries > size - 1 THEN 0 ELSE size - 1 - RootEntries + 1
  <2>1. RootEntries \in Int /\ size - 1 \in Int
    BY <1>1, FsAssumption
  <2> QED
    BY <2>1, FS_Interval, Zenon
<1>9. Cardinality(S) <= Cardinality(T)
  BY <1>5, <1>7, FS_Injection
<1>10. NINODES >= 3
  BY <1>3, FsAssumption DEF Inums, ROOTINO
<1>11. size + 1 <= RootEntries + NINODES - 2
  <2> HIDE DEF size, S, T
  <2> QED
    BY <1>1, <1>7, <1>8, <1>9, <1>10, FsAssumption
<1>12. MAXFILE * BSIZE \in Nat
  BY FsAssumption DEF MAXFILE
<1> QED
  BY <1>1, <1>11, <1>12, FsAssumption

\* Where dirlink puts the entry.
LEMMA FreeSlotFacts ==
  ASSUME IInv, pc = "created"
  PROVE  /\ mem[ROOTINO] = dinode[ROOTINO]
         /\ FreeSlot(mem[ROOTINO]) \in Nat /\ FreeSlot(mem[ROOTINO]) > 0
         /\ FreeSlot(mem[ROOTINO]) <= dinode[ROOTINO].size
         /\ FreeSlot(mem[ROOTINO]) + 1 <= MAXFILE * BSIZE
<1> USE DEF IInv
<1> DEFINE dp == dinode[ROOTINO]
           size == dp.size
           F == {size} \cup {off \in 0..size - 1 : CellAt(dp, off) = Nil}
           y == Min(F)
<1>1. size \in Nat /\ size > 0 /\ size <= MAXFILE * BSIZE /\ MAXFILE * BSIZE \in Nat /\ ROOTINO \in Inums
  BY RootFacts, FsAssumption DEF MAXFILE, RootInv
<1>2. mem[ROOTINO] = dp
  BY <1>1 DEF CopyInv, CreateInv, Writing
<1>3. FreeSlot(mem[ROOTINO]) = y
  BY <1>2 DEF FreeSlot
<1>4. \A off \in RootOffs : CellAt(dp, off) = RootCell(off)
  BY Reading DEF RootCell
<1>5. RootOffs = 0..size - 1
  BY DEF RootOffs
<1>6. y \in F /\ \A z \in F : y <= z
  <2>1. F \subseteq Nat /\ F # {}
    BY <1>1
  <2> QED
    BY <2>1, MinMember
<1>7. 0 \notin F
  <2>1. RootCell(0) # Nil
    BY RootFacts, CellKinds
  <2> QED
    BY <1>1, <1>4, <1>5, <2>1
<1>8. y \in Nat /\ y > 0 /\ y <= size
  <2>1. y \in 0..size
    BY <1>1, <1>6
  <2>2. y # 0
    BY <1>6, <1>7
  <2> HIDE DEF y, F
  <2> QED
    BY <1>1, <2>1, <2>2
<1>9. y + 1 <= MAXFILE * BSIZE
  <2>1. CASE y < size
    <3> HIDE DEF y
    <3> QED
      BY <1>1, <1>8, <2>1
  <2>2. CASE y = size
    <3>1. ASSUME NEW x \in RootOffs, RootCell(x) = Nil PROVE FALSE
      <4>1. x \in F /\ x < size
        BY <1>1, <1>4, <1>5, <3>1
      <4>2. y <= x /\ x \in Nat
        BY <1>1, <1>5, <1>6, <4>1
      <4> HIDE DEF y, F
      <4> QED
        BY <1>1, <2>2, <4>1, <4>2
    <3>2. size + 1 <= MAXFILE * BSIZE
      BY <3>1, RootRoom
    <3> QED
      BY <2>2, <3>2
  <2> HIDE DEF y
  <2> QED
    BY <1>1, <1>8, <2>1, <2>2
<1> QED
  BY <1>2, <1>3, <1>8, <1>9

LEMMA CreateInodeStep ==
  ASSUME IInv, createInode
  PROVE  IInv'
<1> USE DEF IInv
<1>1. /\ pc = "created" /\ pc' = "write" /\ UNCHANGED <<bitmap, data, crashes>>
      /\ mem' = [mem EXCEPT ![op[2]] = [ilock(op[2]) EXCEPT !.nlink = 1]]
      /\ dinode' = [dinode EXCEPT ![op[2]] = [ilock(op[2]) EXCEPT !.nlink = 1]]
      /\ op' = Write(ROOTINO, FreeSlot(mem[ROOTINO]), <<op>>)
  BY DEF createInode, Running
<1>2. PICK e \in FileEntry : e = op
  BY <1>1 DEF CreateInv
<1>3. PICK i \in Inums : i = e[2]
  BY DEF FileEntry
<1>4. PICK y \in Nat : y = FreeSlot(mem[ROOTINO])
  BY <1>1, FreeSlotFacts
<1>5. PICK ip : ip = [dinode[i] EXCEPT !.nlink = 1]
  OBVIOUS
<1>6. /\ Fresh(e) /\ mem[i] = None /\ mem[ROOTINO] # None /\ dinode[i] \in Inode
      /\ dinode[i].type \in {T_FILE, T_DEV}
  <2>1. Fresh(op) /\ mem[op[2]] = None /\ mem[ROOTINO] # None
    BY <1>1 DEF CreateInv
  <2> QED
    BY <1>2, <1>3, <2>1, ViewFacts DEF Fresh
<1>7. ROOTINO \in Inums /\ i # ROOTINO
  BY <1>6, RootFacts DEF RootInv, T_DIR, T_FILE, T_DEV
<1>8. /\ ip \in Inode /\ ip.type = dinode[i].type /\ ip.nlink = 1 /\ ip.size = dinode[i].size
      /\ ip.addrs = dinode[i].addrs /\ ip # None
  <2>1. /\ ip \in Inode /\ ip.type = dinode[i].type /\ ip.nlink = 1 /\ ip.size = dinode[i].size
        /\ ip.addrs = dinode[i].addrs
    BY <1>5, <1>6 DEF Inode
  <2> QED
    BY <2>1, NoneAssumption
<1>9. /\ mem' = [mem EXCEPT ![i] = ip] /\ dinode' = [dinode EXCEPT ![i] = ip]
      /\ op' = Write(ROOTINO, y, <<e>>)
  <2>1. ilock(i) = dinode[i]
    BY <1>6 DEF ilock
  <2> QED
    BY <1>1, <1>2, <1>3, <1>4, <1>5, <2>1
<1>10. /\ mem' \in [Inums -> {None} \cup Inode] /\ mem'[i] = ip
       /\ \A j \in Inums : j # i => mem'[j] = mem[j]
  BY <1>8, <1>9 DEF TypeInv
<1>11. dinode'[i] = ip /\ \A j \in Inums : j # i => dinode'[j] = dinode[j]
  BY <1>9 DEF TypeInv
<1>12. Views'[i] = ip /\ \A j \in Inums : j # i => Views'[j] = Views[j]
  <2>1. \A j \in Inums : Views'[j] = IF mem'[j] = None THEN dinode'[j] ELSE mem'[j]
    BY DEF Views, ilock
  <2>2. \A j \in Inums : Views[j] = IF mem[j] = None THEN dinode[j] ELSE mem[j]
    BY DEF Views, ilock
  <2> QED
    BY <1>8, <1>10, <1>11, <2>1, <2>2
<1>13. /\ Apart(data', Views') /\ Covered(bitmap, data', Views')
       /\ RootInv' /\ EntryInv' /\ RootOffs' = RootOffs
       /\ \A x : RootCell(x)' = RootCell(x)
       /\ dinode' \in [Inums -> Inode]
  <2>1. \A k \in Slots : SlotIn(data, ip, k) \in {0, SlotIn(data, Views[i], k)}
    <3>1. Views[i] = dinode[i]
      BY <1>6, ViewFacts
    <3> QED
      BY <1>8, <3>1 DEF SlotIn
  <2>2. \A x \in RootOffs : RootCell(x) \in FileEntry => RootCell(x)[2] # i
    BY <1>3, <1>6 DEF Fresh
  <2>3. data' = data
    BY <1>1
  <2> QED
    BY <1>7, <1>8, <1>9, <1>12, <2>1, <2>2, <2>3, InodeChange
<1>14. /\ op' \in Request /\ op'.ino = ROOTINO /\ op'.off = y /\ op'.cells = <<e>> /\ op'.tot = 0
       /\ op'.new = 0 /\ Len(op'.cells) = 1
  <2>1. <<e>> \in Seq(Cell) /\ Len(<<e>>) = 1
    BY CellKinds
  <2> QED
    BY <1>7, <1>9, <2>1 DEF Write, Request
<1>15. TypeInv' /\ BlockInv'
  BY <1>1, <1>10, <1>13, <1>14 DEF TypeInv, BlockInv
<1>16. CopyInv'
  <2>1. Ahead(ip, ip)
    BY DEF Ahead
  <2>2. \A j \in Inums : mem'[j] # None =>
          mem'[j] = dinode'[j] /\ Ahead(mem'[j], dinode'[j]) /\ mem'[j].nlink > 0
    BY <1>1, <1>8, <1>10, <1>11, <2>1 DEF CopyInv, Writing
  <2>3. \A j \in Inums : dinode'[j].type = T_NONE => dinode'[j].nlink = 0
    BY <1>6, <1>8, <1>11 DEF CopyInv, T_NONE, T_FILE, T_DEV
  <2> QED
    BY <2>2, <2>3 DEF CopyInv
<1>17. HoleInv'
  <2>1. Filled(data, dinode[i], dinode[i].size)
    BY DEF HoleInv
  <2>2. Filled(data, ip, ip.size)
    BY <1>8, <2>1 DEF Filled, MapIn
  <2>3. \A j \in Inums : Filled(data, dinode'[j], dinode'[j].size)
    BY <1>11, <2>2 DEF HoleInv
  <2>4. \A j \in Inums : mem'[j] # None => Filled(data, mem'[j], mem'[j].size)
    BY <1>10, <2>2 DEF HoleInv
  <2> QED
    BY <1>1, <2>3, <2>4 DEF HoleInv
<1>18. /\ mem'[ROOTINO] = dinode[ROOTINO] /\ dinode'[ROOTINO] = dinode[ROOTINO] /\ mem'[ROOTINO] # None
       /\ y > 0 /\ y <= dinode[ROOTINO].size /\ y + 1 <= MAXFILE * BSIZE
  BY <1>1, <1>4, <1>6, <1>7, <1>10, <1>11, FreeSlotFacts
<1>19. WriteInv'
  <2>1. Filled(data, dinode[ROOTINO], y + 0)
    <3>1. Filled(data, dinode[ROOTINO], dinode[ROOTINO].size)
      BY <1>7 DEF HoleInv
    <3>2. dinode[ROOTINO].size \in Nat /\ y + 0 \in Nat /\ y + 0 <= dinode[ROOTINO].size
      BY <1>18, RootFacts, FsAssumption DEF MAXFILE
    <3> QED
      BY <3>1, <3>2, FilledLess
  <2> QED
    <3>1. /\ mem'[op'.ino] = dinode[ROOTINO] /\ dinode'[op'.ino] = dinode[ROOTINO] /\ mem'[op'.ino] # None
          /\ op'.off <= dinode[ROOTINO].size /\ op'.off + Len(op'.cells) <= MAXFILE * BSIZE
          /\ op'.tot < Len(op'.cells)
      BY <1>14, <1>18
    <3>2. data' = data /\ op'.off + op'.tot = y + 0
      BY <1>1, <1>14
    <3>3. Filled(data', dinode[ROOTINO], op'.off + op'.tot)
      BY <2>1, <3>2
    <3>4. pc' = "write"
      BY <1>1
    <3> QED
      BY <3>1, <3>3, <3>4 DEF WriteInv
<1>20. CreateInv'
  <2>1. Fresh(e)'
    BY <1>3, <1>6, <1>8, <1>11, <1>13 DEF Fresh
  <2>2. dinode'[e[2]].nlink = 1
    BY <1>3, <1>8, <1>11
  <2> QED
    <3>1. pc' = "write" /\ op'.off > 0 /\ op'.cells = <<e>>
      BY <1>1, <1>14, <1>18
    <3> QED
      BY <2>1, <2>2, <3>1 DEF CreateInv
<1> QED
  BY <1>13, <1>15, <1>16, <1>17, <1>19, <1>20

-----------------------------------------------------------------------------
(***************************************************************************)
(* Theorems.                                                               *)
(***************************************************************************)

LEMMA NextStep ==
  ASSUME IInv, [Next]_vars, pc' # "fault"
  PROVE  IInv'
<1>1. ASSUME NEW i \in Inums, NEW off \in 0..MAXFILE*BSIZE, NEW n \in 1..MaxChunk,
             NEW cells \in [1..n -> {"byte"} \X Bytes], writei(i, off, cells)
      PROVE  IInv'
  BY <1>1, WriteiStep
<1>2. ASSUME NEW name \in Names, NEW type \in {T_FILE, T_DEV}, create(name, type)
      PROVE  IInv'
  BY <1>2, CreateStep
<1>3. CASE createInode
  BY <1>3, CreateInodeStep
<1>4. CASE balloc
  BY <1>4, BallocStep
<1>5. CASE bzero
  BY <1>5, BzeroStep
<1>6. CASE bmapEntry
  BY <1>6, BmapEntryStep
<1>7. CASE writeBlock
  BY <1>7, WriteBlockStep
<1>8. CASE iupdate
  BY <1>8, IupdateStep
<1>9. CASE garbage
  BY <1>9 DEF garbage
<1>10. ASSUME NEW i \in Inums, iput(i) PROVE IInv'
  BY <1>10, IputStep
<1>11. CASE Crash
  BY <1>11, CrashStep
<1>12. CASE UNCHANGED vars
  BY <1>12, StutterStep
<1> QED
  BY <1>1, <1>2, <1>3, <1>4, <1>5, <1>6, <1>7, <1>8, <1>9, <1>10, <1>11, <1>12 DEF Next

\* Once a wild number is followed, the model says nothing more.
LEMMA Stuck ==
  ASSUME pc = "fault", [Next]_vars
  PROVE  pc' = "fault"
<1>1. \A label : Running(label) => label = "fault"
  BY DEF Running
<1>2. ~createInode /\ ~balloc /\ ~bzero /\ ~bmapEntry /\ ~writeBlock /\ ~iupdate /\ ~garbage /\ ~Crash
  BY <1>1 DEF createInode, balloc, bzero, bmapEntry, writeBlock, iupdate, garbage, Crash
<1>3. /\ \A i, off, cells : ~writei(i, off, cells)
      /\ \A name, type : ~create(name, type)
      /\ \A i : ~iput(i)
  BY <1>1 DEF writei, create, iput
<1>4. ~Next
  BY <1>2, <1>3, Zenon DEF Next
<1> QED
  BY <1>4 DEF vars

\* The inductive invariant holds until a wild number is followed, for every
\* geometry of the disk and whatever the number of crashes.
THEOREM Invariance == Spec => [](Sane => IInv)
<1>1. Init => (Sane => IInv)
  BY InitInv
<1>2. (Sane => IInv) /\ [Next]_vars => (Sane => IInv)'
  BY NextStep, Stuck DEF Sane
<1> QED
  BY <1>1, <1>2, PTL DEF Spec

\* balloc marks a block before bmap or iupdate lets anything on the disk name
\* it: no block in use can be allocated again, wherever the machine stops.
THEOREM UsedIsMarked == Spec => []BitmapCovers
<1>1. (Sane => IInv) => BitmapCovers
  <2> SUFFICES ASSUME IInv, NEW p \in Places, Named(p) \in Blocks PROVE Named(p) \in bitmap
    BY DEF BitmapCovers
  <2>1. p[1] \in Inums /\ p[2] \in Slots
    BY DEF Places, Slots
  <2>2. Named(p) = SlotIn(data, dinode[p[1]], p[2])
    BY Reading
  <2>3. Covered(bitmap, data, dinode)
    BY DiskBlocks DEF IInv, BlockInv
  <2> QED
    BY <2>1, <2>2, <2>3 DEF Covered
<1> QED
  BY <1>1, Invariance, PTL

\* No two slots of the inodes and of their indirect blocks on the disk ever
\* name the same block.
THEOREM OneOwner == Spec => []NoSharedBlock
<1>1. (Sane => IInv) => NoSharedBlock
  <2> SUFFICES ASSUME IInv, NEW p \in Places, NEW q \in Places, Named(p) = Named(q), Named(p) \in Blocks
               PROVE  p = q
    BY DEF NoSharedBlock
  <2>1. /\ p[1] \in Inums /\ p[2] \in Slots /\ p = <<p[1], p[2]>>
        /\ q[1] \in Inums /\ q[2] \in Slots /\ q = <<q[1], q[2]>>
    BY DEF Places, Slots
  <2>2. /\ Named(p) = SlotIn(data, dinode[p[1]], p[2])
        /\ Named(q) = SlotIn(data, dinode[q[1]], q[2])
    BY Reading
  <2>3. Apart(data, dinode)
    BY DiskBlocks DEF IInv, BlockInv
  <2>4. p[1] = q[1] /\ p[2] = q[2]
    <3>1. PICK i \in Inums, j \in Inums, v \in Slots, w \in Slots :
            i = p[1] /\ j = q[1] /\ v = p[2] /\ w = q[2]
      BY <2>1
    <3>2. SlotIn(data, dinode[i], v) = SlotIn(data, dinode[j], w) /\ SlotIn(data, dinode[i], v) \in Blocks
      BY <2>2, <3>1
    <3>3. i = j /\ v = w
      BY <2>3, <3>2 DEF Apart
    <3> QED
      BY <3>1, <3>3
  <2> QED
    BY <2>1, <2>4
<1> QED
  BY <1>1, Invariance, PTL

\* The root directory names initialised inodes with a link, each name and
\* each inode once, after a crash at any point of create and dirlink.
THEOREM DirectoryValid == Spec => []EntriesValid
<1>1. (Sane => IInv) => EntriesValid
  <2> SUFFICES ASSUME IInv PROVE EntriesValid
    BY DEF EntriesValid
  <2> DEFINE es == {e \in Entries(dinode[ROOTINO]) : e[1] # "."}
  <2>1. ASSUME NEW e \in es PROVE e \in FileEntry /\ \E x \in RootOffs : e = RootCell(x)
    <3>1. PICK x \in RootOffs : e = RootCell(x) /\ e \notin {Nil, None}
      BY EntryOf DEF IInv
    <3>2. RootCell(x) \in DirCell \cup {None}
      BY RootFacts DEF IInv
    <3>3. e # <<".", ROOTINO>>
      OBVIOUS
    <3> QED
      BY <3>1, <3>2, <3>3 DEF DirCell
  <2>2. ASSUME NEW e \in es PROVE dinode[e[2]].type \in {T_FILE, T_DEV} /\ dinode[e[2]].nlink = 1
    <3>1. PICK x \in RootOffs : e = RootCell(x)
      BY <2>1
    <3>2. RootCell(x) \in FileEntry
      BY <2>1, <3>1
    <3>3. dinode[RootCell(x)[2]].type \in {T_FILE, T_DEV} /\ dinode[RootCell(x)[2]].nlink = 1
      BY <3>2 DEF IInv, EntryInv
    <3> QED
      BY <3>1, <3>3
  <2>3. ASSUME NEW e \in es, NEW f \in es, e[1] = f[1] \/ e[2] = f[2] PROVE e = f
    <3>1. PICK x \in RootOffs : e = RootCell(x)
      BY <2>1
    <3>2. PICK y \in RootOffs : f = RootCell(y)
      BY <2>1
    <3>3. e \in FileEntry /\ f \in FileEntry
      BY <2>1
    <3>4. x = y
      BY <2>3, <3>1, <3>2, <3>3 DEF IInv, EntryInv
    <3> QED
      BY <3>1, <3>2, <3>4
  <2> QED
    BY <2>2, <2>3 DEF EntriesValid
<1> QED
  BY <1>1, Invariance, PTL

\* The size of an inode on the disk never runs ahead of its addresses, so that
\* reading never allocates.
THEOREM SizeCovered == Spec => []NoHoles
<1>1. (Sane => IInv) => NoHoles
  BY Reading DEF IInv, HoleInv, Filled, NoHoles
<1> QED
  BY <1>1, Invariance, PTL

\* Between two system calls every copy in icache equals the inode on the disk
\* and has a link: the last iput loses nothing and frees no file.
THEOREM CopiesClean == Spec => []DropLosesNothing
<1>1. (Sane => IInv) => DropLosesNothing
  <2> SUFFICES ASSUME IInv PROVE DropLosesNothing
    BY DEF DropLosesNothing
  <2>1. TypeOK
    BY DEF IInv, TypeInv, TypeOK, Data
  <2>2. pc = "idle" => \A i \in Inums : mem[i] # None => mem[i] = dinode[i] /\ mem[i].nlink > 0
    BY DEF IInv, CopyInv, Writing
  <2> QED
    BY <2>1, <2>2 DEF DropLosesNothing
<1> QED
  BY <1>1, Invariance, PTL

-----------------------------------------------------------------------------
(***************************************************************************)
(* The disk is a FileStore.  What a file holds follows from two more       *)
(* facts: addresses are missing only on a full disk, and the cells of a    *)
(* request that have been written can be read back through the copy of its *)
(* inode.                                                                  *)
(***************************************************************************)

FullInv ==
  \A i \in Inums, k \in Slots : SlotIn(data, Views[i], k) = NoSpace => Free = {}

\* The first n cells of the request are where readi looks for them, or lost.
Placed(d, ip, off, cells, n) ==
  \A x \in off..off + n - 1 : CellIn(d, ip, x) \in {cells[x - off + 1], None}

PlacedInv == Writing => Placed(data, mem[op.ino], op.off, op.cells, op.tot)

StoreInv == FullInv /\ PlacedInv

\* A step leaves the blocks of every file alone, and what it adds names no
\* block only on a full disk.
Undisturbed ==
  /\ \A i \in Inums : \A bn \in 0..MAXFILE - 1 :
       LET b == MapIn(data, Views[i], bn)
       IN b # 0 => MapIn(data', Views'[i], bn) = b /\ (b \in Blocks => data'[b] = data[b])
  /\ \A i \in Inums : \A k \in Slots :
       SlotIn(data', Views'[i], k) = NoSpace => SlotIn(data, Views[i], k) = NoSpace \/ Free = {}

LEMMA SlotGrows ==
  ASSUME IInv, pc \in {"write", "bzero"}, Lacks \in {"direct", "indirect"},
         NEW b \in Addrs \ {0}, SetSlot(b), data' \in Data,
         \A c \in Blocks : c # b => data'[c] = data[c],
         b \in Blocks => /\ Unused(b, data, Views)
                         /\ \A k \in 0..BSIZE - 1 : data'[b][k] = Nil,
         b \notin Blocks => Free = {},
         dinode' = dinode
  PROVE  Undisturbed
<1> USE DEF IInv
<1> DEFINE i == op.ino
           ip == mem[i]
           jp == mem'[i]
           n == (op.off + op.tot) \div BSIZE
           s == IF Lacks = "direct" THEN n ELSE NDIRECT
<1>1. i \in Inums /\ ip \in Inode /\ Views[i] = ip /\ n \in 0..MAXFILE - 1
  BY AtBlock
<1>2. s \in 0..NDIRECT /\ ip.addrs[s] = 0
  BY <1>1, LacksMeans, FsAssumption DEF Lacks, TypeInv
<1>3. mem' = [mem EXCEPT ![i].addrs[s] = b]
  BY Reading DEF SetSlot, Bn
<1>4. /\ jp = [ip EXCEPT !.addrs[s] = b]
      /\ \A j \in Inums : j # i => mem'[j] = mem[j]
  BY <1>1, <1>3 DEF TypeInv
<1>5. jp.addrs = [ip.addrs EXCEPT ![s] = b] /\ jp \in Inode
  <2>1. ip.addrs \in [0..NDIRECT -> Addrs]
    BY <1>1 DEF Inode
  <2>2. [ip.addrs EXCEPT ![s] = b] \in [0..NDIRECT -> Addrs]
    BY <1>2, <2>1
  <2> QED
    BY <1>1, <1>2, <1>4, <2>1, <2>2 DEF Inode
<1>6. jp # None
  BY <1>5, NoneAssumption
<1>7. /\ Views'[i] = jp
      /\ \A j \in Inums : j # i => Views'[j] = Views[j]
  BY <1>1, <1>4, <1>6 DEF Views, ilock
<1>8. \A j \in Inums : Views[j].addrs[NDIRECT] \in Blocks => Views[j].addrs[NDIRECT] # b
  BY UnusedBlock
<1>9. /\ \A j \in Inums : \A k \in Slots : SlotIn(data', Views[j], k) = SlotIn(data, Views[j], k)
      /\ \A j \in Inums : \A bn \in 0..MAXFILE - 1 : MapIn(data', Views[j], bn) = MapIn(data, Views[j], bn)
  BY <1>8, DiskKept
<1>10. /\ \A k \in Slots : SlotIn(data', jp, k) = IF k = s THEN b ELSE SlotIn(data, ip, k)
       /\ \A bn \in 0..MAXFILE - 1 : MapIn(data, ip, bn) # 0 => MapIn(data', jp, bn) = MapIn(data, ip, bn)
  <2>1. data \in Data
    BY DEF TypeInv
  <2>2. ip.addrs[NDIRECT] \in Blocks => ip.addrs[NDIRECT] # b
    BY <1>1, <1>8
  <2>3. b \in Blocks => \A k \in 0..BSIZE - 1 : data'[b][k] = Nil
    OBVIOUS
  <2> HIDE DEF ip, jp, s, i, n
  <2> QED
    BY <1>1, <1>2, <1>5, <2>1, <2>2, <2>3, NewSlot
<1> HIDE DEF i, ip, jp, s, n
<1>11. ASSUME NEW j \in Inums, NEW bn \in 0..MAXFILE - 1, MapIn(data, Views[j], bn) # 0
       PROVE  /\ MapIn(data', Views'[j], bn) = MapIn(data, Views[j], bn)
              /\ MapIn(data, Views[j], bn) \in Blocks =>
                   data'[MapIn(data, Views[j], bn)] = data[MapIn(data, Views[j], bn)]
  <2>1. MapIn(data', Views'[j], bn) = MapIn(data, Views[j], bn)
    BY <1>1, <1>7, <1>9, <1>10, <1>11
  <2>2. b \in Blocks => MapIn(data, Views[j], bn) # b
    BY UnusedBlock
  <2> QED
    BY <2>1, <2>2
<1>12. ASSUME NEW j \in Inums, NEW k \in Slots, SlotIn(data', Views'[j], k) = NoSpace
       PROVE  SlotIn(data, Views[j], k) = NoSpace \/ Free = {}
  <2>1. NoSpace \notin Blocks
    BY FsAssumption DEF NoSpace, Blocks
  <2> QED
    BY <1>1, <1>7, <1>9, <1>10, <1>12, <2>1
<1> QED
  BY <1>11, <1>12 DEF Undisturbed

LEMMA EntryGrows ==
  ASSUME IInv, pc \in {"write", "entry"}, Lacks = "entry",
         NEW b \in Addrs \ {0}, SetEntry(b), b \notin Blocks => Free = {},
         UNCHANGED <<dinode, mem>>
  PROVE  Undisturbed
<1> USE DEF IInv
<1> DEFINE i == op.ino
           ip == mem[i]
           n == (op.off + op.tot) \div BSIZE
           m == n - NDIRECT
           ind == ip.addrs[NDIRECT]
<1>1. i \in Inums /\ ip \in Inode /\ Views[i] = ip /\ n \in 0..MAXFILE - 1
  BY AtBlock
<1>2. data \in Data
  BY DEF TypeInv
<1>3. m \in 0..NINDIRECT - 1 /\ ind \in Blocks /\ EntryIn(data, ind, m) = 0
  BY <1>1, <1>2, LacksMeans DEF Lacks
<1>4. data' = [data EXCEPT ![ind][m] = <<b>>]
  BY DEF SetEntry, Ip, Bn
<1>5. Views' = Views
  BY DEF Views, ilock
<1>6. /\ \A c \in Blocks : c # ind => data'[c] = data[c]
      /\ \A k \in Slots : SlotIn(data', ip, k) = IF k = NDIRECT + 1 + m THEN b ELSE SlotIn(data, ip, k)
      /\ \A bn \in 0..MAXFILE - 1 : MapIn(data', ip, bn) = IF bn = NDIRECT + m THEN b ELSE MapIn(data, ip, bn)
      /\ MapIn(data, ip, NDIRECT + m) = 0
  <2>1. b \in Addrs /\ <<b>> \in Cell
    BY CellKinds
  <2>2. m \in 0..BSIZE - 1
    BY <1>3, FsAssumption
  <2> HIDE DEF ip, m, n
  <2>3. data' \in Data
    BY <1>2, <1>3, <1>4, <2>1, <2>2 DEF Data
  <2>4. \A c \in Blocks : c # ind => data'[c] = data[c]
    BY <1>2, <1>4 DEF Data
  <2>5. \A k \in 0..BSIZE - 1 : data'[ind][k] = IF k = m THEN <<b>> ELSE data[ind][k]
    BY <1>2, <1>3, <1>4, <2>2 DEF Data
  <2>6. /\ \A k \in Slots : SlotIn(data', ip, k) = IF k = NDIRECT + 1 + m THEN b ELSE SlotIn(data, ip, k)
        /\ \A bn \in 0..MAXFILE - 1 : MapIn(data', ip, bn) = IF bn = NDIRECT + m THEN b ELSE MapIn(data, ip, bn)
        /\ MapIn(data, ip, NDIRECT + m) = 0
    BY <1>1, <1>2, <1>3, <2>1, <2>3, <2>5, NewEntry
  <2> QED
    BY <2>4, <2>6
<1>7. NDIRECT \in Slots
  BY FsAssumption DEF Slots
<1> HIDE DEF ip, m, n
<1>8. ASSUME NEW j \in Inums, j # i
      PROVE  /\ \A k \in Slots : SlotIn(data', Views[j], k) = SlotIn(data, Views[j], k)
             /\ \A bn \in 0..MAXFILE - 1 : MapIn(data', Views[j], bn) = MapIn(data, Views[j], bn)
  <2>1. Views[j].addrs[NDIRECT] # ind
    <3>1. SlotIn(data, Views[j], NDIRECT) = Views[j].addrs[NDIRECT] /\ SlotIn(data, Views[i], NDIRECT) = ind
      BY <1>1, FsAssumption DEF SlotIn
    <3> QED
      BY <1>1, <1>3, <1>7, <1>8, <3>1 DEF BlockInv, Apart
  <2>2. Views[j].addrs[NDIRECT] \in Blocks =>
          data'[Views[j].addrs[NDIRECT]] = data[Views[j].addrs[NDIRECT]]
    BY <1>6, <2>1
  <2> QED
    BY <2>2 DEF SlotIn, MapIn, EntryIn
<1>9. ASSUME NEW j \in Inums, NEW bn \in 0..MAXFILE - 1, MapIn(data, Views[j], bn) # 0
      PROVE  /\ MapIn(data', Views'[j], bn) = MapIn(data, Views[j], bn)
             /\ MapIn(data, Views[j], bn) \in Blocks =>
                  data'[MapIn(data, Views[j], bn)] = data[MapIn(data, Views[j], bn)]
  <2>1. MapIn(data', Views'[j], bn) = MapIn(data, Views[j], bn)
    BY <1>1, <1>5, <1>6, <1>8, <1>9
  <2>2. MapIn(data, Views[j], bn) \in Blocks => Views[i].addrs[NDIRECT] # MapIn(data, Views[j], bn)
    BY <1>1, DataBlock DEF BlockInv
  <2> QED
    BY <1>1, <1>6, <2>1, <2>2
<1>10. ASSUME NEW j \in Inums, NEW k \in Slots, SlotIn(data', Views'[j], k) = NoSpace
       PROVE  SlotIn(data, Views[j], k) = NoSpace \/ Free = {}
  <2>1. NoSpace \notin Blocks
    BY FsAssumption DEF NoSpace, Blocks
  <2> QED
    BY <1>1, <1>5, <1>6, <1>8, <1>10, <2>1
<1> QED
  BY <1>9, <1>10 DEF Undisturbed
\* bmap for writei, whatever it lacks: files keep their blocks.
LEMMA BmapGrows ==
  ASSUME IInv, balloc \/ bzero \/ bmapEntry
  PROVE  /\ Undisturbed /\ dinode' = dinode /\ bitmap \subseteq bitmap'
         /\ pc \in {"write", "bzero", "entry"} /\ pc' \in {"write", "bzero", "entry"}
         /\ op'.ino = op.ino /\ op'.off = op.off /\ op'.cells = op.cells /\ op'.tot = op.tot
<1> USE DEF IInv
<1>1. ASSUME Views' = Views, data' = data PROVE Undisturbed
  BY <1>1 DEF Undisturbed
<1>2. CASE balloc
  <2>1. /\ pc = "write" /\ Lacks \in {"direct", "indirect", "entry"} /\ dinode' = dinode
        /\ op \in Request
    BY <1>2, Reading DEF balloc, Running, TypeInv, Writing
  <2>2. CASE Free # {}
    <3>1. /\ bitmap' = bitmap \cup {Min(Free)} /\ op' = [op EXCEPT !.new = Min(Free)] /\ pc' = "bzero"
          /\ UNCHANGED <<data, mem>>
      BY <1>2, <2>2 DEF balloc
    <3>2. op'.ino = op.ino /\ op'.off = op.off /\ op'.cells = op.cells /\ op'.tot = op.tot
      BY <2>1, <3>1 DEF Request
    <3>3. Views' = Views
      BY <2>1, <3>1 DEF Views, ilock
    <3> QED
      BY <1>1, <2>1, <3>1, <3>2, <3>3
  <2>3. CASE Free = {}
    <3>1. NoSpace \in Addrs \ {0} /\ NoSpace \notin Blocks
      BY FsAssumption DEF NoSpace, Addrs, Blocks
    <3>2. UNCHANGED <<bitmap, op, pc>>
      BY <1>2, <2>3 DEF balloc
    <3>3. CASE Lacks = "entry"
      <4>1. SetEntry(NoSpace) /\ UNCHANGED mem
        BY <1>2, <2>3, <3>3, Reading DEF balloc
      <4>2. Undisturbed
        BY <2>1, <2>3, <3>1, <3>3, <4>1, EntryGrows
      <4> QED
        BY <2>1, <3>2, <4>2
    <3>4. CASE Lacks # "entry"
      <4>1. SetSlot(NoSpace) /\ UNCHANGED data
        BY <1>2, <2>3, <3>4, Reading DEF balloc
      <4>2. data' \in Data
        BY <4>1 DEF TypeInv
      <4>3. Undisturbed
        BY <2>1, <2>3, <3>1, <3>4, <4>1, <4>2, SlotGrows
      <4> QED
        BY <2>1, <3>2, <4>3
    <3> QED
      BY <3>3, <3>4
  <2> QED
    BY <2>2, <2>3
<1>3. CASE bzero
  <2> DEFINE b == op.new
             zero == [k \in 0..BSIZE-1 |-> Nil]
  <2>1. /\ pc = "bzero" /\ data' = [data EXCEPT ![b] = zero]
        /\ UNCHANGED <<bitmap, dinode, op>>
    BY <1>3 DEF bzero, Running
  <2>2. b \in bitmap /\ Unused(b, data, Views) /\ Lacks \in {"direct", "indirect", "entry"}
    BY <2>1 DEF WriteInv, TypeInv, Writing
  <2>3. b \in Blocks
    BY <2>2 DEF TypeInv
  <2>4. b \in Addrs \ {0}
    BY <2>3, FsAssumption DEF Addrs, Blocks
  <2>5. /\ data' \in Data /\ data'[b] = zero
        /\ \A c \in Blocks : c # b => data'[c] = data[c]
    <3>1. zero \in [0..BSIZE-1 -> Cell]
      BY CellKinds
    <3> QED
      BY <2>1, <2>3, <3>1 DEF TypeInv, Data
  <2>6. \A k \in 0..BSIZE - 1 : data'[b][k] = Nil
    BY <2>5
  <2> HIDE DEF b, zero
  <2>7. CASE Lacks = "entry"
    <3>1. pc' = "entry" /\ UNCHANGED mem
      BY <1>3, <2>7, Reading DEF bzero
    <3>2. Views' = Views
      BY <2>1, <3>1 DEF Views, ilock
    <3>3. \A j \in Inums : /\ Views[j].addrs[NDIRECT] # b
                           /\ \A bn \in 0..MAXFILE - 1 : MapIn(data, Views[j], bn) # b
      BY <2>2, <2>3, UnusedBlock
    <3>4. /\ \A j \in Inums : \A k \in Slots : SlotIn(data', Views[j], k) = SlotIn(data, Views[j], k)
          /\ \A j \in Inums : \A bn \in 0..MAXFILE - 1 : MapIn(data', Views[j], bn) = MapIn(data, Views[j], bn)
      BY <2>5, <3>3, DiskKept
    <3>5. Undisturbed
      BY <2>5, <3>2, <3>3, <3>4 DEF Undisturbed
    <3> QED
      BY <2>1, <3>1, <3>5
  <2>8. CASE Lacks # "entry"
    <3>1. pc' = "write" /\ SetSlot(b)
      BY <1>3, <2>8, Reading DEF bzero, b
    <3>2. Undisturbed
      BY <2>1, <2>2, <2>3, <2>4, <2>5, <2>6, <2>8, <3>1, SlotGrows
    <3> QED
      BY <2>1, <3>1, <3>2
  <2> QED
    BY <2>7, <2>8
<1>4. CASE bmapEntry
  <2>1. /\ pc = "entry" /\ SetEntry(op.new) /\ pc' = "write"
        /\ UNCHANGED <<bitmap, dinode, mem, op>>
    BY <1>4 DEF bmapEntry, Running
  <2>2. op.new \in Blocks /\ Lacks = "entry"
    BY <2>1 DEF WriteInv, Writing, TypeInv
  <2>3. op.new \in Addrs \ {0}
    BY <2>2, FsAssumption DEF Addrs, Blocks
  <2>4. Undisturbed
    BY <2>1, <2>2, <2>3, EntryGrows
  <2> QED
    BY <2>1, <2>4
<1> QED
  BY <1>2, <1>3, <1>4

\* The cell at x is read from the same place, and has not been written.
LEMMA SameCell ==
  ASSUME NEW d, NEW e, NEW ip, NEW jp, NEW x,
         MapIn(e, jp, x \div BSIZE) = MapIn(d, ip, x \div BSIZE),
         MapIn(d, ip, x \div BSIZE) \in Blocks =>
           e[MapIn(d, ip, x \div BSIZE)] = d[MapIn(d, ip, x \div BSIZE)]
  PROVE  CellIn(e, jp, x) = CellIn(d, ip, x)
  BY DEF CellIn

\* An address that names no block was given out on a full disk.
LEMMA LostOnFull ==
  ASSUME IInv, FullInv, NEW i \in Inums, NEW bn \in 0..MAXFILE - 1,
         MapIn(data, Views[i], bn) # 0, MapIn(data, Views[i], bn) \notin Blocks
  PROVE  Free = {}
<1>1. data \in Data /\ Views[i] \in Inode
  BY ViewFacts DEF IInv, TypeInv
<1>2. MapIn(data, Views[i], bn) = NoSpace
  BY <1>1, MapType DEF Addrs
<1>3. \E k \in Slots : SlotIn(data, Views[i], k) = NoSpace
  <2>1. CASE bn < NDIRECT
    <3>1. bn \in Slots /\ bn <= NDIRECT
      BY <2>1, FsAssumption DEF Slots, MAXFILE
    <3> QED
      BY <1>2, <2>1, <3>1 DEF MapIn, SlotIn
  <2>2. CASE bn >= NDIRECT /\ Views[i].addrs[NDIRECT] \in Blocks
    <3> DEFINE k == bn + 1
    <3>1. k \in Slots /\ ~(k <= NDIRECT) /\ ~(bn < NDIRECT) /\ k - NDIRECT - 1 = bn - NDIRECT
      BY <2>2, FsAssumption DEF Slots, MAXFILE
    <3> HIDE DEF k
    <3>2. SlotIn(data, Views[i], k) = EntryIn(data, Views[i].addrs[NDIRECT], bn - NDIRECT)
      BY <2>2, <3>1, Zenon DEF SlotIn
    <3>3. MapIn(data, Views[i], bn) = EntryIn(data, Views[i].addrs[NDIRECT], bn - NDIRECT)
      BY <2>2, <3>1 DEF MapIn
    <3> QED
      BY <1>2, <3>1, <3>2, <3>3
  <2>3. CASE bn >= NDIRECT /\ Views[i].addrs[NDIRECT] \notin Blocks
    <3>1. NDIRECT \in Slots /\ NDIRECT <= NDIRECT /\ ~(bn < NDIRECT)
      BY <2>3, FsAssumption DEF Slots, MAXFILE
    <3> QED
      BY <1>2, <2>3, <3>1 DEF MapIn, SlotIn
  <2> QED
    BY <2>1, <2>2, <2>3, FsAssumption DEF MAXFILE
<1> QED
  BY <1>3 DEF FullInv
\* The bwrite of writei's loop writes the next m cells of the request, where
\* they have a block, and nothing else.
Wrote(m) ==
  LET from == op.off + op.tot
      n == Len(op.cells)
  IN /\ m > 0 /\ op.tot + m <= n
     /\ Views' = Views
     /\ \A j \in Inums : \A k \in Slots : SlotIn(data', Views[j], k) = SlotIn(data, Views[j], k)
     /\ \A j \in Inums : \A x \in 0..MAXFILE * BSIZE - 1 :
          CellIn(data', Views[j], x) =
            IF /\ j = op.ino /\ x \in from..from + m - 1
               /\ MapIn(data, Views[j], x \div BSIZE) \in Blocks
            THEN op.cells[x - op.off + 1] ELSE CellIn(data, Views[j], x)
     /\ \A x \in from..from + m - 1 :
          x \in 0..MAXFILE * BSIZE - 1 /\ MapIn(data, Views[op.ino], x \div BSIZE) # 0
     /\ IF op.tot + m = n /\ op.off + n <= mem[op.ino].size
        THEN op' = None
        ELSE op' = [op EXCEPT !.tot = op.tot + m]
     /\ pc' = IF op.tot + m < n THEN "write"
              ELSE IF op.off + n > mem[op.ino].size THEN "iupdate" ELSE "idle"

LEMMA WriteCells ==
  ASSUME IInv, writeBlock
  PROVE  \E m \in Nat : Wrote(m)
<1> USE DEF IInv
<1> DEFINE i == op.ino
           from == op.off + op.tot
           n == Len(op.cells)
           bn == from \div BSIZE
<1>1. /\ pc = "write" /\ UNCHANGED <<bitmap, dinode, mem>>
  BY DEF writeBlock, Running
<1>2. /\ op \in Request /\ i \in Inums /\ mem[i] \in Inode /\ Views[i] = mem[i]
      /\ op.tot < n /\ n \in Nat /\ op.off \in Nat /\ op.tot \in Nat
      /\ from \in 0..MAXFILE * BSIZE /\ bn \in 0..MAXFILE - 1
  BY <1>1, AtBlock
<1>3. PICK at, m, b :
         /\ at = from % BSIZE /\ at \in 0..BSIZE - 1
         /\ m \in Nat /\ m > 0 /\ m <= n - op.tot /\ m <= BSIZE - at
         /\ b = MapIn(data, mem[i], bn) /\ b # 0
         /\ b \notin Blocks => data' = data
         /\ \A c \in Blocks : c # b => data'[c] = data[c]
         /\ b \in Blocks => \A k \in 0..BSIZE - 1 :
              data'[b][k] = IF k \in at..at + m - 1 THEN op.cells[op.tot + k - at + 1] ELSE data[b][k]
         /\ IF op.tot + m = n /\ op.off + n <= mem[i].size
            THEN op' = None
            ELSE op' = [op EXCEPT !.tot = op.tot + m]
         /\ pc' = IF op.tot + m < n THEN "write"
                  ELSE IF op.off + n > mem[i].size THEN "iupdate" ELSE "idle"
  BY WriteBlockFacts, Zenon
<1>4. Views' = Views
  BY <1>1 DEF Views, ilock
<1>5. op.off + n <= MAXFILE * BSIZE /\ MAXFILE * BSIZE \in Nat
  BY <1>1, FsAssumption DEF WriteInv, Writing, MAXFILE
<1> HIDE DEF bn
<1>6. ASSUME b \in Blocks
      PROVE  /\ \A j \in Inums : Views[j].addrs[NDIRECT] # b
             /\ \A j \in Inums : \A k \in 0..MAXFILE - 1 : MapIn(data, Views[j], k) = b => j = i /\ k = bn
  BY <1>2, <1>3, <1>6, DataBlock DEF BlockInv
<1>7. /\ \A j \in Inums : \A k \in Slots : SlotIn(data', Views[j], k) = SlotIn(data, Views[j], k)
      /\ \A j \in Inums : \A k \in 0..MAXFILE - 1 : MapIn(data', Views[j], k) = MapIn(data, Views[j], k)
  <2>1. \A j \in Inums : Views[j].addrs[NDIRECT] \in Blocks => Views[j].addrs[NDIRECT] # b
    BY <1>6
  <2> QED
    BY <1>3, <2>1, DiskKept
<1>8. ASSUME NEW x \in from..from + m - 1
      PROVE  x \in 0..MAXFILE * BSIZE - 1 /\ x \div BSIZE = bn /\ MapIn(data, Views[i], x \div BSIZE) # 0
  <2> DEFINE max == MAXFILE * BSIZE
  <2>1. x \in Nat /\ from \in Nat /\ from <= x /\ x < from + (BSIZE - (from % BSIZE))
        /\ x \in 0..MAXFILE * BSIZE - 1
    <3>1. from \in Nat /\ op.off + n <= max /\ max \in Nat /\ BSIZE \in Nat
      BY <1>2, <1>5, FsAssumption
    <3>2. x <= from + m - 1 /\ from <= x /\ x \in Int /\ m \in Nat /\ at \in Nat /\ m <= BSIZE - at
          /\ m <= n - op.tot
      BY <1>3, <3>1
    <3>3. op.off \in Nat /\ op.tot \in Nat /\ n \in Nat
      BY <1>2
    <3> HIDE DEF max, n
    <3>4. x \in Nat /\ x < from + (BSIZE - at) /\ x \in 0..max - 1
      BY <3>1, <3>2, <3>3
    <3> QED
      BY <1>3, <3>1, <3>2, <3>4 DEF max
  <2>2. x \div BSIZE = bn
    BY <2>1, SameBlock DEF bn
  <2> QED
    BY <1>2, <1>3, <2>1, <2>2
<1>9. ASSUME NEW j \in Inums, NEW x \in 0..MAXFILE * BSIZE - 1
      PROVE  CellIn(data', Views[j], x) =
               IF /\ j = i /\ x \in from..from + m - 1
                  /\ MapIn(data, Views[j], x \div BSIZE) \in Blocks
               THEN op.cells[x - op.off + 1] ELSE CellIn(data, Views[j], x)
  <2> DEFINE q == x \div BSIZE
             r == x % BSIZE
             c == MapIn(data, Views[j], q)
  <2>1. x \in Nat /\ q \in 0..MAXFILE - 1 /\ r \in 0..BSIZE - 1 /\ x = BSIZE * q + r
    <3>1. x \in Nat /\ x < MAXFILE * BSIZE
      BY <1>5
    <3> QED
      BY <3>1, BlockNumber, DivMod
  <2>2. from = BSIZE * bn + at
    BY <1>2, <1>3, DivMod DEF bn
  <2>3. MapIn(data', Views[j], q) = c
    BY <1>7, <2>1
  <2>4. /\ CellIn(data', Views[j], x) = IF c \in Blocks THEN data'[c][r] ELSE None
        /\ CellIn(data, Views[j], x) = IF c \in Blocks THEN data[c][r] ELSE None
    BY <2>3, Zenon DEF CellIn
  <2>5. CASE c \notin Blocks
    BY <2>4, <2>5
  <2>6. CASE c \in Blocks /\ c # b
    <3>1. ~(j = i /\ x \in from..from + m - 1)
      BY <1>2, <1>3, <1>8, <2>6
    <3> QED
      BY <1>3, <2>4, <2>6, <3>1
  <2>7. CASE c \in Blocks /\ c = b
    <3>1. j = i /\ q = bn
      BY <1>6, <2>1, <2>7
    <3> HIDE DEF q, r
    <3>2. x - from = r - at /\ (x \in from..from + m - 1 <=> r \in at..at + m - 1)
      <4> DEFINE p == BSIZE * bn
      <4>1. p \in Int /\ x = p + r /\ from = p + at /\ r \in Int /\ at \in Int /\ m \in Int
        BY <1>2, <1>3, <2>1, <2>2, <3>1, FsAssumption
      <4> HIDE DEF p, from
      <4> QED
        BY <4>1
    <3>3. op.tot + r - at + 1 = x - op.off + 1
      <4>1. op.tot \in Int /\ op.off \in Int /\ r \in Int /\ at \in Int /\ x \in Int
        BY <1>2, <1>3, <2>1
      <4> QED
        BY <3>2, <4>1
    <3>4. data'[b][r] = IF r \in at..at + m - 1 THEN op.cells[op.tot + r - at + 1] ELSE data[b][r]
      BY <1>3, <2>1, <2>7
    <3> QED
      BY <2>4, <2>7, <3>1, <3>2, <3>3, <3>4 DEF q
  <2> QED
    BY <2>5, <2>6, <2>7
<1>10. m > 0 /\ op.tot + m <= n
  BY <1>2, <1>3
<1> QED
  BY <1>3, <1>4, <1>7, <1>8, <1>9, <1>10 DEF Wrote
\* FullInv stays when nothing but a full disk adds an address without a block.
LEMMA FullKept ==
  ASSUME FullInv, bitmap \subseteq bitmap',
         \A i \in Inums : \A k \in Slots :
           SlotIn(data', Views'[i], k) = NoSpace => SlotIn(data, Views[i], k) = NoSpace \/ Free = {}
  PROVE  FullInv'
<1>1. Free = {} => Free' = {}
  BY DEF Free
<1> QED
  BY <1>1 DEF FullInv

\* The same, when only the copies and the inodes change: each has the
\* addresses it had, or none.
LEMMA FullKeptCopies ==
  ASSUME FullInv, bitmap' = bitmap, data' = data,
         \A i \in Inums : \/ Views'[i].addrs = Views[i].addrs
                          \/ \A k \in Slots : SlotIn(data, Views'[i], k) = 0
  PROVE  FullInv'
<1>1. ASSUME NEW i \in Inums, NEW k \in Slots, SlotIn(data', Views'[i], k) = NoSpace
      PROVE  SlotIn(data, Views[i], k) = NoSpace
  <2>1. NoSpace # 0
    BY DEF NoSpace
  <2>2. Views'[i].addrs = Views[i].addrs
    BY <1>1, <2>1
  <2> QED
    BY <1>1, <2>2 DEF SlotIn
<1> QED
  BY <1>1, FullKept

LEMMA InitStore ==
  ASSUME Init
  PROVE  StoreInv
<1>1. IInv
  BY InitInv
<1>2. \A i \in Inums : Views[i] = ImageInodes[i]
  BY <1>1, ViewFacts DEF IInv, Init
<1>3. NDIRECT \in Nat \ {0} /\ 0 \in 0..NDIRECT
  BY FsAssumption
<1>4. ASSUME NEW i \in Inums, NEW k \in Slots
      PROVE  SlotIn(data, Views[i], k) # NoSpace
  <2>1. \A l \in 0..NDIRECT : ImageInodes[i].addrs[l] \in {0, 1}
    <3>1. CASE i = ROOTINO
      <4>1. ImageInodes[i] = [NewInode(T_DIR, 1) EXCEPT !.size = BSIZE, !.addrs[0] = 1]
        BY <3>1 DEF ImageInodes
      <4> QED
        BY <4>1, <1>3 DEF NewInode
    <3>2. CASE i # ROOTINO
      BY <3>2, NewInodeFacts DEF ImageInodes
    <3> QED
      BY <3>1, <3>2
  <2>2. ImageInodes[i].addrs[NDIRECT] = 0
    <3>1. CASE i = ROOTINO
      <4>1. ImageInodes[i] = [NewInode(T_DIR, 1) EXCEPT !.size = BSIZE, !.addrs[0] = 1]
        BY <3>1 DEF ImageInodes
      <4> QED
        BY <4>1, <1>3 DEF NewInode
    <3>2. CASE i # ROOTINO
      BY <1>3, <3>2, NewInodeFacts DEF ImageInodes
    <3> QED
      BY <3>1, <3>2
  <2>3. 0 \notin Blocks /\ NoSpace \notin {0, 1}
    BY FsAssumption DEF Blocks, NoSpace
  <2>4. k <= NDIRECT => k \in 0..NDIRECT
    BY FsAssumption DEF Slots
  <2> QED
    BY <1>2, <2>1, <2>2, <2>3, <2>4 DEF SlotIn
<1>5. ~Writing
  BY DEF Init, Writing
<1> QED
  BY <1>4, <1>5 DEF StoreInv, FullInv, PlacedInv

\* A step that runs no writei, or starts one.
LEMMA NonePlaced ==
  ASSUME Writing' => op' \in Request /\ op'.tot = 0
  PROVE  PlacedInv'
<1> SUFFICES ASSUME Writing'
             PROVE  Placed(data', mem'[op'.ino], op'.off, op'.cells, op'.tot)
  BY DEF PlacedInv
<1>1. op'.off \in Nat /\ op'.tot = 0
  BY DEF Request
<1>2. op'.off..op'.off + op'.tot - 1 = {}
  BY <1>1
<1> QED
  BY <1>2 DEF Placed
\* A cell that has an address and reads as None was lost on a full disk.
LEMMA LostCell ==
  ASSUME IInv, FullInv, NEW i \in Inums, NEW x \in 0..MAXFILE * BSIZE - 1,
         MapIn(data, Views[i], x \div BSIZE) # 0, CellIn(data, Views[i], x) = None
  PROVE  Free = {}
<1>1. x \div BSIZE \in 0..MAXFILE - 1 /\ x % BSIZE \in 0..BSIZE - 1
  <2>1. MAXFILE * BSIZE \in 0..MAXFILE * BSIZE
    BY FsAssumption DEF MAXFILE
  <2> QED
    BY <2>1, SizeBlock
<1>2. MapIn(data, Views[i], x \div BSIZE) \notin Blocks
  <2> DEFINE b == MapIn(data, Views[i], x \div BSIZE)
             r == x % BSIZE
  <2>1. b \in Blocks => CellIn(data, Views[i], x) = data[b][r]
    BY DEF CellIn
  <2> HIDE DEF b, r
  <2>2. r \in 0..BSIZE - 1 /\ b \in Blocks => data[b][r] \in Cell
    BY DEF IInv, TypeInv, Data
  <2>3. None \notin Cell
    BY NoneAssumption
  <2> QED
    BY <1>1, <2>1, <2>2, <2>3 DEF b, r
<1> QED
  BY <1>1, <1>2, LostOnFull

\* After the bwrite the first op.tot + m cells of the request are in place, or
\* lost on a full disk.
LEMMA WritePlaced ==
  ASSUME IInv, StoreInv, writeBlock, NEW m \in Nat, Wrote(m),
         NEW x \in op.off..op.off + (op.tot + m) - 1
  PROVE  /\ x \in 0..MAXFILE * BSIZE - 1
         /\ \/ CellIn(data', Views[op.ino], x) = op.cells[x - op.off + 1]
            \/ CellIn(data', Views[op.ino], x) = None /\ Free = {}
<1> DEFINE i == op.ino
           from == op.off + op.tot
<1>1. pc = "write"
  BY DEF writeBlock, Running
<1>2. /\ i \in Inums /\ Views[i] = mem[i] /\ from \in 0..MAXFILE * BSIZE
      /\ op.off \in Nat /\ op.tot \in Nat /\ MAXFILE * BSIZE \in Nat
  <2>1. MAXFILE * BSIZE \in Nat
    BY FsAssumption DEF MAXFILE
  <2> QED
    BY <1>1, <2>1, AtBlock
<1>3. CASE x \in from..from + m - 1
  <2>1. x \in 0..MAXFILE * BSIZE - 1 /\ MapIn(data, Views[i], x \div BSIZE) # 0
    BY <1>3, Zenon DEF Wrote
  <2>2. CellIn(data', Views[i], x) =
          IF MapIn(data, Views[i], x \div BSIZE) \in Blocks
          THEN op.cells[x - op.off + 1] ELSE CellIn(data, Views[i], x)
    BY <1>2, <1>3, <2>1 DEF Wrote
  <2>3. CASE MapIn(data, Views[i], x \div BSIZE) \in Blocks
    BY <2>1, <2>2, <2>3
  <2>4. CASE MapIn(data, Views[i], x \div BSIZE) \notin Blocks
    <3>1. CellIn(data, Views[i], x) = None
      BY <2>4 DEF CellIn
    <3>2. Free = {}
      BY <1>2, <2>1, <3>1, LostCell DEF StoreInv
    <3> QED
      BY <2>1, <2>2, <2>4, <3>1, <3>2
  <2> QED
    BY <2>3, <2>4
<1>4. CASE x \notin from..from + m - 1
  <2>1. x \in op.off..op.off + op.tot - 1 /\ x \in 0..from - 1
    BY <1>2, <1>4
  <2>2. x \in 0..MAXFILE * BSIZE - 1
    <3> DEFINE max == MAXFILE * BSIZE
    <3>1. from <= max /\ from \in Nat /\ max \in Nat
      BY <1>2
    <3> HIDE DEF max, from
    <3>2. x \in 0..max - 1
      BY <2>1, <3>1
    <3> QED
      BY <3>2 DEF max
  <2>3. CellIn(data', Views[i], x) = CellIn(data, Views[i], x)
    BY <1>2, <1>4, <2>2 DEF Wrote
  <2>4. CellIn(data, Views[i], x) \in {op.cells[x - op.off + 1], None}
    BY <1>1, <1>2, <2>1 DEF StoreInv, PlacedInv, Placed, Writing
  <2>5. MapIn(data, Views[i], x \div BSIZE) # 0
    BY <1>1, <1>2, <2>1 DEF IInv, WriteInv, Writing, Filled
  <2> QED
    BY <1>2, <2>2, <2>3, <2>4, <2>5, LostCell DEF StoreInv
<1> QED
  BY <1>3, <1>4

\* What bmap does and what the loop writes.
LEMMA WritingStore ==
  ASSUME IInv, IInv', StoreInv, balloc \/ bzero \/ bmapEntry \/ writeBlock
  PROVE  StoreInv'
<1> DEFINE i == op.ino
           from == op.off + op.tot
<1>1. CASE balloc \/ bzero \/ bmapEntry
  <2>1. /\ Undisturbed /\ bitmap \subseteq bitmap'
        /\ pc \in {"write", "bzero", "entry"} /\ pc' \in {"write", "bzero", "entry"}
        /\ op'.ino = i /\ op'.off = op.off /\ op'.cells = op.cells /\ op'.tot = op.tot
    BY <1>1, BmapGrows
  <2>2. FullInv'
    BY <2>1, FullKept DEF StoreInv, Undisturbed
  <2>3. i \in Inums /\ Views[i] = mem[i] /\ from \in 0..MAXFILE * BSIZE /\ op.off \in Nat /\ op.tot \in Nat
    BY <2>1, AtBlock
  <2>4. Views'[i] = mem'[i]
    <3>1. mem'[op'.ino] # None
      BY <2>1 DEF IInv, WriteInv, Writing
    <3> QED
      BY <2>1, <2>3, <3>1 DEF Views, ilock
  <2>5. Writing /\ Filled(data, mem[i], from)
    BY <2>1 DEF IInv, WriteInv, Writing
  <2>6. ASSUME NEW x \in op.off..op.off + op.tot - 1
        PROVE  CellIn(data', mem'[i], x) = CellIn(data, mem[i], x)
    <3>1. x \in 0..from - 1
      BY <2>3
    <3>2. x \div BSIZE \in 0..MAXFILE - 1
      BY <2>3, <3>1, SizeBlock
    <3>3. MapIn(data, Views[i], x \div BSIZE) # 0
      BY <2>3, <2>5, <3>1 DEF Filled
    <3>4. /\ MapIn(data', Views'[i], x \div BSIZE) = MapIn(data, Views[i], x \div BSIZE)
          /\ MapIn(data, Views[i], x \div BSIZE) \in Blocks =>
               data'[MapIn(data, Views[i], x \div BSIZE)] = data[MapIn(data, Views[i], x \div BSIZE)]
      BY <2>1, <2>3, <3>2, <3>3 DEF Undisturbed
    <3>5. CellIn(data', Views'[i], x) = CellIn(data, Views[i], x)
      BY <3>4, SameCell
    <3> QED
      BY <2>3, <2>4, <3>5
  <2>7. PlacedInv'
    BY <2>1, <2>5, <2>6 DEF StoreInv, PlacedInv, Placed
  <2> QED
    BY <2>2, <2>7 DEF StoreInv
<1>2. CASE writeBlock
  <2>1. pc = "write" /\ UNCHANGED <<bitmap, mem>>
    BY <1>2 DEF writeBlock, Running
  <2>2. /\ op \in Request /\ i \in Inums /\ Views[i] = mem[i] /\ mem[i] \in Inode
        /\ op.off \in Nat /\ op.tot \in Nat /\ Len(op.cells) \in Nat
    BY <2>1, AtBlock
  <2>3. PICK m \in Nat : Wrote(m)
    BY <1>2, WriteCells
  <2>4. FullInv'
    BY <2>1, <2>3, FullKept DEF StoreInv, Wrote
  <2>5. PlacedInv'
    <3> SUFFICES ASSUME Writing'
                 PROVE  Placed(data', mem'[op'.ino], op'.off, op'.cells, op'.tot)
      BY DEF PlacedInv
    <3>1. op'.ino = i /\ op'.off = op.off /\ op'.cells = op.cells /\ op'.tot = op.tot + m
      <4>1. mem[i].size \in Nat
        BY <2>2 DEF Inode
      <4>2. op' = [op EXCEPT !.tot = op.tot + m]
        BY <2>2, <2>3, <4>1 DEF Wrote, Writing
      <4> QED
        BY <2>2, <4>2 DEF Request
    <3>2. \A x \in op.off..op.off + (op.tot + m) - 1 :
            CellIn(data', mem[i], x) \in {op.cells[x - op.off + 1], None}
      BY <1>2, <2>2, <2>3, WritePlaced
    <3> QED
      BY <2>1, <3>1, <3>2 DEF Placed
  <2> QED
    BY <2>4, <2>5 DEF StoreInv
<1> QED
  BY <1>1, <1>2

\* Every address on the disk is in the copy.
LEMMA DiskAddress ==
  ASSUME NEW d, NEW ip \in Inode, NEW dp \in Inode, Ahead(ip, dp), NEW k \in Slots,
         SlotIn(d, dp, k) # 0
  PROVE  SlotIn(d, ip, k) = SlotIn(d, dp, k)
<1>1. NDIRECT \in 0..NDIRECT /\ 0 \notin Blocks
  BY FsAssumption DEF Blocks
<1>2. CASE k <= NDIRECT
  <2>1. k \in 0..NDIRECT
    BY <1>2, FsAssumption DEF Slots
  <2> QED
    BY <1>2, <2>1 DEF SlotIn, Ahead
<1>3. CASE ~(k <= NDIRECT)
  <2>1. dp.addrs[NDIRECT] \in Blocks
    BY <1>3 DEF SlotIn
  <2>2. ip.addrs[NDIRECT] = dp.addrs[NDIRECT]
    BY <1>1, <2>1 DEF Ahead
  <2> QED
    BY <1>3, <2>1, <2>2 DEF SlotIn
<1> QED
  BY <1>2, <1>3

\* The steps outside the loop of writei.
LEMMA OtherStore ==
  ASSUME IInv, StoreInv,
         \/ \E i \in Inums, off \in 0..MAXFILE*BSIZE, n \in 1..MaxChunk :
              \E cells \in [1..n -> {"byte"} \X Bytes] : writei(i, off, cells)
         \/ \E name \in Names, type \in {T_FILE, T_DEV} : create(name, type)
         \/ createInode \/ iupdate
         \/ \E i \in Inums : iput(i)
         \/ Crash,
         IInv'
  PROVE  StoreInv'
<1> USE DEF IInv
<1>1. /\ Views \in [Inums -> Inode]
      /\ \A i \in Inums : Views[i] = ilock(i) /\ Ahead(Views[i], dinode[i])
      /\ \A i \in Inums : mem[i] # None => Views[i] = mem[i]
      /\ \A i \in Inums : mem[i] = None => Views[i] = dinode[i]
  BY ViewFacts
<1>2. CASE \E i \in Inums, off \in 0..MAXFILE*BSIZE, n \in 1..MaxChunk :
             \E cells \in [1..n -> {"byte"} \X Bytes] : writei(i, off, cells)
  <2>1. PICK i \in Inums, off \in 0..MAXFILE*BSIZE, n \in 1..MaxChunk :
             \E cells \in [1..n -> {"byte"} \X Bytes] : writei(i, off, cells)
    BY <1>2
  <2>2. PICK cells \in [1..n -> {"byte"} \X Bytes] : writei(i, off, cells)
    BY <2>1
  <2>3. /\ mem' = [mem EXCEPT ![i] = ilock(i)] /\ op' = Write(i, off, cells) /\ pc' = "write"
        /\ UNCHANGED <<bitmap, dinode, data>>
    BY <2>2 DEF writei, disk
  <2>4. Views' = Views
    BY <2>3, LoadCopy
  <2>5. FullInv'
    BY <2>3, <2>4, FullKeptCopies DEF StoreInv
  <2>6. op' \in Request /\ op'.tot = 0
    BY <2>3 DEF TypeInv, Writing, Write
  <2> QED
    BY <2>5, <2>6, NonePlaced DEF StoreInv
<1>3. CASE \E name \in Names, type \in {T_FILE, T_DEV} : create(name, type)
  <2>1. PICK name \in Names, type \in {T_FILE, T_DEV} : create(name, type)
    BY <1>3
  <2>2. pc = "idle" /\ UNCHANGED <<bitmap, data>> /\ ~Writing'
    BY <2>1 DEF create, Running, Writing
  <2>3. CASE UNCHANGED <<dinode, mem>>
    <3>1. Views' = Views
      BY <2>3 DEF Views, ilock
    <3> QED
      BY <2>2, <3>1, FullKeptCopies, NonePlaced DEF StoreInv
  <2>4. CASE ~UNCHANGED <<dinode, mem>>
    <3> DEFINE i == Min(FreeInums)
    <3>1. /\ FreeInums # {} /\ dinode' = [dinode EXCEPT ![i] = NewInode(type, 0)]
          /\ mem' = [mem EXCEPT ![ROOTINO] = ilock(ROOTINO)]
      BY <2>1, <2>4 DEF create
    <3>2. i \in Inums /\ dinode[i].type = T_NONE
      <4>1. FreeInums \subseteq Nat
        BY FsAssumption DEF FreeInums, Inums
      <4> QED
        BY <3>1, <4>1, MinMember DEF FreeInums
    <3> HIDE DEF i
    <3>3. ROOTINO \in Inums /\ i # ROOTINO
      BY <3>2, RootFacts DEF RootInv, T_DIR, T_NONE
    <3>4. mem[i] = None
      BY <2>2, <3>2 DEF CopyInv, Ahead
    <3>5. /\ Views'[ROOTINO] = Views[ROOTINO]
          /\ Views'[i] = NewInode(type, 0)
          /\ \A j \in Inums \ {i, ROOTINO} : Views'[j] = Views[j]
      <4>1. ilock(ROOTINO) # None
        BY <1>1, <3>3, NoneAssumption
      <4>2. /\ mem'[ROOTINO] = Views[ROOTINO] /\ mem'[i] = None /\ dinode'[i] = NewInode(type, 0)
            /\ \A j \in Inums \ {i, ROOTINO} : mem'[j] = mem[j] /\ dinode'[j] = dinode[j]
        BY <1>1, <3>1, <3>2, <3>3, <3>4 DEF TypeInv
      <4> QED
        BY <1>1, <3>2, <3>3, <4>1, <4>2 DEF Views, ilock
    <3>6. \A k \in Slots : SlotIn(data, Views'[i], k) = 0
      BY <3>5, NewInodeFacts
    <3> QED
      BY <2>2, <3>5, <3>6, FullKeptCopies, NonePlaced DEF StoreInv
  <2> QED
    BY <2>3, <2>4
<1>4. CASE createInode
  <2> DEFINE i == op[2]
             ip == [ilock(i) EXCEPT !.nlink = 1]
  <2>1. /\ pc = "created" /\ mem' = [mem EXCEPT ![i] = ip] /\ dinode' = [dinode EXCEPT ![i] = ip]
        /\ UNCHANGED <<bitmap, data>>
        /\ op' = Write(ROOTINO, FreeSlot(mem[ROOTINO]), <<op>>) /\ pc' = "write"
    BY <1>4 DEF createInode, Running
  <2>2. i \in Inums
    BY <2>1 DEF CreateInv, FileEntry
  <2>3. ip.addrs = Views[i].addrs /\ ip \in Inode
    <3>1. Views[i] \in Inode /\ Views[i] = ilock(i)
      BY <1>1, <2>2
    <3> QED
      BY <3>1 DEF Inode
  <2>4. ip # None
    BY <2>3, NoneAssumption
  <2> HIDE DEF i, ip
  <2>5. /\ mem'[i] = ip /\ \A j \in Inums \ {i} : mem'[j] = mem[j] /\ dinode'[j] = dinode[j]
    BY <2>1, <2>2 DEF TypeInv
  <2>6. Views'[i] = ip /\ \A j \in Inums \ {i} : Views'[j] = Views[j]
    BY <2>2, <2>4, <2>5 DEF Views, ilock
  <2>7. \A j \in Inums : Views'[j].addrs = Views[j].addrs
    BY <2>3, <2>6
  <2>8. FullInv'
    BY <2>1, <2>7, FullKeptCopies DEF StoreInv
  <2>9. op' \in Request /\ op'.tot = 0
    BY <2>1 DEF TypeInv, Writing, Write
  <2> QED
    BY <2>8, <2>9, NonePlaced DEF StoreInv
<1>5. CASE iupdate
  <2> DEFINE i == op.ino
             jp == [mem[i] EXCEPT !.size = op.off + Len(op.cells)]
  <2>1. /\ pc = "iupdate" /\ pc' = "idle" /\ UNCHANGED <<bitmap, data>>
        /\ mem' = [mem EXCEPT ![i] = jp] /\ dinode' = [dinode EXCEPT ![i] = jp]
    BY <1>5 DEF iupdate, Running, Ip
  <2>2. i \in Inums /\ mem[i] # None
    BY <2>1 DEF WriteInv, TypeInv, Writing, Request
  <2>3. mem[i] \in Inode /\ Views[i] = mem[i]
    BY <1>1, <2>2
  <2>4. mem'[i] = jp /\ dinode'[i] = jp /\ jp.addrs = Views[i].addrs
    BY <2>1, <2>2, <2>3 DEF TypeInv, Inode
  <2> HIDE DEF i, jp
  <2>5. \A j \in Inums \ {i} : mem'[j] = mem[j] /\ dinode'[j] = dinode[j]
    BY <2>1, <2>2 DEF TypeInv
  <2>6. Views'[i] = jp /\ \A j \in Inums \ {i} : Views'[j] = Views[j]
    BY <2>2, <2>4, <2>5 DEF Views, ilock
  <2>7. \A j \in Inums : Views'[j].addrs = Views[j].addrs
    BY <2>4, <2>6
  <2>8. ~Writing'
    BY <2>1 DEF Writing
  <2> QED
    BY <2>1, <2>7, <2>8, FullKeptCopies, NonePlaced DEF StoreInv
<1>6. CASE \E i \in Inums : iput(i)
  <2>1. PICK i \in Inums : iput(i)
    BY <1>6
  <2>2. /\ pc = "idle" /\ pc' = "idle" /\ mem[i] # None /\ mem' = [mem EXCEPT ![i] = None]
        /\ UNCHANGED <<bitmap, dinode, data>>
    BY <2>1 DEF iput, disk, Running
  <2>3. mem[i] = dinode[i]
    BY <2>2 DEF CopyInv, Writing
  <2>4. Views' = Views
    BY <2>2, <2>3 DEF Views, ilock, TypeInv
  <2>5. ~Writing'
    BY <2>2 DEF Writing
  <2> QED
    BY <2>2, <2>4, <2>5, FullKeptCopies, NonePlaced DEF StoreInv
<1>7. CASE Crash
  <2>1. mem' = [i \in Inums |-> None] /\ pc' = "idle" /\ UNCHANGED <<bitmap, dinode, data>>
    BY <1>7 DEF Crash, disk
  <2>2. \A i \in Inums : Views'[i] = dinode[i]
    BY <2>1 DEF Views, ilock
  <2>3. ASSUME NEW i \in Inums, NEW k \in Slots, SlotIn(data', Views'[i], k) = NoSpace
        PROVE  SlotIn(data, Views[i], k) = NoSpace
    <3>1. SlotIn(data, dinode[i], k) = NoSpace /\ NoSpace # 0
      BY <2>1, <2>2, <2>3 DEF NoSpace
    <3>2. Views[i] \in Inode /\ dinode[i] \in Inode /\ Ahead(Views[i], dinode[i])
      BY <1>1 DEF TypeInv
    <3> QED
      BY <3>1, <3>2, DiskAddress
  <2>4. ~Writing'
    BY <2>1 DEF Writing
  <2>5. bitmap \subseteq bitmap'
    BY <2>1
  <2> QED
    BY <2>3, <2>4, <2>5, FullKept, NonePlaced DEF StoreInv
<1> QED
  BY <1>2, <1>3, <1>4, <1>5, <1>6, <1>7

LEMMA NextStore ==
  ASSUME IInv, IInv', StoreInv, [Next]_vars
  PROVE  StoreInv'
<1>1. CASE UNCHANGED vars
  BY <1>1 DEF vars, StoreInv, FullInv, PlacedInv, Views, ilock, Free, Writing
<1>2. CASE Next
  <2>1. ~garbage
    BY DEF garbage, IInv, TypeInv
  <2> QED
    BY <1>2, <2>1, WritingStore, OtherStore DEF Next
<1> QED
  BY <1>1, <1>2

-----------------------------------------------------------------------------
(***************************************************************************)
(* Files and requests.                                                     *)
(***************************************************************************)

\* The content of a file, and the files, for given blocks and inodes.
CellsIn(d, ip) == [k \in 1..ip.size |-> CellIn(d, ip, k - 1)]

FilesIn(d, D) == [i \in Inums |-> IF D[i].type = T_NONE THEN None ELSE CellsIn(d, D[i])]

LEMMA FileIs == file = FilesIn(data, dinode) /\ file' = FilesIn(data', dinode')
<1>1. file = FilesIn(data, dinode)
  <2>1. \A ip : Content(ip) = CellsIn(data, ip)
    BY Reading DEF Content, CellsIn
  <2> QED
    BY <2>1 DEF file, FilesIn
<1>2. file' = FilesIn(data', dinode')
  <2>1. file' = [i \in Inums |-> IF dinode'[i].type = T_NONE THEN None ELSE Content(dinode[i])']
    BY DEF file
  <2>2. \A i \in Inums : Content(dinode[i])' = CellsIn(data', dinode'[i])
    BY DEF Content, CellsIn, CellAt, CellIn, bmap, MapIn, Entry, EntryIn
  <2> QED
    BY <2>1, <2>2 DEF FilesIn
<1> QED
  BY <1>1, <1>2

LEMMA CellsFacts ==
  ASSUME NEW d \in Data, NEW ip \in Inode
  PROVE  /\ ip.size \in 0..MAXFILE * BSIZE /\ ip.size \in Nat
         /\ CellsIn(d, ip) \in Seq(Cell \cup {None}) /\ CellsIn(d, ip) # None
         /\ Len(CellsIn(d, ip)) = ip.size
         /\ \A k \in 1..ip.size : k - 1 \in 0..ip.size - 1 /\ CellsIn(d, ip)[k] = CellIn(d, ip, k - 1)
<1>1. ip.size \in 0..MAXFILE * BSIZE /\ ip.size \in Nat
  BY FsAssumption DEF Inode, MAXFILE
<1>2. \A k \in 1..ip.size : k - 1 \in 0..ip.size - 1
  BY <1>1
<1>3. \A k \in 1..ip.size : CellIn(d, ip, k - 1) \in Cell \cup {None}
  <2> SUFFICES ASSUME NEW k \in 1..ip.size PROVE CellIn(d, ip, k - 1) \in Cell \cup {None}
    OBVIOUS
  <2>1. (k - 1) % BSIZE \in 0..BSIZE - 1
    BY <1>1, <1>2, SizeBlock
  <2> QED
    BY <2>1 DEF CellIn, Data
<1>4. CellsIn(d, ip) \in [1..ip.size -> Cell \cup {None}]
  BY <1>3 DEF CellsIn
<1>5. CellsIn(d, ip) \in Seq(Cell \cup {None})
  BY <1>1, <1>4
<1>6. Len(CellsIn(d, ip)) = ip.size
  BY <1>1, <1>4, <1>5
<1> QED
  BY <1>1, <1>2, <1>5, <1>6, NoneAssumption DEF CellsIn

\* A file keeps its content when its type, its size and its cells stay.
LEMMA SameFile ==
  ASSUME NEW d, NEW e, NEW ip, NEW jp, jp.size = ip.size,
         \A x \in 0..ip.size - 1 : CellIn(e, jp, x) = CellIn(d, ip, x), ip.size \in Nat
  PROVE  CellsIn(e, jp) = CellsIn(d, ip)
<1>1. \A k \in 1..ip.size : k - 1 \in 0..ip.size - 1
  OBVIOUS
<1> QED
  BY <1>1 DEF CellsIn

LEMMA SameFiles ==
  ASSUME IInv, dinode' \in [Inums -> Inode],
         \A i \in Inums :
           /\ dinode'[i].type = dinode[i].type /\ dinode'[i].size = dinode[i].size
           /\ \A x \in 0..dinode[i].size - 1 : CellIn(data', dinode'[i], x) = CellIn(data, dinode[i], x)
  PROVE  file' = file
<1>1. \A i \in Inums : dinode[i].size \in Nat
  BY CellsFacts DEF IInv, TypeInv
<1>2. \A i \in Inums : CellsIn(data', dinode'[i]) = CellsIn(data, dinode[i])
  BY <1>1, SameFile
<1> QED
  BY <1>2, FileIs DEF FilesIn
\* Below its size the copy of an inode reads as the inode on the disk.
LEMMA CopyCells ==
  ASSUME NEW d, NEW ip \in Inode, NEW dp \in Inode, Ahead(ip, dp), Filled(d, dp, dp.size),
         NEW x \in 0..dp.size - 1
  PROVE  /\ x \in Nat /\ x \in 0..MAXFILE * BSIZE - 1 /\ x \div BSIZE \in 0..MAXFILE - 1
         /\ MapIn(d, ip, x \div BSIZE) # 0
         /\ CellIn(d, ip, x) = CellIn(d, dp, x)
<1>1. dp.size \in 0..MAXFILE * BSIZE /\ MAXFILE * BSIZE \in Nat
  BY FsAssumption DEF Inode, MAXFILE
<1>2. x \in Nat /\ x \div BSIZE \in 0..MAXFILE - 1
  BY <1>1, SizeBlock
<1>3. x \in 0..MAXFILE * BSIZE - 1
  <2> DEFINE max == MAXFILE * BSIZE
  <2>1. dp.size \in 0..max /\ max \in Nat
    BY <1>1
  <2> HIDE DEF max
  <2>2. x \in 0..max - 1
    BY <2>1
  <2> QED
    BY <2>2 DEF max
<1>4. MapIn(d, dp, x \div BSIZE) # 0
  BY DEF Filled
<1>5. MapIn(d, ip, x \div BSIZE) = MapIn(d, dp, x \div BSIZE)
  BY <1>2, <1>4, DiskSlots
<1> QED
  BY <1>2, <1>3, <1>4, <1>5 DEF CellIn

\* The copies, before a step and after it.
LEMMA CopiesNow ==
  ASSUME IInv, NEW i \in Inums
  PROVE  /\ data \in Data /\ dinode[i] \in Inode /\ Views[i] \in Inode /\ Ahead(Views[i], dinode[i])
         /\ Filled(data, dinode[i], dinode[i].size)
  BY ViewFacts DEF IInv, HoleInv, TypeInv

LEMMA CopiesThen ==
  ASSUME IInv', NEW i \in Inums
  PROVE  /\ data' \in Data /\ dinode' \in [Inums -> Inode] /\ dinode'[i] \in Inode /\ Views'[i] \in Inode
         /\ Ahead(Views'[i], dinode'[i]) /\ Filled(data', dinode'[i], dinode'[i].size)
<1>1. /\ data' \in Data /\ dinode' \in [Inums -> Inode] /\ mem' \in [Inums -> {None} \cup Inode]
      /\ mem'[i] # None => Ahead(mem'[i], dinode'[i])
      /\ Filled(data', dinode'[i], dinode'[i].size)
  BY DEF IInv, TypeInv, CopyInv, HoleInv
<1>2. Views'[i] = IF mem'[i] = None THEN dinode'[i] ELSE mem'[i]
  BY DEF Views, ilock
<1>3. Ahead(dinode'[i], dinode'[i])
  BY DEF Ahead
<1> QED
  BY <1>1, <1>2, <1>3

\* The writei that is under way, as a request.
LEMMA ReqFacts ==
  ASSUME IInv, Writing
  PROVE  /\ op \in Request /\ op.ino \in Inums /\ op.off \in Nat /\ op.tot \in Nat /\ Len(op.cells) \in Nat
         /\ op.tot <= Len(op.cells)
         /\ req = [ino |-> op.ino, off |-> op.off, cells |-> op.cells]
         /\ req.ino = op.ino /\ req.off = op.off /\ req.cells = op.cells /\ req # None
         /\ mem[op.ino] # None /\ Views[op.ino] = mem[op.ino] /\ dinode[op.ino].type # T_NONE
         /\ mem[op.ino].size = dinode[op.ino].size /\ dinode[op.ino].size \in Nat
         /\ op.off <= dinode[op.ino].size /\ op.off + Len(op.cells) <= MAXFILE * BSIZE
         /\ file[op.ino] = CellsIn(data, dinode[op.ino])
<1> USE DEF IInv
<1>1. op \in Request /\ mem[op.ino] # None /\ op.off <= mem[op.ino].size
      /\ op.off + Len(op.cells) <= MAXFILE * BSIZE
  BY DEF TypeInv, WriteInv
<1>2. op.ino \in Inums /\ op.off \in Nat /\ op.tot \in Nat /\ op.cells \in Seq(Cell) /\ Len(op.cells) \in Nat
  BY <1>1, LenProperties DEF Request
<1>3. op.tot <= Len(op.cells)
  BY <1>2 DEF WriteInv
<1>4. /\ req = [ino |-> op.ino, off |-> op.off, cells |-> op.cells]
      /\ req.ino = op.ino /\ req.off = op.off /\ req.cells = op.cells
  BY DEF req, Writing
<1>5. req # None
  <2>1. req \in [ino : Inums, off : Nat, cells : Seq(Cell)]
    BY <1>2, <1>4
  <2> QED
    BY <2>1, NoneAssumption
<1>6. Views[op.ino] = mem[op.ino] /\ Ahead(mem[op.ino], dinode[op.ino])
  BY <1>1, <1>2, ViewFacts
<1>7. dinode[op.ino].type # T_NONE
  <2>1. mem[op.ino].nlink > 0 /\ mem[op.ino].nlink = dinode[op.ino].nlink
    BY <1>1, <1>2, <1>6 DEF CopyInv, Writing, Ahead
  <2> QED
    BY <1>2, <2>1 DEF CopyInv
<1>8. dinode[op.ino].size \in Nat
  BY <1>2, CellsFacts DEF TypeInv
<1>9. file[op.ino] = CellsIn(data, dinode[op.ino])
  BY <1>2, <1>7, FileIs DEF FilesIn
<1> QED
  BY <1>1, <1>2, <1>3, <1>4, <1>5, <1>6, <1>7, <1>8, <1>9 DEF Ahead

\* A step that FileStore does not see.
LEMMA Hidden ==
  ASSUME file' = file, req' = req, bitmap \subseteq bitmap'
  PROVE  Abstract!Step
<1>1. full => full'
  BY DEF full, Free
<1> QED
  BY <1>1 DEF Abstract!Step

\* bmap's allocations change no file.
LEMMA BmapHidden ==
  ASSUME IInv, IInv', balloc \/ bzero \/ bmapEntry
  PROVE  Abstract!Step
<1>1. /\ Undisturbed /\ dinode' = dinode /\ bitmap \subseteq bitmap'
      /\ pc \in {"write", "bzero", "entry"} /\ pc' \in {"write", "bzero", "entry"}
      /\ op'.ino = op.ino /\ op'.off = op.off /\ op'.cells = op.cells
  BY BmapGrows
<1>2. req' = req
  BY <1>1 DEF req
<1>3. ASSUME NEW i \in Inums, NEW x \in 0..dinode[i].size - 1
      PROVE  CellIn(data', dinode'[i], x) = CellIn(data, dinode[i], x)
  <2>1. /\ x \div BSIZE \in 0..MAXFILE - 1 /\ MapIn(data, Views[i], x \div BSIZE) # 0
        /\ CellIn(data, Views[i], x) = CellIn(data, dinode[i], x)
    BY CopiesNow, CopyCells
  <2>2. CellIn(data', Views'[i], x) = CellIn(data', dinode'[i], x)
    BY <1>1, CopiesThen, CopyCells
  <2>3. CellIn(data', Views'[i], x) = CellIn(data, Views[i], x)
    BY <1>1, <2>1, SameCell DEF Undisturbed
  <2> QED
    BY <2>1, <2>2, <2>3
<1>4. file' = file
  <2>1. dinode' \in [Inums -> Inode]
    BY <1>1 DEF IInv, TypeInv
  <2> QED
    BY <1>1, <1>3, <2>1, SameFiles
<1> QED
  BY <1>1, <1>2, <1>4, Hidden
\* The file of the request is stored as f, and no other file changes.
LEMMA Stored ==
  ASSUME NEW i \in Inums, req.ino = i, NEW f,
         \A j \in Inums : j # i => file'[j] = file[j],
         Len(file'[i]) = Len(f),
         \A k \in 1..Len(f) :
           \/ file'[i][k] = f[k]
           \/ full /\ file'[i][k] = None /\ k \in req.off + 1 .. req.off + Len(req.cells)
  PROVE  Abstract!Store(f)
<1>1. file' = [file EXCEPT ![i] = file'[i]]
  BY FileIs DEF FilesIn
<1> QED
  BY <1>1 DEF Abstract!Store

\* The bwrite of the loop stores the cells of the request that have come so
\* far, and is the last step of a request that does not make the file longer.
LEMMA WriteBlockStores ==
  ASSUME IInv, IInv', StoreInv, writeBlock
  PROVE  Abstract!Step
<1> DEFINE i == op.ino
           size == dinode[i].size
           n == Len(op.cells)
<1>1. pc = "write" /\ UNCHANGED <<bitmap, dinode, mem>> /\ Writing
  BY DEF writeBlock, Running, Writing
<1>2. /\ op \in Request /\ i \in Inums /\ op.off \in Nat /\ op.tot \in Nat /\ n \in Nat
      /\ req.ino = i /\ req.off = op.off /\ req.cells = op.cells /\ req # None
      /\ mem[i].size = size /\ size \in Nat /\ dinode[i].type # T_NONE
      /\ file[i] = CellsIn(data, dinode[i])
  BY <1>1, ReqFacts
<1>3. PICK m \in Nat : Wrote(m)
  BY WriteCells
<1>4. /\ m > 0 /\ op.tot + m <= n /\ Views' = Views
      /\ IF op.tot + m = n /\ op.off + n <= size
         THEN op' = None ELSE op' = [op EXCEPT !.tot = op.tot + m]
      /\ pc' = IF op.tot + m < n THEN "write" ELSE IF op.off + n > size THEN "iupdate" ELSE "idle"
  BY <1>2, <1>3 DEF Wrote
<1>5. \A j \in Inums : file'[j] = IF dinode[j].type = T_NONE THEN None ELSE CellsIn(data', dinode[j])
  BY <1>1, FileIs DEF FilesIn
<1>6. ASSUME NEW j \in Inums, NEW x \in 0..dinode[j].size - 1
      PROVE  /\ CellIn(data', dinode[j], x) = CellIn(data', Views[j], x)
             /\ ~(j = i /\ x \in op.off + op.tot .. op.off + op.tot + m - 1) =>
                  CellIn(data', dinode[j], x) = CellIn(data, dinode[j], x)
  <2>1. x \in 0..MAXFILE * BSIZE - 1 /\ CellIn(data, Views[j], x) = CellIn(data, dinode[j], x)
    BY CopiesNow, CopyCells
  <2>2. CellIn(data', Views[j], x) = CellIn(data', dinode[j], x)
    BY <1>1, <1>4, CopiesThen, CopyCells
  <2>3. ~(j = i /\ x \in op.off + op.tot .. op.off + op.tot + m - 1) =>
          CellIn(data', Views[j], x) = CellIn(data, Views[j], x)
    BY <1>3, <2>1 DEF Wrote
  <2> QED
    BY <2>1, <2>2, <2>3
<1>7. ASSUME NEW j \in Inums, j # i PROVE file'[j] = file[j]
  <2>1. \A x \in 0..dinode[j].size - 1 : CellIn(data', dinode[j], x) = CellIn(data, dinode[j], x)
    BY <1>6, <1>7
  <2>2. dinode[j].size \in Nat
    BY CopiesNow, CellsFacts
  <2>3. CellsIn(data', dinode[j]) = CellsIn(data, dinode[j])
    BY <2>1, <2>2, SameFile
  <2> QED
    BY <1>5, <2>3, FileIs DEF FilesIn
<1>8. /\ file'[i] = CellsIn(data', dinode[i]) /\ Len(file'[i]) = size /\ Len(file[i]) = size
      /\ \A k \in 1..size : /\ k - 1 \in 0..size - 1
                            /\ file'[i][k] = CellIn(data', dinode[i], k - 1)
                            /\ file[i][k] = CellIn(data, dinode[i], k - 1)
  <2>1. data' \in Data /\ data \in Data /\ dinode[i] \in Inode
    BY <1>2, CopiesNow, CopiesThen
  <2> QED
    BY <1>2, <1>5, <2>1, CellsFacts
<1> DEFINE K == op.tot + m
<1>9. K \in 1..n /\ op.off + K <= op.off + n
  BY <1>2, <1>4
<1>10. ASSUME NEW k \in 1..size
       PROVE  /\ k \notin op.off + 1 .. op.off + K => file'[i][k] = file[i][k]
              /\ k \in op.off + 1 .. op.off + K =>
                   file'[i][k] = op.cells[k - op.off] \/ (full /\ file'[i][k] = None)
  <2> DEFINE x == k - 1
  <2>1. x \in 0..size - 1 /\ file'[i][k] = CellIn(data', dinode[i], x) /\ file[i][k] = CellIn(data, dinode[i], x)
    BY <1>8
  <2>2. ASSUME k \notin op.off + 1 .. op.off + K PROVE file'[i][k] = file[i][k]
    <3>1. ~(x \in op.off + op.tot .. op.off + op.tot + m - 1)
      <4>1. op.off \in Int /\ op.tot \in Int /\ op.tot >= 0 /\ m \in Int /\ k \in Int
        BY <1>2
      <4> QED
        BY <2>2, <4>1
    <3> HIDE DEF x
    <3> QED
      BY <1>2, <1>6, <2>1, <3>1
  <2>3. ASSUME k \in op.off + 1 .. op.off + K
        PROVE  file'[i][k] = op.cells[k - op.off] \/ (full /\ file'[i][k] = None)
    <3>1. x \in op.off .. op.off + (op.tot + m) - 1 /\ x - op.off + 1 = k - op.off
      BY <1>2, <2>3
    <3> HIDE DEF x
    <3>2. \/ CellIn(data', Views[i], x) = op.cells[x - op.off + 1]
          \/ CellIn(data', Views[i], x) = None /\ Free = {}
      BY <1>3, <3>1, WritePlaced
    <3>3. CellIn(data', dinode[i], x) = CellIn(data', Views[i], x)
      BY <1>2, <1>6, <2>1
    <3>4. op.cells[x - op.off + 1] = op.cells[k - op.off]
      BY <3>1
    <3> QED
      BY <2>1, <3>2, <3>3, <3>4, Zenon DEF full
  <2> QED
    BY <2>2, <2>3
<1> HIDE DEF K
<1>11. full => full'
  BY <1>1 DEF full, Free
<1>12. \A k \in 1..size : k \in op.off + 1 .. op.off + K =>
         k \in req.off + 1 .. req.off + Len(req.cells)
  BY <1>2, <1>9
<1> HIDE DEF size, n
<1>13. CASE op.tot + m < n \/ op.off + n > size
  <2> DEFINE f == [k \in 1..size |->
                    IF k \in op.off + 1 .. op.off + K THEN op.cells[k - op.off] ELSE file[i][k]]
  <2>1. Abstract!Overwritten(file[req.ino], req, K) = f
    BY <1>2, <1>8 DEF Abstract!Overwritten
  <2>2. Len(f) = size /\ \A k \in 1..size :
          f[k] = IF k \in op.off + 1 .. op.off + K THEN op.cells[k - op.off] ELSE file[i][k]
    BY <1>2
  <2> HIDE DEF f
  <2>3. \A k \in 1..Len(f) :
          \/ file'[i][k] = f[k]
          \/ full /\ file'[i][k] = None /\ k \in req.off + 1 .. req.off + Len(req.cells)
    BY <1>10, <1>12, <2>2
  <2>4. Abstract!Store(f)
    BY <1>2, <1>7, <1>8, <2>2, <2>3, Stored
  <2>5. req' = req
    <3>1. op' = [op EXCEPT !.tot = op.tot + m] /\ pc' \in {"write", "iupdate"}
      BY <1>2, <1>4, <1>13
    <3>2. op'.ino = op.ino /\ op'.off = op.off /\ op'.cells = op.cells
      BY <1>2, <3>1 DEF Request
    <3> QED
      BY <1>1, <3>1, <3>2 DEF req
  <2>6. Abstract!Progress(K) /\ K \in 1..Len(req.cells)
    BY <1>2, <1>9, <2>1, <2>4, <2>5 DEF Abstract!Progress, n
  <2> QED
    BY <1>2, <1>11, <2>6 DEF Abstract!Step
<1>14. CASE ~(op.tot + m < n \/ op.off + n > size)
  <2> DEFINE f == [k \in 1..size |->
                    IF k \in op.off + 1 .. op.off + n THEN op.cells[k - op.off] ELSE file[i][k]]
  <2>1. K = n /\ op.off + n <= size /\ pc' = "idle"
    BY <1>2, <1>4, <1>14 DEF K
  <2>2. Abstract!Patched(file[req.ino], req) = f
    <3>1. ~(req.off + Len(req.cells) > Len(file[req.ino]))
      BY <1>2, <1>8, <2>1 DEF n
    <3> QED
      BY <1>2, <1>8, <3>1 DEF Abstract!Patched, n
  <2>3. Len(f) = size /\ \A k \in 1..size :
          f[k] = IF k \in op.off + 1 .. op.off + K THEN op.cells[k - op.off] ELSE file[i][k]
    BY <1>2, <2>1
  <2> HIDE DEF f
  <2>4. \A k \in 1..Len(f) :
          \/ file'[i][k] = f[k]
          \/ full /\ file'[i][k] = None /\ k \in req.off + 1 .. req.off + Len(req.cells)
    BY <1>10, <1>12, <2>3
  <2>5. Abstract!Store(f)
    BY <1>2, <1>7, <1>8, <2>3, <2>4, Stored
  <2>6. req' = None
    BY <2>1 DEF req
  <2>7. Abstract!Finish
    BY <2>2, <2>5, <2>6 DEF Abstract!Finish
  <2> QED
    BY <1>2, <1>11, <2>7 DEF Abstract!Step
<1> QED
  BY <1>13, <1>14
\* iupdate gives the file its new size when every cell of the request is in
\* place.
LEMMA IupdateFinishes ==
  ASSUME IInv, IInv', StoreInv, iupdate
  PROVE  Abstract!Step
<1> DEFINE i == op.ino
           size == dinode[i].size
           n == Len(op.cells)
           jp == [mem[i] EXCEPT !.size = op.off + n]
<1>1. /\ pc = "iupdate" /\ pc' = "idle" /\ UNCHANGED <<bitmap, data>> /\ Writing
      /\ dinode' = [dinode EXCEPT ![i] = jp]
  BY DEF iupdate, Running, Writing, Ip
<1>2. /\ op \in Request /\ i \in Inums /\ op.off \in Nat /\ op.tot \in Nat /\ n \in Nat
      /\ req.ino = i /\ req.off = op.off /\ req.cells = op.cells /\ req # None
      /\ mem[i].size = size /\ size \in Nat /\ dinode[i].type # T_NONE
      /\ file[i] = CellsIn(data, dinode[i])
      /\ Views[i] = mem[i] /\ op.off <= size
  BY <1>1, ReqFacts
<1>3. /\ op.tot = n /\ op.off + n > size /\ Filled(data, Views[i], op.off + n)
      /\ op.off + n <= MAXFILE * BSIZE
  BY <1>1, <1>2 DEF IInv, WriteInv, Writing
<1>4. data \in Data /\ dinode[i] \in Inode /\ Views[i] \in Inode /\ Ahead(Views[i], dinode[i])
      /\ Filled(data, dinode[i], size)
  BY <1>2, CopiesNow
<1>5. dinode'[i] = jp /\ jp.type = dinode[i].type /\ jp.size = op.off + n /\ jp.addrs = Views[i].addrs
      /\ \A j \in Inums : j # i => dinode'[j] = dinode[j]
  <2>1. dinode'[i] = jp /\ \A j \in Inums : j # i => dinode'[j] = dinode[j]
    BY <1>1, <1>2 DEF IInv, TypeInv
  <2>2. jp.type = mem[i].type /\ jp.size = op.off + n /\ jp.addrs = mem[i].addrs
    BY <1>2, <1>4 DEF Inode
  <2> QED
    BY <1>2, <1>4, <2>1, <2>2 DEF Ahead
<1>6. dinode'[i] \in Inode
  BY <1>2, CopiesThen
<1> HIDE DEF jp
<1>7. \A x : CellIn(data, jp, x) = CellIn(data, Views[i], x)
  BY <1>5 DEF CellIn, MapIn, EntryIn
<1>8. ASSUME NEW j \in Inums, j # i PROVE file'[j] = file[j]
  BY <1>1, <1>5, <1>8, FileIs DEF FilesIn
<1>9. /\ Len(file[i]) = size /\ Len(file'[i]) = op.off + n
      /\ \A k \in 1..size : k - 1 \in 0..size - 1 /\ file[i][k] = CellIn(data, dinode[i], k - 1)
      /\ \A k \in 1..op.off + n : file'[i][k] = CellIn(data, Views[i], k - 1)
  <2>1. file'[i] = CellsIn(data, jp) /\ jp \in Inode
    BY <1>1, <1>2, <1>5, <1>6, FileIs DEF FilesIn
  <2>2. /\ Len(CellsIn(data, jp)) = jp.size
        /\ \A k \in 1..jp.size : CellsIn(data, jp)[k] = CellIn(data, jp, k - 1)
    BY <1>4, <2>1, CellsFacts
  <2>3. /\ Len(CellsIn(data, dinode[i])) = size
        /\ \A k \in 1..size : k - 1 \in 0..size - 1 /\ CellsIn(data, dinode[i])[k] = CellIn(data, dinode[i], k - 1)
    BY <1>4, CellsFacts
  <2> QED
    BY <1>2, <1>5, <1>7, <2>1, <2>2, <2>3
<1>10. ASSUME NEW k \in 1..op.off + n
       PROVE  /\ k \notin op.off + 1 .. op.off + n => file'[i][k] = file[i][k]
              /\ k \in op.off + 1 .. op.off + n =>
                   file'[i][k] = op.cells[k - op.off] \/ (full /\ file'[i][k] = None)
  <2> DEFINE x == k - 1
  <2>1. ASSUME k \notin op.off + 1 .. op.off + n PROVE file'[i][k] = file[i][k]
    <3>1. k \in 1..size
      BY <1>2, <2>1
    <3>2. x \in 0..size - 1 /\ file[i][k] = CellIn(data, dinode[i], x) /\ file'[i][k] = CellIn(data, Views[i], x)
      BY <1>9, <3>1
    <3> HIDE DEF x
    <3> QED
      BY <1>4, <3>2, CopyCells
  <2>2. ASSUME k \in op.off + 1 .. op.off + n
        PROVE  file'[i][k] = op.cells[k - op.off] \/ (full /\ file'[i][k] = None)
    <3>1. x \in op.off .. op.off + op.tot - 1 /\ x - op.off + 1 = k - op.off /\ x \in 0..(op.off + n) - 1
      <4>1. op.off \in Nat /\ op.tot = n /\ n \in Nat
        BY <1>2, <1>3
      <4> HIDE DEF n
      <4> QED
        BY <2>2, <4>1
    <3>2. file'[i][k] = CellIn(data, Views[i], x)
      BY <1>9
    <3> HIDE DEF x
    <3>3. CellIn(data, Views[i], x) \in {op.cells[x - op.off + 1], None}
      BY <1>1, <1>2, <3>1 DEF StoreInv, PlacedInv, Placed
    <3>4. MapIn(data, Views[i], x \div BSIZE) # 0
      BY <1>3, <3>1, Zenon DEF Filled
    <3>5. x \in 0..MAXFILE * BSIZE - 1
      <4> DEFINE max == MAXFILE * BSIZE
      <4>1. max \in Nat /\ op.off + n <= max
        BY <1>3, FsAssumption DEF MAXFILE
      <4> HIDE DEF max, n
      <4>2. x \in 0..max - 1
        BY <1>2, <3>1, <4>1
      <4> QED
        BY <4>2 DEF max
    <3>6. CellIn(data, Views[i], x) = None => full
      BY <1>2, <3>4, <3>5, LostCell DEF StoreInv, full
    <3>7. op.cells[x - op.off + 1] = op.cells[k - op.off]
      BY <3>1
    <3> QED
      BY <3>2, <3>3, <3>6, <3>7
  <2> QED
    BY <2>1, <2>2
<1> DEFINE f == [k \in 1..op.off + n |->
                  IF k \in op.off + 1 .. op.off + n THEN op.cells[k - op.off] ELSE file[i][k]]
<1>11. Abstract!Patched(file[req.ino], req) = f
  <2>1. req.off + Len(req.cells) > Len(file[req.ino])
    BY <1>2, <1>3, <1>9
  <2> QED
    BY <1>2, <2>1 DEF Abstract!Patched
<1>12. Len(f) = op.off + n /\ \A k \in 1..op.off + n :
         f[k] = IF k \in op.off + 1 .. op.off + n THEN op.cells[k - op.off] ELSE file[i][k]
  BY <1>2
<1> HIDE DEF f, size
<1>13. \A k \in 1..Len(f) :
         \/ file'[i][k] = f[k]
         \/ full /\ file'[i][k] = None /\ k \in req.off + 1 .. req.off + Len(req.cells)
  BY <1>2, <1>10, <1>12
<1>14. Abstract!Store(f)
  BY <1>2, <1>8, <1>9, <1>12, <1>13, Stored
<1>15. req' = None
  BY <1>1 DEF req
<1>16. Abstract!Finish
  BY <1>11, <1>14, <1>15 DEF Abstract!Finish
<1>17. full => full'
  BY <1>1 DEF full, Free
<1> QED
  BY <1>2, <1>16, <1>17 DEF Abstract!Step

\* writei starts a request within the file.
LEMMA WriteiBegins ==
  ASSUME IInv, IInv', NEW i \in Inums, NEW off \in 0..MAXFILE * BSIZE, NEW n \in 1..MaxChunk,
         NEW cells \in [1..n -> {"byte"} \X Bytes], writei(i, off, cells)
  PROVE  Abstract!Step
<1>1. /\ pc = "idle" /\ pc' = "write" /\ UNCHANGED <<bitmap, dinode, data>>
      /\ op' = Write(i, off, cells) /\ off <= ilock(i).size /\ ilock(i).type = T_FILE
  BY DEF writei, disk, Running
<1>2. ilock(i).size = dinode[i].size /\ ilock(i).type = dinode[i].type /\ dinode[i] \in Inode /\ data \in Data
  BY ViewFacts DEF IInv, Ahead, TypeInv
<1>3. /\ file[i] = CellsIn(data, dinode[i]) /\ file[i] # None /\ Len(file[i]) = dinode[i].size
  BY <1>1, <1>2, FileIs, CellsFacts DEF FilesIn, T_FILE, T_NONE
<1>4. file' = file
  BY <1>1, FileIs
<1>5. req = None
  BY <1>1 DEF req
<1>6. req' = [ino |-> i, off |-> off, cells |-> cells]
  BY <1>1 DEF req, Write
<1>7. req' # None
  <2>1. op' \in Request /\ op'.cells = cells
    BY <1>1 DEF IInv, TypeInv, Writing, Write
  <2>2. cells \in Seq(Cell) /\ off \in Nat
    BY <2>1, FsAssumption DEF Request, MAXFILE
  <2>3. req' \in [ino : Inums, off : Nat, cells : Seq(Cell)]
    BY <1>6, <2>2
  <2> QED
    BY <2>3, NoneAssumption
<1>8. off \in 0..Len(file[i])
  <2>1. off \in Nat /\ off <= dinode[i].size /\ dinode[i].size \in Nat
    BY <1>1, <1>2, CellsFacts, FsAssumption DEF MAXFILE
  <2> QED
    BY <1>3, <2>1
<1>9. Abstract!Begin(i)
  BY <1>3, <1>4, <1>5, <1>6, <1>7, <1>8 DEF Abstract!Begin
<1>10. full => full'
  BY <1>1 DEF full, Free
<1> QED
  BY <1>9, <1>10 DEF Abstract!Step
\* create makes an empty file.
LEMMA CreateMakes ==
  ASSUME IInv, IInv', NEW name \in Names, NEW type \in {T_FILE, T_DEV}, create(name, type)
  PROVE  Abstract!Step
<1>1. pc = "idle" /\ UNCHANGED <<bitmap, data>> /\ pc' = "created"
  BY DEF create, Running, IInv, TypeInv
<1>2. req' = req
  BY <1>1 DEF req
<1> DEFINE i == Min(FreeInums)
           np == NewInode(type, 0)
<1>3. FreeInums # {} /\ dinode' = [dinode EXCEPT ![i] = np]
  BY DEF create, IInv, TypeInv
<1>4. i \in Inums /\ dinode[i].type = T_NONE
  <2>1. FreeInums \subseteq Nat
    BY FsAssumption DEF FreeInums, Inums
  <2> QED
    BY <1>3, <2>1, MinMember DEF FreeInums
<1>5. np.type # T_NONE /\ np.size = 0
  BY NewInodeFacts DEF T_FILE, T_DEV, T_NONE
<1> HIDE DEF i, np
<1>6. dinode'[i] = np /\ \A j \in Inums : j # i => dinode'[j] = dinode[j]
  BY <1>3, <1>4 DEF IInv, TypeInv
<1>7. file[i] = None
  BY <1>4, FileIs DEF FilesIn
<1>8. file'[i] = << >>
  <2>1. file'[i] = CellsIn(data', np)
    BY <1>4, <1>5, <1>6, FileIs DEF FilesIn
  <2> QED
    BY <1>5, <2>1 DEF CellsIn
<1>9. \A j \in Inums : j # i => file'[j] = file[j]
  BY <1>1, <1>6, FileIs DEF FilesIn
<1>10. file' = [file EXCEPT ![i] = << >>]
  BY <1>4, <1>8, <1>9, FileIs DEF FilesIn
<1>11. Abstract!Make(i)
  BY <1>2, <1>7, <1>10 DEF Abstract!Make
<1>12. full => full'
  BY <1>1 DEF full, Free
<1> QED
  BY <1>4, <1>11, <1>12 DEF Abstract!Step

\* dirlink starts a request for the root directory.
LEMMA CreateInodeBegins ==
  ASSUME IInv, IInv', createInode
  PROVE  Abstract!Step
<1> DEFINE i == op[2]
           ip == [ilock(i) EXCEPT !.nlink = 1]
           y == FreeSlot(mem[ROOTINO])
<1>1. /\ pc = "created" /\ pc' = "write" /\ dinode' = [dinode EXCEPT ![i] = ip]
      /\ UNCHANGED <<bitmap, data>>
      /\ op' = Write(ROOTINO, y, <<op>>)
  BY DEF createInode, Running
<1>2. op \in FileEntry /\ mem[i] = None
  BY <1>1 DEF IInv, CreateInv
<1>3. i \in Inums /\ dinode[i] \in Inode /\ ilock(i) = dinode[i]
  BY <1>2 DEF FileEntry, ilock, IInv, TypeInv
<1>4. ip.type = dinode[i].type /\ ip.size = dinode[i].size /\ ip.addrs = dinode[i].addrs
  BY <1>3 DEF Inode
<1>5. y \in Nat /\ y <= dinode[ROOTINO].size
  BY <1>1, FreeSlotFacts
<1> HIDE DEF i, ip, y
<1>6. dinode'[i] = ip /\ \A j \in Inums : j # i => dinode'[j] = dinode[j]
  BY <1>1, <1>3 DEF IInv, TypeInv
<1>7. file' = file
  <2>1. \A x : CellIn(data, ip, x) = CellIn(data, dinode[i], x)
    BY <1>4 DEF CellIn, MapIn, EntryIn
  <2>2. dinode' \in [Inums -> Inode]
    BY DEF IInv, TypeInv
  <2> QED
    BY <1>1, <1>4, <1>6, <2>1, <2>2, SameFiles
<1>8. req = None
  BY <1>1 DEF req
<1>9. req' = [ino |-> ROOTINO, off |-> y, cells |-> <<op>>]
  BY <1>1 DEF req, Write
<1>10. ROOTINO \in Inums /\ dinode[ROOTINO] \in Inode /\ data \in Data /\ dinode[ROOTINO].type = T_DIR
  BY RootFacts DEF IInv, RootInv, TypeInv
<1>11. req' # None
  <2>1. <<op>> \in Seq(Cell)
    BY <1>2, CellKinds
  <2>2. req' \in [ino : Inums, off : Nat, cells : Seq(Cell)]
    BY <1>5, <1>9, <1>10, <2>1
  <2> QED
    BY <2>2, NoneAssumption
<1>12. file[ROOTINO] # None /\ Len(file[ROOTINO]) = dinode[ROOTINO].size /\ dinode[ROOTINO].size \in Nat
  BY <1>10, FileIs, CellsFacts DEF FilesIn, T_DIR, T_NONE
<1>13. Abstract!Begin(ROOTINO)
  <2>1. req'.ino = ROOTINO /\ req'.off = y /\ y \in 0..Len(file[ROOTINO])
    BY <1>5, <1>9, <1>12
  <2> QED
    BY <1>7, <1>8, <1>11, <1>12, <2>1 DEF Abstract!Begin
<1>14. full => full'
  BY <1>1 DEF full, Free
<1> QED
  BY <1>10, <1>13, <1>14 DEF Abstract!Step

\* A crash ends the request where it is.
LEMMA CrashEnds ==
  ASSUME IInv, Crash
  PROVE  Abstract!Step
<1>1. UNCHANGED <<bitmap, dinode, data>> /\ pc' = "idle"
  BY DEF Crash, disk
<1>2. file' = file /\ req' = None
  BY <1>1, FileIs DEF req
<1>3. CASE req = None
  BY <1>1, <1>2, <1>3, Hidden
<1>4. CASE req # None
  <2>1. Abstract!Crash
    BY <1>2 DEF Abstract!Crash
  <2>2. full => full'
    BY <1>1 DEF full, Free
  <2> QED
    BY <1>4, <2>1, <2>2 DEF Abstract!Step
<1> QED
  BY <1>3, <1>4

\* bmap follows a wild number only on a full disk, and create only there or
\* without a free inode.
LEMMA FaultBreaks ==
  ASSUME IInv, StoreInv, Next, pc' = "fault"
  PROVE  Abstract!Break
<1>1. CASE garbage
  <2>1. pc = "write" /\ Lacks = "garbage" /\ Writing
    BY <1>1, Reading DEF garbage, Running, Writing
  <2>2. op.ino \in Inums /\ Views[op.ino] = mem[op.ino]
    BY <2>1, AtBlock
  <2>3. NDIRECT \in Slots /\ NDIRECT <= NDIRECT
    BY FsAssumption DEF Slots
  <2>4. mem[op.ino].addrs[NDIRECT] = NoSpace
    BY <2>1 DEF Lacks, LacksIn
  <2>5. SlotIn(data, Views[op.ino], NDIRECT) = NoSpace
    BY <2>2, <2>3, <2>4 DEF SlotIn
  <2>6. full
    BY <2>2, <2>3, <2>5 DEF StoreInv, FullInv, full
  <2> QED
    BY <2>6 DEF Abstract!Break, broken, Sane
<1>2. ASSUME NEW name \in Names, NEW type \in {T_FILE, T_DEV}, create(name, type)
      PROVE  Abstract!Break
  <2> DEFINE dp == ilock(ROOTINO)
  <2>1. pc = "idle" /\ (FreeInums = {} \/ \E k \in DOMAIN Content(dp) : Content(dp)[k] = None)
    BY <1>2 DEF create, Running
  <2>2. CASE FreeInums = {}
    <3>1. ASSUME NEW i \in Inums PROVE file[i] # None
      <4>1. dinode[i].type # T_NONE
        BY <2>2 DEF FreeInums
      <4>2. dinode[i] \in Inode /\ data \in Data
        BY DEF IInv, TypeInv
      <4> QED
        BY <4>1, <4>2, FileIs, CellsFacts DEF FilesIn
    <3> QED
      BY <3>1 DEF Abstract!Break, broken, Sane
  <2>3. CASE \E k \in DOMAIN Content(dp) : Content(dp)[k] = None
    <3>1. ROOTINO \in Inums /\ dp = dinode[ROOTINO] /\ dp \in Inode /\ data \in Data
      BY <2>1, RootFacts DEF IInv, TypeInv, CopyInv, ilock, Writing
    <3>2. PICK k \in 1..dp.size : CellIn(data, dp, k - 1) = None
      BY <2>3, Reading DEF Content
    <3> HIDE DEF dp
    <3>3. dp.size \in Nat
      BY <3>1, CellsFacts
    <3>4. k - 1 \in 0..dinode[ROOTINO].size - 1
      BY <3>1, <3>2, <3>3
    <3>5. /\ (k - 1) \div BSIZE \in 0..MAXFILE - 1 /\ MapIn(data, Views[ROOTINO], (k - 1) \div BSIZE) # 0
          /\ CellIn(data, Views[ROOTINO], k - 1) = CellIn(data, dinode[ROOTINO], k - 1)
          /\ k - 1 \in 0..MAXFILE * BSIZE - 1
      <4> DEFINE x == k - 1
      <4>1. x \in 0..dinode[ROOTINO].size - 1
        BY <3>4
      <4> HIDE DEF x
      <4>2. /\ x \div BSIZE \in 0..MAXFILE - 1 /\ MapIn(data, Views[ROOTINO], x \div BSIZE) # 0
            /\ CellIn(data, Views[ROOTINO], x) = CellIn(data, dinode[ROOTINO], x)
            /\ x \in 0..MAXFILE * BSIZE - 1
        BY <3>1, <4>1, CopiesNow, CopyCells
      <4> QED
        BY <4>2 DEF x
    <3>6. full
      BY <3>1, <3>2, <3>5, LostCell DEF StoreInv, full
    <3> QED
      BY <3>6 DEF Abstract!Break, broken, Sane
  <2> QED
    BY <2>1, <2>2, <2>3
<1>3. ~createInode /\ ~balloc /\ ~bzero /\ ~bmapEntry /\ ~writeBlock /\ ~iupdate /\ ~Crash
  BY DEF createInode, balloc, bzero, bmapEntry, writeBlock, iupdate, Crash, Running
<1>4. /\ \A i, off, cells : ~writei(i, off, cells)
      /\ \A i : ~iput(i)
  BY DEF writei, iput, Running
<1> QED
  BY <1>1, <1>2, <1>3, <1>4 DEF Next

\* The image is a FileStore without a request.
LEMMA InitFiles ==
  ASSUME Init
  PROVE  Abstract!Init
<1>1. IInv
  BY InitInv
<1>2. file \in [Inums -> {None} \cup Seq(Cell)]
  <2> SUFFICES ASSUME NEW i \in Inums, dinode[i].type # T_NONE
               PROVE  CellsIn(data, dinode[i]) \in Seq(Cell)
    BY FileIs DEF FilesIn
  <2>1. i = ROOTINO
    BY NewInodeFacts DEF Init, ImageInodes
  <2>2. dinode[i] = [NewInode(T_DIR, 1) EXCEPT !.size = BSIZE, !.addrs[0] = 1]
    BY <2>1 DEF Init, ImageInodes
  <2>3. dinode[i].size = BSIZE /\ dinode[i].addrs[0] = 1 /\ 0 < NDIRECT /\ 1 \in Blocks
    BY <2>2, FsAssumption DEF NewInode, Blocks
  <2>4. data \in Data
    BY <1>1 DEF IInv, TypeInv
  <2>5. ASSUME NEW k \in 1..BSIZE PROVE CellIn(data, dinode[i], k - 1) \in Cell
    <3>1. k - 1 \in Nat /\ k - 1 < BSIZE /\ BSIZE \in Nat /\ BSIZE > 0
      BY FsAssumption
    <3>2. (k - 1) \div BSIZE = 0 /\ (k - 1) % BSIZE = k - 1
      <4> DEFINE x == k - 1
      <4>1. x \in Nat /\ x < BSIZE
        BY <3>1
      <4> HIDE DEF x
      <4>2. x \div BSIZE = 0 /\ x % BSIZE = x
        BY <3>1, <4>1
      <4> QED
        BY <4>2 DEF x
    <3>3. MapIn(data, dinode[i], 0) = 1
      BY <2>3 DEF MapIn
    <3>4. CellIn(data, dinode[i], k - 1) = data[1][k - 1]
      BY <2>3, <3>2, <3>3 DEF CellIn
    <3>5. k - 1 \in 0..BSIZE - 1
      BY <3>1
    <3>6. \A l \in 0..BSIZE - 1 : data[1][l] \in Cell
      BY <2>3, <2>4 DEF Data
    <3> QED
      BY <3>4, <3>5, <3>6
  <2>6. CellsIn(data, dinode[i]) \in [1..BSIZE -> Cell]
    BY <2>3, <2>5 DEF CellsIn
  <2> QED
    BY <2>6, FsAssumption
<1>3. req = None /\ full \in BOOLEAN /\ ~broken
  BY DEF Init, req, full, broken, Sane
<1> QED
  BY <1>2, <1>3 DEF Abstract!Init

LEMMA NextFiles ==
  ASSUME Sane => IInv, (Sane => IInv)', Sane => StoreInv, [Next]_vars
  PROVE  [Abstract!Next]_Abstract!vars
<1>1. CASE UNCHANGED vars
  BY <1>1 DEF vars, Abstract!vars, file, req, full, broken, Sane, Free, Content, CellAt, bmap, Entry
<1>2. CASE ~Sane
  <2>1. broken /\ broken'
    BY <1>2, Stuck DEF broken, Sane
  <2> QED
    BY <2>1 DEF Abstract!Next, Abstract!Break
<1>3. CASE Next /\ Sane /\ ~Sane'
  <2>1. IInv /\ StoreInv /\ Next /\ pc' = "fault"
    BY <1>3 DEF Sane
  <2> QED
    BY <2>1, FaultBreaks DEF Abstract!Next
<1>4. CASE Next /\ Sane /\ Sane'
  <2>1. IInv /\ StoreInv /\ IInv'
    BY <1>4
  <2>2. ASSUME NEW i \in Inums, iput(i) PROVE Abstract!Step
    <3>1. UNCHANGED <<bitmap, dinode, data, pc, op>>
      BY <2>2 DEF iput, disk
    <3>2. file' = file /\ req' = req
      BY <3>1, FileIs DEF req
    <3> QED
      BY <3>1, <3>2, Hidden
  <2>3. ~garbage
    BY <1>4 DEF garbage, Sane
  <2>4. Abstract!Step
    BY <1>4, <2>1, <2>2, <2>3, WriteiBegins, CreateMakes, CreateInodeBegins, BmapHidden, WriteBlockStores,
       IupdateFinishes, CrashEnds DEF Next
  <2> QED
    BY <1>4, <2>4 DEF Abstract!Next, broken
<1> QED
  BY <1>1, <1>2, <1>3, <1>4

\* Across crashes the disk is a FileStore: files change only as their write
\* requests say, and grow in one step when all new cells are in place; cells
\* are lost only on a full disk.  Other files are damaged only after bmap or
\* create has followed a wild number, and that takes a full disk or a full
\* table of inodes.
THEOREM RefinesFileStore == Spec => ImplementsFileStore
<1>1. Init => (Sane => StoreInv)
  BY InitStore
<1>2. (Sane => IInv) /\ (Sane => IInv)' /\ (Sane => StoreInv) /\ [Next]_vars => (Sane => StoreInv)'
  BY NextStore, Stuck DEF Sane
<1>3. Init => Abstract!Init
  BY InitFiles
<1>4. (Sane => IInv) /\ (Sane => IInv)' /\ (Sane => StoreInv) /\ [Next]_vars => [Abstract!Next]_Abstract!vars
  BY NextFiles
<1> QED
  BY <1>1, <1>2, <1>3, <1>4, Invariance, PTL DEF Spec, ImplementsFileStore, Abstract!Spec
===============================================================================
