---------------------------------- MODULE Fs ----------------------------------
(***************************************************************************)
(* The on-disk file system of fs/fs.c and the create of kernel/calls.c.    *)
(* Every bwrite is one step, because the machine may stop between any two  *)
(* of them: the disk keeps what was written, the kernel loses its copies.  *)
(*                                                                         *)
(* The disk is the bitmap, the table of dinodes and the data blocks; by    *)
(* module Bio a bread sees the latest bwrite.  A block is BSIZE cells.  A  *)
(* cell is a byte <<"byte", v>> of a file, a directory entry               *)
(* <<name, inum>>, an entry <<addr>> of an indirect block, or Nil, the     *)
(* zero that bzero writes.                                                 *)
(* The file system has one directory, the root: no system call makes       *)
(* another one.                                                            *)
(***************************************************************************)
EXTENDS Integers, Sequences, FiniteSets, FiniteSetsExt

CONSTANTS NDIRECT, NINDIRECT,   \* direct slots, entries of an indirect block
          BSIZE,                \* cells of a block
          NDATA,                \* data blocks are 1..NDATA
          NINODES,              \* inodes are 1..NINODES-1
          Names, Bytes,         \* names of files, contents of a cell
          RootEntries,          \* entries mkfs puts in the root directory
          MaxChunk,             \* most cells of one writei
          MaxCrashes,           \* bound on the crashes explored
          None                  \* no copy in memory, no file, no request

Blocks == 1..NDATA
Inums == 1..NINODES - 1
ROOTINO == 1
MAXFILE == NDIRECT + NINDIRECT

\* mkfs rounds the size of the root directory up to a block.  When its
\* entries fill their blocks exactly it adds a block that is not mapped; this
\* module is about the other images.  The directory has room for every inode.
ASSUME FsAssumption ==
  /\ NDIRECT \in Nat \ {0} /\ NINDIRECT \in Nat \ {0} /\ BSIZE \in Nat \ {0}
  /\ NINDIRECT <= BSIZE
  /\ NDATA \in Nat \ {0} /\ NINODES \in Nat /\ NINODES > 1
  /\ RootEntries \in 1..BSIZE - 1
  /\ RootEntries + NINODES - 2 <= MAXFILE * BSIZE
  /\ MaxChunk \in Nat \ {0} /\ MaxCrashes \in Nat
  /\ "byte" \notin Names

T_NONE == "T_NONE"
T_DIR == "T_DIR"
T_FILE == "T_FILE"
T_DEV == "T_DEV"

Nil == << >>
NoSpace == -1                     \* what balloc returns on a full disk
Addrs == {0, NoSpace} \cup Blocks

VARIABLES bitmap,    \* the data blocks marked as used, on the disk
          dinode,    \* the inodes on the disk
          data,      \* the data blocks on the disk
          mem,       \* mem[i]: the copy of inode i in icache, or None
          pc,        \* what the running system call does next
          op,        \* its local variables
          crashes    \* crashes so far

vars == <<bitmap, dinode, data, mem, pc, op, crashes>>
disk == <<bitmap, dinode, data>>

\* The locals of a writei: inode, offset, source cells, tot and the block
\* balloc returned last.
Write(i, off, cells) == [ino |-> i, off |-> off, cells |-> cells, tot |-> 0, new |-> 0]

NewInode(type, nlink) ==
  [type |-> type, nlink |-> nlink, size |-> 0, addrs |-> [k \in 0..NDIRECT |-> 0]]

\* The image mkfs writes: inoalloc makes the root directory, whose size is
\* rounded up to its block, and iappend puts "." and ".." into block 1; its free
\* entries are zero.  Files of the image are left out.
ImageInodes ==
  [i \in Inums |->
     IF i = ROOTINO THEN [NewInode(T_DIR, 1) EXCEPT !.size = BSIZE, !.addrs[0] = 1]
     ELSE NewInode(T_NONE, 0)]

ImageData ==
  [b \in Blocks |-> [k \in 0..BSIZE-1 |->
     IF b = 1 /\ k < RootEntries THEN <<".", ROOTINO>> ELSE Nil]]

\* balloc of mkfs marks what iappend has used.
ImageBitmap == {1}

Init ==
  /\ bitmap = ImageBitmap
  /\ dinode = ImageInodes
  /\ data = ImageData
  /\ mem = [i \in Inums |-> None]
  /\ pc = "idle"
  /\ op = None
  /\ crashes = 0

-----------------------------------------------------------------------------
(***************************************************************************)
(* Reading.                                                                *)
(***************************************************************************)

\* The block that entry k of the indirect block b names.
Entry(b, k) == IF Len(data[b][k]) = 1 THEN data[b][k][1] ELSE 0

\* bmap without its allocations: the address of block bn of inode ip.
bmap(ip, bn) ==
  IF bn < NDIRECT THEN ip.addrs[bn]
  ELSE IF ip.addrs[NDIRECT] \in Blocks THEN Entry(ip.addrs[NDIRECT], bn - NDIRECT)
  ELSE ip.addrs[NDIRECT]

\* readi of the cell at off.  A cell without a block reads as None.
CellAt(ip, off) ==
  LET b == bmap(ip, off \div BSIZE)
  IN IF b \in Blocks THEN data[b][off % BSIZE] ELSE None

Content(ip) == [k \in 1..ip.size |-> CellAt(ip, k - 1)]

\* ilock reads the inode from the disk unless a copy is in memory.
ilock(i) == IF mem[i] = None THEN dinode[i] ELSE mem[i]

Entries(ip) == {Content(ip)[k] : k \in DOMAIN Content(ip)} \ {Nil, None}

\* dirlookup finds the name.
dirlookup(dp, name) == \E e \in Entries(dp) : e[1] = name

\* Where dirlink puts an entry: the first free one, or the end.
FreeSlot(dp) ==
  Min({dp.size} \cup {off \in 0..dp.size - 1 : CellAt(dp, off) = Nil})

-----------------------------------------------------------------------------
(***************************************************************************)
(* writei, one bwrite at a time.                                           *)
(***************************************************************************)

Running(label) == pc = label

Ip == mem[op.ino]
Bn == (op.off + op.tot) \div BSIZE
Free == Blocks \ bitmap

\* The slot bmap finds empty for the current block, if any.
Missing ==
  IF Bn < NDIRECT
  THEN IF Ip.addrs[Bn] = 0 THEN "direct" ELSE "none"
  ELSE IF Ip.addrs[NDIRECT] = 0 THEN "indirect"
  ELSE IF Ip.addrs[NDIRECT] = NoSpace THEN "garbage"
  ELSE IF Entry(Ip.addrs[NDIRECT], Bn - NDIRECT) = 0 THEN "entry" ELSE "none"

\* Faulty variants, whose names start with Bad, stand before the definitions
\* they replace when the properties are tested for their teeth.

\* Faulty: the address of a direct block also lands in the next slot.
BadSetSlot(b) ==
  mem' = [mem EXCEPT ![op.ino].addrs =
            [k \in 0..NDIRECT |-> IF k \in Bn..Bn+1 THEN b ELSE @[k]]]

\* bmap stores address b into the slot of the copy in memory.
SetSlot(b) ==
  mem' = [mem EXCEPT ![op.ino].addrs[IF Missing = "direct" THEN Bn ELSE NDIRECT] = b]

\* bmap writes address b into the indirect block.
SetEntry(b) ==
  data' = [data EXCEPT ![Ip.addrs[NDIRECT]][Bn - NDIRECT] = <<b>>]

\* Faulty: the bitmap is not written.
BadBalloc ==
  /\ Running("write")
  /\ Missing \in {"direct", "indirect", "entry"}
  /\ Free # {}
  /\ op' = [op EXCEPT !.new = Min(Free)]
  /\ pc' = "bzero"
  /\ UNCHANGED <<disk, mem, crashes>>

\* balloc marks the first free block.  On a full disk it returns -1, which
\* bmap stores like any other address.
balloc ==
  /\ Running("write")
  /\ Missing \in {"direct", "indirect", "entry"}
  /\ UNCHANGED <<dinode, crashes>>
  /\ IF Free # {}
     THEN /\ bitmap' = bitmap \cup {Min(Free)}
          /\ op' = [op EXCEPT !.new = Min(Free)]
          /\ pc' = "bzero"
          /\ UNCHANGED <<data, mem>>
     ELSE /\ IF Missing = "entry" THEN SetEntry(NoSpace) /\ UNCHANGED mem
                                  ELSE SetSlot(NoSpace) /\ UNCHANGED data
          /\ UNCHANGED <<bitmap, op, pc>>

\* The bzero of balloc; a direct or indirect slot is then set in memory.
bzero ==
  /\ Running("bzero")
  /\ data' = [data EXCEPT ![op.new] = [k \in 0..BSIZE-1 |-> Nil]]
  /\ IF Missing = "entry"
     THEN pc' = "entry" /\ UNCHANGED mem
     ELSE pc' = "write" /\ SetSlot(op.new)
  /\ UNCHANGED <<bitmap, dinode, op, crashes>>

\* bmap's bwrite of the indirect block.
bmapEntry ==
  /\ Running("entry")
  /\ SetEntry(op.new)
  /\ pc' = "write"
  /\ UNCHANGED <<bitmap, dinode, mem, op, crashes>>

\* Where in its block writei continues, and how many cells go there.
At == (op.off + op.tot) % BSIZE
Part == Min({Len(op.cells) - op.tot, BSIZE - At})

\* Faulty: the source is not advanced from one block to the next.
BadPut(b) ==
  [data EXCEPT ![b] =
     [k \in 0..BSIZE-1 |-> IF k \in At..At + Part - 1 THEN op.cells[k - At + 1] ELSE @[k]]]

\* The memmove of writei: the next cells of the request into block b.
Put(b) ==
  [data EXCEPT ![b] =
     [k \in 0..BSIZE-1 |-> IF k \in At..At + Part - 1 THEN op.cells[op.tot + k - At + 1] ELSE @[k]]]

\* The bwrite of writei's loop.  An address that names no block makes the disk
\* refuse the write, which iderw does not report.  So it is when the indirect
\* block has no address and the word found in its place is 0, for which balloc
\* returns -1 again, or too large; garbage is the other case.
writeBlock ==
  /\ Running("write")
  /\ Missing \in {"none", "garbage"}
  /\ LET n == Len(op.cells)
         b == bmap(Ip, Bn)
     IN /\ data' = IF b \in Blocks THEN Put(b) ELSE data
        /\ op' = IF op.tot + Part = n /\ op.off + n <= Ip.size
                 THEN None ELSE [op EXCEPT !.tot = @ + Part]
        /\ pc' = IF op.tot + Part < n THEN "write"
                 ELSE IF op.off + n > Ip.size THEN "iupdate" ELSE "idle"
  /\ UNCHANGED <<bitmap, dinode, mem, crashes>>

\* Faulty: only the size is written, not the addresses.
BadIupdateSize ==
  /\ Running("iupdate")
  /\ mem' = [mem EXCEPT ![op.ino].size = op.off + Len(op.cells)]
  /\ dinode' = [dinode EXCEPT ![op.ino].size = op.off + Len(op.cells)]
  /\ pc' = "idle"
  /\ op' = None
  /\ UNCHANGED <<bitmap, data, crashes>>

\* Faulty: the call of iupdate is missing.
BadIupdateMissing ==
  /\ Running("iupdate")
  /\ mem' = [mem EXCEPT ![op.ino].size = op.off + Len(op.cells)]
  /\ pc' = "idle"
  /\ op' = None
  /\ UNCHANGED <<disk, crashes>>

\* The end of a writei that made the file longer: the new size and the new
\* addresses reach the disk in one bwrite.
iupdate ==
  /\ Running("iupdate")
  /\ LET ip == [Ip EXCEPT !.size = op.off + Len(op.cells)]
     IN /\ mem' = [mem EXCEPT ![op.ino] = ip]
        /\ dinode' = [dinode EXCEPT ![op.ino] = ip]
  /\ pc' = "idle"
  /\ op' = None
  /\ UNCHANGED <<bitmap, data, crashes>>

\* The indirect block could not be allocated: bread(-1) returns a buffer with
\* what it held before, even the cells of another file, and bmap takes its
\* words for block numbers.  When such a word names a block of this disk, writei
\* puts its cells over a block of any file or directory, over an indirect block,
\* over the bitmap (a block becomes free) or over the inodes (one loses its
\* blocks).  Nothing is promised from then on.
garbage ==
  /\ Running("write")
  /\ Missing = "garbage"
  /\ \/ /\ \E b \in Blocks : data' = Put(b)
        /\ UNCHANGED <<bitmap, dinode>>
     \/ /\ \E b \in Blocks : bitmap' = bitmap \ {b}
        /\ UNCHANGED <<dinode, data>>
     \/ /\ \E i \in Inums : dinode' = [dinode EXCEPT ![i] = NewInode(T_FILE, 0)]
        /\ UNCHANGED <<bitmap, data>>
  /\ pc' = "fault"
  /\ op' = None
  /\ UNCHANGED <<mem, crashes>>

-----------------------------------------------------------------------------
(***************************************************************************)
(* System calls.                                                           *)
(***************************************************************************)

\* filewrite of one chunk.  A file that is open was found or created under a
\* name, and its offset, which only completed reads and writes advance, is
\* within the file.
writei(i, off, cells) ==
  /\ Running("idle")
  /\ \E e \in Entries(ilock(ROOTINO)) : e[2] = i
  /\ LET ip == ilock(i)
     IN /\ ip.type = T_FILE
        /\ off <= ip.size
        /\ off + Len(cells) <= MAXFILE * BSIZE
        /\ mem' = [mem EXCEPT ![i] = ip]
  /\ op' = Write(i, off, cells)
  /\ pc' = "write"
  /\ UNCHANGED <<disk, crashes>>

FreeInums == {i \in Inums : dinode[i].type = T_NONE}

\* create of a name that dirlookup does not find, up to the bwrite of ialloc,
\* which takes the first free inode.  Without one create goes on with a null
\* pointer, whose inode number iupdate and dirlink use; with a directory block
\* that has no address, dirlookup and dirlink read a buffer with unknown content.
\* Nothing is promised in either case, not even that the disk stays as it is.
create(name, type) ==
  /\ Running("idle")
  /\ LET dp == ilock(ROOTINO)
         i  == Min(FreeInums)
     IN /\ ~dirlookup(dp, name)
        /\ IF FreeInums = {} \/ \E k \in DOMAIN Content(dp) : Content(dp)[k] = None
           THEN /\ pc' = "fault"
                /\ UNCHANGED <<dinode, mem, op>>
           ELSE /\ dinode' = [dinode EXCEPT ![i] = NewInode(type, 0)]
                /\ mem' = [mem EXCEPT ![ROOTINO] = dp]
                /\ op' = <<name, i>>
                /\ pc' = "created"
  /\ UNCHANGED <<bitmap, data, crashes>>

\* Faulty: nlink is set in memory but not written.
BadCreateInode ==
  /\ Running("created")
  /\ mem' = [mem EXCEPT ![op[2]] = [ilock(op[2]) EXCEPT !.nlink = 1]]
  /\ op' = Write(ROOTINO, FreeSlot(mem[ROOTINO]), <<op>>)
  /\ pc' = "write"
  /\ UNCHANGED <<disk, crashes>>

\* create continues: ilock reads the new inode back, nlink becomes 1, iupdate
\* writes it, and dirlink starts its writei.
createInode ==
  /\ Running("created")
  /\ LET i  == op[2]
         ip == [ilock(i) EXCEPT !.nlink = 1]
     IN /\ mem' = [mem EXCEPT ![i] = ip]
        /\ dinode' = [dinode EXCEPT ![i] = ip]
  /\ op' = Write(ROOTINO, FreeSlot(mem[ROOTINO]), <<op>>)
  /\ pc' = "write"
  /\ UNCHANGED <<bitmap, data, crashes>>

\* The last iput of an inode: its slot of icache is used for another one.
iput(i) ==
  /\ Running("idle")
  /\ mem[i] # None
  /\ mem' = [mem EXCEPT ![i] = None]
  /\ UNCHANGED <<disk, pc, op, crashes>>

\* The machine stops, and boots again.  A disk on which a wild number was
\* followed is not booted from.
Crash ==
  /\ pc # "fault"
  /\ crashes < MaxCrashes
  /\ mem' = [i \in Inums |-> None]
  /\ pc' = "idle"
  /\ op' = None
  /\ crashes' = crashes + 1
  /\ UNCHANGED disk

Next ==
  \/ \E i \in Inums, off \in 0..MAXFILE*BSIZE, n \in 1..MaxChunk :
       \E cells \in [1..n -> {"byte"} \X Bytes] : writei(i, off, cells)
  \/ \E name \in Names, type \in {T_FILE, T_DEV} : create(name, type)
  \/ createInode
  \/ balloc \/ bzero \/ bmapEntry \/ writeBlock \/ iupdate \/ garbage
  \/ \E i \in Inums : iput(i)
  \/ Crash

Spec == Init /\ [][Next]_vars

-----------------------------------------------------------------------------
(***************************************************************************)
(* Properties.  They speak of the disk, in every state: so they hold of    *)
(* what is found after a crash at any point.  They end where the kernel    *)
(* follows a wild number or pointer, which FileStore says can only be on a *)
(* full disk or without a free inode.                                      *)
(***************************************************************************)

\* No wild number has been followed.
Sane == pc # "fault"

Inode == [type : {T_NONE, T_DIR, T_FILE, T_DEV}, nlink : 0..1,
          size : 0..MAXFILE*BSIZE, addrs : [0..NDIRECT -> Addrs]]

Cell == {Nil} \cup ({"byte"} \X Bytes) \cup (({"."} \cup Names) \X Inums) \cup {<<b>> : b \in Addrs}

\* What stands for the absence of a copy, a cell, a file or a request is none
\* of them.
ASSUME NoneAssumption ==
  /\ None \notin Inode \cup Cell \cup Seq(Cell \cup {None})
  /\ None \notin [ino : Inums, off : Nat, cells : Seq(Cell)]

\* The fields of the inodes, on the disk and in icache, and the contents of
\* the blocks keep their types.
TypeOK ==
  /\ bitmap \subseteq Blocks
  /\ dinode \in [Inums -> Inode]
  /\ DOMAIN data = Blocks
  /\ \A b \in Blocks : \A k \in 0..BSIZE-1 : data[b][k] \in Cell
  /\ \A i \in Inums : mem[i] # None => mem[i] \in Inode
  /\ pc \in {"idle", "created", "write", "bzero", "entry", "iupdate", "fault"}
  /\ crashes \in 0..MaxCrashes

\* The places of the disk that name a block: <<i, k>> is slot k of inode i,
\* and behind the NDIRECT + 1 slots the entries of its indirect block.
Places == Inums \X (0..NDIRECT + NINDIRECT)

Named(p) ==
  LET ip == dinode[p[1]]
  IN IF p[2] <= NDIRECT THEN ip.addrs[p[2]]
     ELSE IF ip.addrs[NDIRECT] \in Blocks THEN Entry(ip.addrs[NDIRECT], p[2] - NDIRECT - 1)
     ELSE 0

\* balloc marks a block before anything on the disk names it: whatever a
\* crash leaves, no block that is in use can be allocated again.
BitmapCovers ==
  Sane => \A p \in Places : Named(p) \in Blocks => Named(p) \in bitmap

\* No block belongs to two files, or to one file twice.
NoSharedBlock ==
  Sane => \A p, q \in Places : Named(p) = Named(q) /\ Named(p) \in Blocks => p = q

\* create writes the inode before the entry: an entry of the root directory
\* names an initialised inode that has its link counted, and no name or inode
\* appears in two entries.
EntriesValid ==
  Sane =>
    LET es == {e \in Entries(dinode[ROOTINO]) : e[1] # "."}
    IN /\ \A e \in es : dinode[e[2]].type \in {T_FILE, T_DEV} /\ dinode[e[2]].nlink = 1
       /\ \A e, f \in es : e[1] = f[1] \/ e[2] = f[2] => e = f

\* The size on the disk never runs ahead of the addresses: readi finds a
\* block for every cell and bmap never allocates one while reading.
NoHoles ==
  Sane =>
    \A i \in Inums : \A off \in 0..dinode[i].size - 1 :
      bmap(dinode[i], off \div BSIZE) # 0

\* The last iput may drop its copy of an inode between any two system calls
\* and loses nothing: the copy has its type and says what the disk says (the
\* addresses bmap stored in memory were written by the iupdate that writei
\* ends with), and its nlink is not 0, so that iput never truncates the file (an
\* inode that a crash leaves without a link has no name and is never looked up).
DropLosesNothing ==
  Sane =>
    /\ TypeOK
    /\ pc = "idle" =>
         \A i \in Inums : mem[i] # None => mem[i] = dinode[i] /\ mem[i].nlink > 0

\* The disk as FileStore sees it: its files, the write in progress, that no
\* space is left, and that a wild number was followed.
file == [i \in Inums |-> IF dinode[i].type = T_NONE THEN None ELSE Content(dinode[i])]

req == IF pc \in {"write", "bzero", "entry", "iupdate"}
       THEN [ino |-> op.ino, off |-> op.off, cells |-> op.cells] ELSE None

full == Free = {}

broken == ~Sane

Abstract == INSTANCE FileStore WITH NoFile <- None, NoReq <- None, Lost <- None

\* Across crashes the disk is a FileStore: files change only as their write
\* requests say, and grow in one step when all new cells are in place; cells
\* are lost only on a full disk.  It stops being one only when the disk is full
\* or no inode is free: bmap or create may then damage any file.
ImplementsFileStore == Abstract!Spec

\* write returns only when the data is stored (user/init.c takes a full count
\* for success): after a writei the file's cells are all there.
WrittenIsStored ==
  pc = "idle" => \A i \in Inums : \A k \in 1..dinode[i].size : Content(dinode[i])[k] # None
===============================================================================
