--------------------------------- MODULE Mkfs ---------------------------------
(***************************************************************************)
(* The image builder utils/mkfs.c: it fills an image with the root         *)
(* directory and the files named on its command line.  The image is the    *)
(* disk of module Fs: bitmap, table of inodes, data blocks numbered from   *)
(* 1, cells as there ("." and ".." are both the entry <<".", ROOTINO>>).   *)
(* The k-th cell of the i-th file is the byte <<i, k>>.                    *)
(***************************************************************************)
EXTENDS Integers, Sequences, FiniteSetsExt

CONSTANTS NDIRECT, NINDIRECT, BSIZE, NDATA, NINODES, Names, None,   \* as in Fs
          Name(_),     \* the name of the i-th file
          MaxFiles,    \* most files on the command line
          MaxLen       \* longest file, in cells

ASSUME MkfsAssumption ==
  /\ NDIRECT \in Nat \ {0} /\ NINDIRECT \in Nat \ {0} /\ BSIZE \in Nat \ {0}
  /\ NINDIRECT <= BSIZE /\ NDATA \in Nat \ {0}
  /\ MaxLen \in Nat /\ MaxFiles \in Nat /\ MaxFiles <= NINODES - 2
  /\ \A i, j \in 1 .. MaxFiles : Name(i) = Name(j) => i = j

VARIABLES files,       \* the lengths of the files
          bitmap, dinode, data,
          freeinode, freeblock,
          pc,          \* what main does next
          fileno, pos, \* its loops: the file, and how much of it is read
          ap           \* the locals of iappend: inode, din, cells, off, and
                       \* where main goes on

vars == <<files, bitmap, dinode, data, freeinode, freeblock, pc, fileno, pos, ap>>

F == INSTANCE Fs WITH
       Bytes <- {}, RootEntries <- 2, MaxChunk <- 1, MaxCrashes <- 0,
       mem <- [i \in 1 .. NINODES - 1 |-> None], pc <- "idle", op <- None, crashes <- 0

MAXFILE == NDIRECT + NINDIRECT

\* Every block of the image is zero; the superblock is its constants.
Init ==
  /\ \E n \in 0 .. MaxFiles : files \in [1 .. n -> 0 .. MaxLen]
  /\ bitmap = {}
  /\ dinode = [i \in F!Inums |-> F!NewInode(F!T_NONE, 0)]
  /\ data = [b \in F!Blocks |-> [k \in 0 .. BSIZE - 1 |-> F!Nil]]
  /\ freeinode = 1 /\ freeblock = 1
  /\ pc = "root"
  /\ fileno = 0 /\ pos = 0
  /\ ap = None

-----------------------------------------------------------------------------
(***************************************************************************)
(* iappend.                                                                *)
(***************************************************************************)

\* rinode, and the loop begins.  A call that makes the inode reads it back.
iappend(ino, din, cells, then) ==
  /\ ap' = [ino |-> ino, din |-> din, cells |-> cells, off |-> din.size, then |-> then]
  /\ pc' = "iappend"

inoalloc(type) ==
  /\ dinode' = [dinode EXCEPT ![freeinode] = F!NewInode(type, 1)]
  /\ freeinode' = freeinode + 1

Fbn == ap.off \div BSIZE

\* Faulty: the cells are copied to the start of the block.
BadAt == 0

\* Where in its block the next cell goes.
At == ap.off % BSIZE

\* The block that a slot names, or else the next free one.
BlockOr(addr, free) == IF addr = 0 THEN free ELSE addr

\* One turn of the loop: the block is looked up or allocated, perhaps with
\* the indirect block before it, and filled.  A file that is too large ends
\* the program by an assertion, a block behind the end of the image because
\* rsect cannot read it.
iappendTurn ==
  /\ pc = "iappend" /\ ap.cells # << >>
  /\ LET direct == Fbn < NDIRECT
         slot == IF direct THEN Fbn ELSE NDIRECT
         b    == BlockOr(ap.din.addrs[slot], freeblock)
         free == Max({freeblock, b + 1})
         x    == IF direct THEN b
                 ELSE BlockOr(F!Entry(b, Fbn - NDIRECT), free)
         n1   == Min({Len(ap.cells), BSIZE - At})
     IN IF Fbn >= MAXFILE THEN pc' = "abort" /\ UNCHANGED <<data, freeblock, ap>>
        ELSE IF b > NDATA \/ x > NDATA THEN pc' = "failed" /\ UNCHANGED <<data, freeblock, ap>>
        ELSE /\ freeblock' = Max({free, x + 1})
             /\ data' = [c \in F!Blocks |-> [k \in 0 .. BSIZE - 1 |->
                  IF c = x /\ k \in At .. At + n1 - 1 THEN ap.cells[k - At + 1]
                  ELSE IF c = b /\ ~direct /\ k = Fbn - NDIRECT THEN <<x>>
                  ELSE data[c][k]]]
             /\ ap' = [ap EXCEPT !.din.addrs[slot] = b, !.off = @ + n1,
                                 !.cells = SubSeq(@, n1 + 1, Len(@))]
             /\ UNCHANGED pc
  /\ UNCHANGED <<files, bitmap, dinode, freeinode, fileno, pos>>

\* The loop has ended: winode.
iappendEnd ==
  /\ pc = "iappend" /\ ap.cells = << >>
  /\ dinode' = [dinode EXCEPT ![ap.ino] = [ap.din EXCEPT !.size = ap.off]]
  /\ pc' = ap.then
  /\ ap' = None
  /\ UNCHANGED <<files, bitmap, data, freeinode, freeblock, fileno, pos>>

-----------------------------------------------------------------------------
(***************************************************************************)
(* main.                                                                   *)
(***************************************************************************)

\* The root directory and its entry ".".
root ==
  /\ pc = "root"
  /\ inoalloc(F!T_DIR)
  /\ iappend(F!ROOTINO, F!NewInode(F!T_DIR, 1), <<<<".", F!ROOTINO>>>>, "dotdot")
  /\ UNCHANGED <<files, bitmap, data, freeblock, fileno, pos>>

dotdot ==
  /\ pc = "dotdot"
  /\ iappend(F!ROOTINO, dinode[F!ROOTINO], <<<<".", F!ROOTINO>>>>, "files")
  /\ UNCHANGED <<files, bitmap, dinode, data, freeinode, freeblock, fileno, pos>>

\* The next file gets an inode and an entry in the root directory.
nextFile ==
  /\ pc = "files" /\ fileno < Len(files)
  /\ inoalloc(F!T_FILE)
  /\ iappend(F!ROOTINO, dinode[F!ROOTINO], <<<<Name(fileno + 1), freeinode>>>>, "read")
  /\ fileno' = fileno + 1
  /\ pos' = 0
  /\ UNCHANGED <<files, bitmap, data, freeblock>>

\* A read of at most a block, appended to the file, until there is no more.
readFile ==
  /\ pc = "read"
  /\ LET cc == Min({BSIZE, files[fileno] - pos})
     IN IF cc = 0 THEN pc' = "files" /\ UNCHANGED <<ap, pos>>
        ELSE /\ iappend(freeinode - 1, dinode[freeinode - 1],
                        [k \in 1 .. cc |-> <<"byte", <<fileno, pos + k>>>>], "read")
             /\ pos' = pos + cc
  /\ UNCHANGED <<files, bitmap, dinode, data, freeinode, freeblock, fileno>>

\* Faulty: the size is rounded down.
BadRoundUp(off) == (off \div BSIZE) * BSIZE

\* The end of the block behind the last entry.
RoundUp(off) == (off \div BSIZE + 1) * BSIZE

\* The size of the root directory is rounded.
round ==
  /\ pc = "files" /\ fileno = Len(files)
  /\ dinode' = [dinode EXCEPT ![F!ROOTINO].size = RoundUp(@)]
  /\ pc' = "balloc"
  /\ UNCHANGED <<files, bitmap, data, freeinode, freeblock, fileno, pos, ap>>

\* Faulty: the last block is not marked.
BadUsed == 1 .. freeblock - 2

\* The blocks handed out so far.
Used == 1 .. freeblock - 1

balloc ==
  /\ pc = "balloc"
  /\ bitmap' = Used
  /\ pc' = "done"
  /\ UNCHANGED <<files, dinode, data, freeinode, freeblock, fileno, pos, ap>>

Next ==
  \/ root \/ dotdot \/ nextFile \/ readFile \/ round \/ balloc
  \/ iappendTurn \/ iappendEnd

Spec == Init /\ [][Next]_vars

-----------------------------------------------------------------------------
(***************************************************************************)
(* Properties of the finished image.                                       *)
(***************************************************************************)

\* The kernel starts from an image with the properties it keeps: every block
\* that is named is marked, none is named twice, entries name initialised
\* inodes.  The size of a file or directory runs ahead of its blocks only
\* for the root, and only when the entries fill their blocks exactly: main
\* rounds a full block up to the next one.
ImageConsistent ==
  pc = "done" =>
    /\ F!BitmapCovers /\ F!NoSharedBlock /\ F!EntriesValid
    /\ F!NoHoles <=> (Len(files) + 2) % BSIZE # 0

\* The image holds each file of the command line under its name, cell by
\* cell, through the direct slots and the indirect block.
ImageHoldsFiles ==
  pc = "done" =>
    \A i \in DOMAIN files : \E e \in F!Entries(dinode[F!ROOTINO]) :
      /\ e[1] = Name(i)
      /\ F!Content(dinode[e[2]]) = [k \in 1 .. files[i] |-> <<"byte", <<i, k>>>>]

\* Without files, and with room in the directory's block, the image is the
\* one that the behaviours of module Fs start from.
EmptyImageIsInit == pc = "done" /\ files = << >> => F!Init
===============================================================================
