---------------------------- MODULE FileTableProof ----------------------------
(***************************************************************************)
(* The descriptors, the open files and the inode cache, for tables of any  *)
(* size and for any paths, modes and calls: the reference counts are exact *)
(* through every path of open, mknod, exec, close and exit, the            *)
(* descriptors behave as those of module FdTable, and open opens what its  *)
(* path denotes.                                                           *)
(***************************************************************************)
EXTENDS FileTable, FiniteSetTheorems, SequenceTheorems, WellFoundedInduction, TLAPS

-----------------------------------------------------------------------------
(***************************************************************************)
(* The inductive invariant.                                                *)
(***************************************************************************)

IEntry == [inum : {0} \cup Inums, ref : Nat]

FEntry == [type : {"FD_NONE", "FD_INODE"}, ref : Nat, ip : Slots \cup {nil},
           off : Nat, readable : BOOLEAN, writable : BOOLEAN]

PathCalls(mode) ==
  [op : {"open", "mknod", "exec"}, path : Paths, omode : {mode}, ip : Slots, rest : Seq(Names)]

\* The locals of the running call.  A directory reaches the end of sys_open
\* only when it is opened for reading, and filewrite has a writable file.
CallInv ==
  /\ InPath => call \in PathCalls(call.omode) /\ (call.op = "mknod" => call.omode \in Devices)
  /\ pc = "create" => call.rest # << >>
  /\ pc = "opened" /\ call.op = "open" /\ Type(call.ip) = "T_DIR" => call.omode = O_RDONLY
  /\ pc = "filewrite" =>
       /\ call \in [op : {"write"}, f : Files, left : 1..MaxCount]
       /\ file[call.f].type = "FD_INODE" /\ file[call.f].writable
  /\ pc = "exit" => call \in [op : {"exit"}, fd : 0..NOFILE]

\* Open files and descriptors are in one-to-one correspondence.
FileInv ==
  /\ \A f \in Files :
       /\ file[f].ref \in {0, 1}
       /\ file[f].ref = 1 <=> file[f].type = "FD_INODE"
       /\ file[f].ref = 1 => file[f].ip \in Slots /\ \E fd \in Fds : ofile[fd] = f
  /\ \A fd \in Fds : ofile[fd] # nil => file[ofile[fd]].ref = 1
  /\ \A d, e \in Fds : ofile[d] = ofile[e] /\ ofile[d] # nil => d = e

Held(s) == IF InPath /\ call.ip = s THEN 1 ELSE 0
IsCwd(s) == IF cwd = s THEN 1 ELSE 0

RefInv ==
  pc # "wild" =>
    \A s \in Slots : inode[s].ref = Cardinality(OpenFilesOn(s)) + IsCwd(s) + Held(s)

\* Entries in use, of icache and of the directory, are of allocated inodes.
EntryInv ==
  /\ OneEntryPerInode
  /\ \A s \in Slots : inode[s].ref > 0 => inode[s].inum \in Inums /\ Type(s) # "T_NONE"
  /\ \A n \in Names : dir[n] # 0 => type[dir[n]] # "T_NONE"
  /\ type[ROOTINO] = "T_DIR"

IInv == TypeOK /\ CallInv /\ FileInv /\ RefInv /\ EntryInv /\ DescriptorsValid

-----------------------------------------------------------------------------
(***************************************************************************)
(* Facts about the tables.                                                 *)
(***************************************************************************)

LEMMA ConstFacts ==
  /\ Slots \subseteq Nat /\ Files \subseteq Nat /\ Fds \subseteq Nat /\ Inums \subseteq Nat \ {0}
  /\ ROOTINO \in Inums /\ 0 \in Slots /\ nil \notin Slots /\ nil \notin Files
  /\ Len(Image) \in Nat
<1>1. Len(Image) \in Nat
  BY FileTableAssumption, LenProperties
<1> QED
  BY <1>1, FileTableAssumption DEF Slots, Files, Fds, Inums, ROOTINO

LEMMA PathNames ==
  ASSUME NEW p \in Paths
  PROVE  p.elems \in Seq(Names)
<1>1. p.elems \in Seq(STRING)
  BY FileTableAssumption
<1>2. Len(p.elems) \in Nat /\ p.elems \in [1..Len(p.elems) -> STRING]
  BY <1>1, LenProperties
<1>3. p.elems \in [1..Len(p.elems) -> Names]
  BY <1>2 DEF Names, Elems
<1> QED
  BY <1>2, <1>3, SeqDef

LEMMA OpenFilesFinite ==
  ASSUME NEW s
  PROVE  /\ IsFiniteSet(OpenFilesOn(s)) /\ Cardinality(OpenFilesOn(s)) \in Nat
         /\ Cardinality(OpenFilesOn(s)) = 0 <=> OpenFilesOn(s) = {}
<1>1. IsFiniteSet(Files)
  BY FileTableAssumption, FS_Interval DEF Files
<1>2. OpenFilesOn(s) \in SUBSET Files
  BY DEF OpenFilesOn
<1>3. IsFiniteSet(OpenFilesOn(s))
  BY <1>1, <1>2, FS_Subset
<1> QED
  BY <1>3, FS_CardinalityType, FS_EmptySet

\* The types of the fields, one by one.
LEMMA Fields ==
  ASSUME IInv
  PROVE  /\ inode \in [Slots -> IEntry] /\ file \in [Files -> FEntry]
         /\ \A s \in Slots : inode[s].ref \in Nat /\ inode[s].inum \in {0} \cup Inums
         /\ \A f \in Files : file[f].off \in Nat /\ file[f].readable \in BOOLEAN
                             /\ file[f].writable \in BOOLEAN
  BY DEF IInv, TypeOK, IEntry, FEntry

\* What the kernel holds a reference to is in use.
LEMMA InUse ==
  ASSUME IInv, pc # "wild"
  PROVE  /\ \A f \in Files : file[f].type = "FD_INODE" =>
              file[f].ip \in Slots /\ inode[file[f].ip].ref > 0
         /\ InPath => inode[call.ip].ref > 0
         /\ cwd # nil => inode[cwd].ref > 0
<1>1. \A s : Cardinality(OpenFilesOn(s)) \in Nat /\ (Cardinality(OpenFilesOn(s)) = 0 <=> OpenFilesOn(s) = {})
  BY OpenFilesFinite
<1>2. \A s \in Slots : inode[s].ref = Cardinality(OpenFilesOn(s)) + IsCwd(s) + Held(s)
  BY DEF IInv, RefInv
<1>3. \A s : IsCwd(s) \in {0, 1} /\ Held(s) \in {0, 1}
  BY DEF IsCwd, Held
<1>4. ASSUME NEW f \in Files, file[f].type = "FD_INODE"
      PROVE  file[f].ip \in Slots /\ inode[file[f].ip].ref > 0
  <2>1. file[f].ip \in Slots
    BY <1>4 DEF IInv, FileInv
  <2>2. OpenFilesOn(file[f].ip) # {}
    BY <1>4 DEF OpenFilesOn
  <2>3. Cardinality(OpenFilesOn(file[f].ip)) > 0
    BY <1>1, <2>2
  <2> QED
    BY <1>1, <1>2, <1>3, <2>1, <2>3
<1>5. ASSUME InPath PROVE inode[call.ip].ref > 0
  <2>1. Held(call.ip) = 1 /\ call.ip \in Slots
    BY <1>5 DEF Held, IInv, TypeOK
  <2> QED
    BY <1>1, <1>2, <1>3, <2>1
<1>6. ASSUME cwd # nil PROVE inode[cwd].ref > 0
  <2>1. IsCwd(cwd) = 1 /\ cwd \in Slots
    BY <1>6 DEF IsCwd, IInv, TypeOK
  <2> QED
    BY <1>1, <1>2, <1>3, <2>1
<1> QED
  BY <1>4, <1>5, <1>6

\* iget takes one reference to the one entry for i.
LEMMA IgetFacts ==
  ASSUME IInv, NEW i \in Inums, NEW s \in Slots, Gets(i, s)
  PROVE  /\ iget(i, s) \in [Slots -> IEntry]
         /\ iget(i, s)[s].inum = i /\ iget(i, s)[s].ref = inode[s].ref + 1
         /\ \A t \in Slots : t # s => iget(i, s)[t] = inode[t]
         /\ \A t \in Slots : inode[t].ref > 0 => (t = s <=> inode[t].inum = i)
<1>1. \A t \in Slots : inode[t].ref \in Nat
  BY Fields
<1>2. CASE Hits(i) # {}
  <2>1. inode[s].ref > 0 /\ inode[s].inum = i
    BY <1>2 DEF Gets, First, Hits
  <2> QED
    BY <1>1, <1>2, <2>1, Fields DEF iget, IInv, EntryInv, OneEntryPerInode, IEntry
<1>3. CASE Hits(i) = {}
  <2>1. inode[s].ref = 0
    BY <1>3 DEF Gets, First, Empty
  <2>2. \A t \in Slots : ~(inode[t].ref > 0 /\ inode[t].inum = i)
    BY <1>3 DEF Hits
  <2> QED
    BY <1>1, <1>3, <2>1, <2>2, Fields DEF iget, IEntry
<1> QED
  BY <1>2, <1>3

LEMMA IputFacts ==
  ASSUME NEW ic \in [Slots -> IEntry], NEW s \in Slots, ic[s].ref > 0
  PROVE  /\ iput(ic, s) \in [Slots -> IEntry]
         /\ \A t \in Slots : /\ iput(ic, s)[t].inum = ic[t].inum
                             /\ iput(ic, s)[t].ref = IF t = s THEN ic[t].ref - 1 ELSE ic[t].ref
  BY DEF iput, IEntry

-----------------------------------------------------------------------------
(***************************************************************************)
(* Steps along a path, which move the reference of the call.               *)
(***************************************************************************)

\* Entries in use keep their inode, and inodes in use their type; files do
\* not shrink.
Keeps == \A t \in Slots : inode[t].ref > 0 => inode'[t].inum = inode[t].inum
Grows == \A i \in Inums : type[i] # "T_NONE" => type'[i] = type[i] /\ size[i] <= size'[i]

Types == {"T_NONE", "T_DIR", "T_FILE", "T_DEV", "T_CONSOLE"}
Pcs == {"user", "namex", "create", "opened", "filewrite", "exit", "wild"}

LEMMA OpenInode ==
  ASSUME IInv, pc # "wild", NEW f \in Files, file[f].type = "FD_INODE"
  PROVE  /\ file[f].ip \in Slots /\ inode[file[f].ip].ref > 0
         /\ inode[file[f].ip].inum \in Inums /\ type[inode[file[f].ip].inum] # "T_NONE"
<1>1. file[f].ip \in Slots /\ inode[file[f].ip].ref > 0
  BY InUse
<1> QED
  BY <1>1 DEF IInv, EntryInv, Type

LEMMA DescriptorsKept ==
  ASSUME IInv, pc # "wild", UNCHANGED file, Keeps, Grows, size' \in [Inums -> 0..MAXSIZE]
  PROVE  DescriptorsValid'
<1> SUFFICES ASSUME NEW f \in Files, file[f].type = "FD_INODE"
             PROVE  LET i == inode'[file[f].ip].inum IN
                    /\ type'[i] = "T_DIR" => ~file[f].writable
                    /\ ~(type'[i] \in {"T_DEV", "T_CONSOLE"}) => file[f].off <= size'[i]
  BY DEF DescriptorsValid, IsDevice
<1> DEFINE i == inode[file[f].ip].inum
<1>1. i \in Inums /\ type[i] # "T_NONE" /\ inode'[file[f].ip].inum = i
  BY OpenInode DEF Keeps
<1>2. type'[i] = type[i] /\ size[i] <= size'[i] /\ size[i] \in Nat /\ size'[i] \in Nat
  BY <1>1, FileTableAssumption DEF Grows, IInv, TypeOK
<1>3. /\ type[i] = "T_DIR" => ~file[f].writable
      /\ ~(type[i] \in {"T_DEV", "T_CONSOLE"}) => file[f].off <= size[i]
  BY DEF IInv, DescriptorsValid, IsDevice
<1>4. file[f].off \in Nat
  BY Fields
<1> HIDE DEF i
<1>5. /\ type'[i] = "T_DIR" => ~file[f].writable
      /\ ~(type'[i] \in {"T_DEV", "T_CONSOLE"}) => file[f].off <= size'[i]
  BY <1>2, <1>3, <1>4
<1> QED
  BY <1>1, <1>5

LEMMA PathStep ==
  ASSUME IInv, pc # "wild", UNCHANGED <<file, ofile, cwd>>,
         inode' \in [Slots -> IEntry], dir' \in [Names -> {0} \cup Inums],
         type' \in [Inums -> Types], size' \in [Inums -> 0..MAXSIZE], pc' \in Pcs,
         Keeps, Grows, CallInv', EntryInv',
         pc' # "wild" => \A t \in Slots : inode'[t].ref = inode[t].ref - Held(t) + Held(t)'
  PROVE  IInv'
<1>1. TypeOK'
  <2>1. InPath' => call'.ip \in Slots
    BY DEF CallInv, PathCalls
  <2> QED
    BY <2>1 DEF IInv, TypeOK, IEntry, Types, Pcs
<1>2. FileInv'
  BY DEF IInv, FileInv
<1>3. DescriptorsValid'
  BY DescriptorsKept
<1>4. RefInv'
  <2> SUFFICES ASSUME pc' # "wild", NEW s \in Slots
               PROVE  inode'[s].ref = Cardinality(OpenFilesOn(s))' + IsCwd(s)' + Held(s)'
    BY DEF RefInv
  <2>1. OpenFilesOn(s)' = OpenFilesOn(s) /\ IsCwd(s)' = IsCwd(s)
    BY DEF OpenFilesOn, IsCwd
  <2>2. inode[s].ref = Cardinality(OpenFilesOn(s)) + IsCwd(s) + Held(s)
    BY DEF IInv, RefInv
  <2>3. Cardinality(OpenFilesOn(s)) \in Nat /\ IsCwd(s) \in Nat /\ Held(s) \in Nat /\ Held(s)' \in Nat
    BY OpenFilesFinite DEF IsCwd, Held
  <2> QED
    BY <2>1, <2>2, <2>3
<1> QED
  BY <1>1, <1>2, <1>3, <1>4 DEF IInv

LEMMA DiskKept ==
  ASSUME IInv, UNCHANGED disk
  PROVE  /\ dir' \in [Names -> {0} \cup Inums] /\ type' \in [Inums -> Types]
         /\ size' \in [Inums -> 0..MAXSIZE] /\ Grows
<1>1. \A i \in Inums : size[i] <= size[i]
  BY FileTableAssumption DEF IInv, TypeOK
<1> QED
  BY <1>1 DEF IInv, TypeOK, Types, Grows, disk

\* References are given back, or taken to entries in use.
LEMMA EntriesKept ==
  ASSUME IInv, UNCHANGED disk, 
         \A t \in Slots : inode'[t].inum = inode[t].inum /\ (inode'[t].ref > 0 => inode[t].ref > 0)
  PROVE  Keeps /\ EntryInv'
<1>1. Keeps
  BY DEF Keeps
<1>2. OneEntryPerInode'
  BY DEF IInv, EntryInv, OneEntryPerInode
<1> QED
  BY <1>1, <1>2 DEF IInv, EntryInv, Type, disk

\* A reference is taken by iget, and others are given back.
LEMMA EntriesGot ==
  ASSUME IInv, NEW i \in Inums, NEW s \in Slots, Gets(i, s), Grows, type'[i] # "T_NONE",
         \A t \in Slots : /\ inode'[t].inum = iget(i, s)[t].inum
                          /\ t # s /\ inode'[t].ref > 0 => inode[t].ref > 0
  PROVE  /\ Keeps /\ OneEntryPerInode'
         /\ \A t \in Slots : inode'[t].ref > 0 => inode'[t].inum \in Inums /\ type'[inode'[t].inum] # "T_NONE"
<1>1. /\ inode'[s].inum = i
      /\ \A t \in Slots : t # s => inode'[t].inum = inode[t].inum
      /\ \A t \in Slots : inode[t].ref > 0 => (t = s <=> inode[t].inum = i)
  BY IgetFacts
<1>2. Keeps
  BY <1>1 DEF Keeps
<1>3. OneEntryPerInode'
  BY <1>1 DEF IInv, EntryInv, OneEntryPerInode
<1>4. \A t \in Slots : inode'[t].ref > 0 => inode'[t].inum \in Inums /\ type'[inode'[t].inum] # "T_NONE"
  BY <1>1 DEF IInv, EntryInv, Type, Grows
<1> QED
  BY <1>2, <1>3, <1>4

LEMMA WildIInv ==
  ASSUME IInv, pc # "wild", Wild
  PROVE  IInv'
<1>1. pc' = "wild" /\ UNCHANGED <<inode, file, ofile, cwd, disk>>
  BY DEF Wild
<1>2. Keeps /\ EntryInv'
  BY <1>1, EntriesKept
<1>3. CallInv'
  BY <1>1 DEF CallInv, InPath
<1> QED
  BY <1>1, <1>2, <1>3, Fields, DiskKept, PathStep DEF Pcs

\* namex takes its first reference.
LEMMA EnterIInv ==
  ASSUME IInv, NEW op \in {"open", "mknod", "exec"}, NEW p \in Paths, NEW omode,
         op = "mknod" => omode \in Devices, Enter(op, p, omode)
  PROVE  IInv'
<1>1. /\ pc = "user" /\ pc' = "namex" /\ UNCHANGED <<file, ofile, cwd, disk>>
      /\ IF p.abs THEN HasEntry(ROOTINO) ELSE cwd # nil
  BY DEF Enter
<1>2. PICK s \in Slots :
        /\ IF p.abs THEN Gets(ROOTINO, s) ELSE s = cwd
        /\ inode' = IF p.abs THEN iget(ROOTINO, s) ELSE idup(inode, s)
        /\ call' = [op |-> op, path |-> p, omode |-> omode, ip |-> s, rest |-> p.elems]
  BY DEF Enter
<1>3. CallInv'
  BY <1>1, <1>2, PathNames DEF CallInv, InPath, PathCalls
<1>4. \A t \in Slots : Held(t) = 0 /\ Held(t)' = IF t = s THEN 1 ELSE 0
  BY <1>1, <1>2 DEF Held, InPath
<1>5. CASE p.abs
  <2>1. ROOTINO \in Inums /\ Gets(ROOTINO, s) /\ inode' = iget(ROOTINO, s)
    BY <1>2, <1>5, ConstFacts
  <2>2. /\ inode' \in [Slots -> IEntry] /\ inode'[s].ref = inode[s].ref + 1
        /\ \A t \in Slots : t # s => inode'[t] = inode[t]
    BY <2>1, IgetFacts
  <2>3. type'[ROOTINO] # "T_NONE"
    BY <1>1 DEF IInv, EntryInv, disk
  <2>4. /\ Keeps /\ OneEntryPerInode'
        /\ \A t \in Slots : inode'[t].ref > 0 => inode'[t].inum \in Inums /\ type'[inode'[t].inum] # "T_NONE"
    BY <1>1, <2>1, <2>2, <2>3, EntriesGot, DiskKept
  <2>5. EntryInv'
    BY <1>1, <2>4 DEF IInv, EntryInv, Type, disk
  <2>6. \A t \in Slots : inode'[t].ref = inode[t].ref - Held(t) + Held(t)'
    BY <1>4, <2>2, Fields
  <2> QED
    BY <1>1, <1>3, <2>2, <2>4, <2>5, <2>6, DiskKept, PathStep DEF Pcs
<1>6. CASE ~p.abs
  <2>1. s = cwd /\ inode[s].ref > 0 /\ inode' = idup(inode, s)
    BY <1>1, <1>2, <1>6, InUse
  <2>2. /\ inode' \in [Slots -> IEntry]
        /\ \A t \in Slots : /\ inode'[t].inum = inode[t].inum
                            /\ inode'[t].ref = IF t = s THEN inode[t].ref + 1 ELSE inode[t].ref
    BY <2>1, Fields DEF idup, IEntry
  <2>3. Keeps /\ EntryInv'
    BY <1>1, <2>1, <2>2, EntriesKept
  <2>4. \A t \in Slots : inode'[t].ref = inode[t].ref - Held(t) + Held(t)'
    BY <1>4, <2>2, Fields
  <2> QED
    BY <1>1, <1>3, <2>2, <2>3, <2>4, DiskKept, PathStep DEF Pcs
<1> QED
  BY <1>5, <1>6

\* The call gives its reference back and returns.
LEMMA GiveBack ==
  ASSUME IInv, InPath, inode' = iput(inode, call.ip), Return, UNCHANGED <<file, ofile, cwd, disk>>
  PROVE  IInv'
<1>1. call.ip \in Slots /\ inode[call.ip].ref > 0 /\ pc # "wild" /\ pc' = "user"
  BY InUse DEF InPath, IInv, TypeOK, Return
<1>2. /\ inode' \in [Slots -> IEntry]
      /\ \A t \in Slots : /\ inode'[t].inum = inode[t].inum
                          /\ inode'[t].ref = IF t = call.ip THEN inode[t].ref - 1 ELSE inode[t].ref
  BY <1>1, Fields, IputFacts
<1>3. Keeps /\ EntryInv'
  <2>1. \A t \in Slots : inode'[t].ref > 0 => inode[t].ref > 0
    BY <1>1, <1>2, Fields
  <2> QED
    BY <1>2, <2>1, EntriesKept
<1>4. CallInv'
  BY <1>1 DEF CallInv, InPath
<1>5. \A t \in Slots : inode'[t].ref = inode[t].ref - Held(t) + Held(t)'
  <2>1. \A t \in Slots : Held(t)' = 0 /\ Held(t) = IF t = call.ip THEN 1 ELSE 0
    BY <1>1 DEF Held, InPath
  <2> QED
    BY <1>2, <2>1, Fields
<1> QED
  BY <1>1, <1>2, <1>3, <1>4, <1>5, DiskKept, PathStep DEF Pcs

\* The call gives its entry back for that of inode i, which may be new.
LEMMA Move ==
  ASSUME IInv, InPath, NEW i \in Inums, NEW s \in Slots, Gets(i, s),
         inode' = iput(iget(i, s), call.ip), call'.ip = s, InPath',
         pc' \in Pcs, UNCHANGED <<file, ofile, cwd>>,
         dir' \in [Names -> {0} \cup Inums], type' \in [Inums -> Types],
         size' \in [Inums -> 0..MAXSIZE], Grows, type'[i] # "T_NONE",
         \A n \in Names : dir'[n] # 0 => type'[dir'[n]] # "T_NONE",
         CallInv'
  PROVE  IInv'
<1>1. call.ip \in Slots /\ inode[call.ip].ref > 0 /\ pc # "wild"
  BY InUse DEF InPath, IInv, TypeOK
<1>2. /\ iget(i, s) \in [Slots -> IEntry]
      /\ \A t \in Slots : iget(i, s)[t].ref = IF t = s THEN inode[t].ref + 1 ELSE inode[t].ref
  BY IgetFacts
<1>3. iget(i, s)[call.ip].ref > 0
  BY <1>1, <1>2, Fields
<1>4. /\ inode' \in [Slots -> IEntry]
      /\ \A t \in Slots : /\ inode'[t].inum = iget(i, s)[t].inum
                          /\ inode'[t].ref = IF t = call.ip THEN iget(i, s)[t].ref - 1 ELSE iget(i, s)[t].ref
  BY <1>1, <1>2, <1>3, IputFacts
<1>5. \A t \in Slots : t # s /\ inode'[t].ref > 0 => inode[t].ref > 0
  BY <1>1, <1>2, <1>4, Fields
<1>6. /\ Keeps /\ OneEntryPerInode'
      /\ \A t \in Slots : inode'[t].ref > 0 => inode'[t].inum \in Inums /\ type'[inode'[t].inum] # "T_NONE"
  BY <1>4, <1>5, EntriesGot
<1>7. EntryInv'
  <2>1. type'[ROOTINO] = "T_DIR"
    BY ConstFacts DEF IInv, EntryInv, Grows
  <2> QED
    BY <1>6, <2>1 DEF EntryInv, Type
<1>8. \A t \in Slots : inode'[t].ref = inode[t].ref - Held(t) + Held(t)'
  <2>1. \A t \in Slots : /\ Held(t)' = IF t = s THEN 1 ELSE 0
                         /\ Held(t) = IF t = call.ip THEN 1 ELSE 0
    BY DEF Held
  <2> SUFFICES ASSUME NEW t \in Slots
               PROVE  inode'[t].ref = inode[t].ref - Held(t) + Held(t)'
    OBVIOUS
  <2>2. inode[t].ref \in Nat
    BY Fields
  <2>3. /\ iget(i, s)[t].ref = IF t = s THEN inode[t].ref + 1 ELSE inode[t].ref
        /\ inode'[t].ref = IF t = call.ip THEN iget(i, s)[t].ref - 1 ELSE iget(i, s)[t].ref
    BY <1>2, <1>4
  <2>4. Held(t)' = (IF t = s THEN 1 ELSE 0) /\ Held(t) = IF t = call.ip THEN 1 ELSE 0
    BY <2>1
  <2> QED
    BY <2>2, <2>3, <2>4
<1> QED
  BY <1>1, <1>4, <1>6, <1>7, <1>8, PathStep

LEMMA LookupFacts ==
  ASSUME IInv, InPath, call.rest # << >>
  PROVE  /\ Lookup \in {0} \cup Inums /\ (Lookup # 0 => type[Lookup] # "T_NONE")
         /\ Tail(call.rest) \in Seq(Names) /\ call.rest[1] \in Names
<1>1. call.rest \in Seq(Names)
  BY DEF IInv, CallInv, PathCalls
<1>2. Head(call.rest) \in Names /\ Tail(call.rest) \in Seq(Names)
  BY <1>1, HeadTailProperties
<1>3. Head(call.rest) = call.rest[1]
  BY <1>1
<1> QED
  BY <1>2, <1>3 DEF Lookup, IInv, TypeOK, EntryInv

LEMMA NamexDescendsIInv ==
  ASSUME IInv, namexDescends
  PROVE  IInv'
<1>1. /\ pc = "namex" /\ InPath /\ call.rest # << >> /\ Lookup # 0
  BY DEF namexDescends, InPath
<1>2. Lookup \in Inums /\ type[Lookup] # "T_NONE" /\ Tail(call.rest) \in Seq(Names)
  BY <1>1, LookupFacts
<1>3. CASE ~HasEntry(Lookup)
  BY <1>1, <1>3, WildIInv DEF namexDescends
<1>4. CASE HasEntry(Lookup)
  <2>1. PICK s \in Slots :
          /\ Gets(Lookup, s)
          /\ inode' = iput(iget(Lookup, s), call.ip)
          /\ call' = [call EXCEPT !.ip = s, !.rest = Tail(@)]
          /\ UNCHANGED <<file, ofile, cwd, disk, pc>>
    BY <1>4 DEF namexDescends
  <2>2. call \in PathCalls(call.omode) /\ (call.op = "mknod" => call.omode \in Devices)
    BY <1>1 DEF IInv, CallInv
  <2>3. call' \in PathCalls(call.omode) /\ call'.ip = s /\ call'.op = call.op /\ call'.omode = call.omode
    BY <1>2, <2>1, <2>2 DEF PathCalls
  <2>4. CallInv'
    BY <1>1, <2>1, <2>2, <2>3 DEF CallInv, InPath
  <2>5. /\ pc' \in Pcs /\ InPath' /\ type'[Lookup] # "T_NONE"
        /\ \A n \in Names : dir'[n] # 0 => type'[dir'[n]] # "T_NONE"
    BY <1>1, <1>2, <2>1 DEF Pcs, InPath, disk, IInv, EntryInv
  <2> QED
    BY <1>1, <1>2, <2>1, <2>3, <2>4, <2>5, DiskKept, Move
<1> QED
  BY <1>3, <1>4

\* A step that only moves the call on.
LEMMA Proceed ==
  ASSUME IInv, pc # "wild", UNCHANGED <<inode, file, ofile, cwd, disk>>, pc' \in Pcs, CallInv',
         \A t \in Slots : Held(t)' = Held(t)
  PROVE  IInv'
<1>1. Keeps /\ EntryInv'
  BY EntriesKept
<1>2. \A t \in Slots : inode'[t].ref = inode[t].ref - Held(t) + Held(t)'
  BY Fields DEF Held
<1> QED
  BY <1>1, <1>2, Fields, DiskKept, PathStep

LEMMA NamexParentIInv ==
  ASSUME IInv, namexParent
  PROVE  IInv'
<1>1. /\ pc = "namex" /\ pc' = "create" /\ InPath /\ InPath' /\ Len(call.rest) = 1
      /\ UNCHANGED <<inode, file, ofile, cwd, disk, call>>
  BY DEF namexParent, InPath
<1>2. call.rest # << >>
  BY <1>1, EmptySeq
<1>3. CallInv'
  BY <1>1, <1>2 DEF IInv, CallInv
<1>4. \A t \in Slots : Held(t)' = Held(t)
  BY <1>1 DEF Held
<1> QED
  BY <1>1, <1>3, <1>4, Proceed DEF Pcs

LEMMA NamexReturnsIInv ==
  ASSUME IInv, namexReturns
  PROVE  IInv'
<1>1. pc = "namex" /\ InPath /\ UNCHANGED <<file, ofile, cwd, disk>>
  BY DEF namexReturns, InPath
<1>2. CASE call.op = "exec" \/ (Type(call.ip) = "T_DIR" /\ call.omode # O_RDONLY)
  BY <1>1, <1>2, GiveBack DEF namexReturns
<1>3. CASE ~(call.op = "exec" \/ (Type(call.ip) = "T_DIR" /\ call.omode # O_RDONLY))
  <2>1. pc' = "opened" /\ InPath' /\ UNCHANGED <<inode, call>>
    BY <1>3 DEF namexReturns, InPath
  <2>2. CallInv'
    BY <1>1, <1>3, <2>1 DEF IInv, CallInv, Type, disk
  <2>3. \A t \in Slots : Held(t)' = Held(t)
    BY <1>1, <2>1 DEF Held
  <2> QED
    BY <1>1, <2>1, <2>2, <2>3, Proceed DEF Pcs
<1> QED
  BY <1>2, <1>3

LEMMA CreateFindsIInv ==
  ASSUME IInv, createFinds
  PROVE  IInv'
<1>1. pc = "create" /\ InPath /\ Lookup # 0 /\ call.rest # << >>
  BY DEF createFinds, InPath, IInv, CallInv
<1>2. Lookup \in Inums /\ type[Lookup] # "T_NONE"
  BY <1>1, LookupFacts
<1>3. CASE ~HasEntry(Lookup)
  BY <1>1, <1>3, WildIInv DEF createFinds
<1>4. CASE HasEntry(Lookup)
  <2>1. PICK s \in Slots :
          /\ Gets(Lookup, s)
          /\ IF call.op = "open" /\ type[Lookup] = "T_FILE"
             THEN /\ inode' = iput(iget(Lookup, s), call.ip)
                  /\ call' = [call EXCEPT !.ip = s]
                  /\ pc' = "opened"
             ELSE /\ inode' = iput(iput(iget(Lookup, s), call.ip), s)
                  /\ Return
          /\ UNCHANGED <<file, ofile, cwd, disk>>
    BY <1>4 DEF createFinds
  <2>2. call \in PathCalls(call.omode) /\ (call.op = "mknod" => call.omode \in Devices)
    BY <1>1 DEF IInv, CallInv
  <2>3. call.ip \in Slots /\ inode[call.ip].ref > 0
    BY <1>1, <2>2, InUse DEF PathCalls
  <2>4. /\ iget(Lookup, s) \in [Slots -> IEntry] /\ iget(Lookup, s)[s].inum = Lookup
        /\ \A t \in Slots : iget(Lookup, s)[t].ref = IF t = s THEN inode[t].ref + 1 ELSE inode[t].ref
        /\ \A t \in Slots : inode[t].ref > 0 => iget(Lookup, s)[t].inum = inode[t].inum
    BY <1>2, <2>1, IgetFacts
  <2>5. iget(Lookup, s)[call.ip].ref > 0
    BY <2>3, <2>4, Fields
  <2> DEFINE ic == iput(iget(Lookup, s), call.ip)
  <2>6. /\ ic \in [Slots -> IEntry]
        /\ \A t \in Slots : /\ ic[t].inum = iget(Lookup, s)[t].inum
                            /\ ic[t].ref = IF t = call.ip THEN iget(Lookup, s)[t].ref - 1 ELSE iget(Lookup, s)[t].ref
    BY <2>3, <2>4, <2>5, IputFacts
  <2>7. CASE call.op = "open" /\ type[Lookup] = "T_FILE"
    <3>1. inode' = ic /\ call' = [call EXCEPT !.ip = s] /\ pc' = "opened" /\ UNCHANGED <<file, ofile, cwd, disk>>
      BY <2>1, <2>7
    <3>2. call' \in PathCalls(call.omode) /\ call'.ip = s /\ call'.op = call.op /\ call'.omode = call.omode
      BY <2>2, <3>1 DEF PathCalls
    <3>3. Type(s)' = "T_FILE"
      BY <2>4, <2>6, <2>7, <3>1 DEF Type, disk
    <3>4. CallInv'
      BY <2>2, <3>1, <3>2, <3>3 DEF CallInv, InPath
    <3>5. /\ pc' \in Pcs /\ InPath' /\ type'[Lookup] # "T_NONE"
          /\ \A n \in Names : dir'[n] # 0 => type'[dir'[n]] # "T_NONE"
      BY <1>2, <3>1 DEF Pcs, InPath, disk, IInv, EntryInv
    <3> QED
      BY <1>1, <1>2, <2>1, <3>1, <3>2, <3>4, <3>5, DiskKept, Move
  <2>8. CASE ~(call.op = "open" /\ type[Lookup] = "T_FILE")
    <3>1. inode' = iput(ic, s) /\ pc' = "user" /\ UNCHANGED <<file, ofile, cwd, disk>>
      BY <2>1, <2>8 DEF Return
    <3>2. \A t \in Slots : inode[t].ref \in Nat
      BY Fields
    <3>3. ic[s].ref > 0
      BY <2>3, <2>4, <2>6, <3>2
    <3> HIDE DEF ic
    <3>4. /\ inode' \in [Slots -> IEntry]
          /\ \A t \in Slots : /\ inode'[t].inum = ic[t].inum
                              /\ inode'[t].ref = IF t = s THEN ic[t].ref - 1 ELSE ic[t].ref
      BY <2>6, <3>1, <3>3, IputFacts
    <3>5. \A t \in Slots : inode'[t].ref = IF t = call.ip THEN inode[t].ref - 1 ELSE inode[t].ref
      <4> SUFFICES ASSUME NEW t \in Slots
                   PROVE  inode'[t].ref = IF t = call.ip THEN inode[t].ref - 1 ELSE inode[t].ref
        OBVIOUS
      <4>1. /\ iget(Lookup, s)[t].ref = IF t = s THEN inode[t].ref + 1 ELSE inode[t].ref
            /\ ic[t].ref = IF t = call.ip THEN iget(Lookup, s)[t].ref - 1 ELSE iget(Lookup, s)[t].ref
            /\ inode'[t].ref = IF t = s THEN ic[t].ref - 1 ELSE ic[t].ref
            /\ inode[t].ref \in Nat
        BY <2>4, <2>6, <3>2, <3>4
      <4> QED
        BY <4>1
    <3>6. /\ Keeps /\ OneEntryPerInode'
          /\ \A t \in Slots : inode'[t].ref > 0 => inode'[t].inum \in Inums /\ type'[inode'[t].inum] # "T_NONE"
      <4>1. \A t \in Slots : /\ inode'[t].inum = iget(Lookup, s)[t].inum
                             /\ t # s /\ inode'[t].ref > 0 => inode[t].ref > 0
        BY <2>3, <2>6, <3>2, <3>4, <3>5
      <4>2. type'[Lookup] # "T_NONE" /\ Grows
        BY <1>2, <3>1, DiskKept DEF disk
      <4> QED
        BY <1>2, <2>1, <4>1, <4>2, EntriesGot
    <3>7. EntryInv'
      BY <3>1, <3>6 DEF IInv, EntryInv, Type, disk
    <3>8. CallInv'
      BY <3>1 DEF CallInv, InPath
    <3>9. \A t \in Slots : inode'[t].ref = inode[t].ref - Held(t) + Held(t)'
      <4>1. \A t \in Slots : Held(t)' = 0 /\ Held(t) = IF t = call.ip THEN 1 ELSE 0
        BY <1>1, <3>1 DEF Held, InPath
      <4> QED
        BY <3>2, <3>5, <4>1
    <3> QED
      BY <1>1, <3>1, <3>4, <3>6, <3>7, <3>8, <3>9, DiskKept, PathStep DEF Pcs
  <2> QED
    BY <2>7, <2>8
<1> QED
  BY <1>3, <1>4

\* The directory entry of a new inode.
LEMMA DirlinkFacts ==
  ASSUME IInv, NEW name \in Names, NEW i \in Inums, type[i] = "T_NONE", dirlink(name, i)
  PROVE  /\ dir' \in [Names -> {0} \cup Inums] /\ size' \in [Inums -> 0..MAXSIZE]
         /\ \A n \in Names : dir'[n] = dir[n] \/ dir'[n] = i
         /\ \A j \in Inums : j # i => size[j] <= size'[j]
<1> DEFINE used == Cardinality({n \in Names : dir[n] # 0})
<1>1. \/ /\ used < size[ROOTINO] \/ size[ROOTINO] < MAXSIZE
         /\ dir' = [dir EXCEPT ![name] = i]
         /\ size' = [size EXCEPT ![i] = 0, ![ROOTINO] = IF used < @ THEN @ ELSE @ + 1]
      \/ dir' = dir /\ size' = [size EXCEPT ![i] = 0]
  BY DEF dirlink
<1> HIDE DEF used
<1>2. /\ size \in [Inums -> 0..MAXSIZE] /\ dir \in [Names -> {0} \cup Inums] /\ MAXSIZE \in Nat
      /\ ROOTINO \in Inums /\ ROOTINO # i
  BY ConstFacts, FileTableAssumption DEF IInv, TypeOK, EntryInv
<1>3. dir' \in [Names -> {0} \cup Inums] /\ \A n \in Names : dir'[n] = dir[n] \/ dir'[n] = i
  BY <1>1, <1>2
<1>4. size' \in [Inums -> 0..MAXSIZE] /\ \A j \in Inums : j # i => size[j] <= size'[j]
  <2>1. CASE size' = [size EXCEPT ![i] = 0]
    BY <1>2, <2>1
  <2>2. CASE /\ used < size[ROOTINO] \/ size[ROOTINO] < MAXSIZE
             /\ size' = [size EXCEPT ![i] = 0, ![ROOTINO] = IF used < @ THEN @ ELSE @ + 1]
    <3>1. /\ DOMAIN size' = Inums /\ size' = [j \in Inums |-> size'[j]]
          /\ \A j \in Inums : size'[j] = IF j = ROOTINO
                                         THEN IF used < size[ROOTINO] THEN size[ROOTINO] ELSE size[ROOTINO] + 1
                                         ELSE IF j = i THEN 0 ELSE size[j]
      BY <1>2, <2>2
    <3>2. size[ROOTINO] \in 0..MAXSIZE
      BY <1>2
    <3>3. (IF used < size[ROOTINO] THEN size[ROOTINO] ELSE size[ROOTINO] + 1) \in size[ROOTINO]..MAXSIZE
      BY <1>2, <2>2, <3>2
    <3>4. \A j \in Inums : size'[j] \in 0..MAXSIZE /\ (j # i => size[j] <= size'[j])
      BY <1>2, <3>1, <3>2, <3>3
    <3> QED
      BY <3>1, <3>4
  <2> QED
    BY <1>1, <2>1, <2>2
<1> QED
  BY <1>3, <1>4

LEMMA CreateMakesIInv ==
  ASSUME IInv, createMakes
  PROVE  IInv'
<1>1. pc = "create" /\ InPath /\ call.rest # << >>
  BY DEF createMakes, InPath, IInv, CallInv
<1>2. call.rest[1] \in Names
  BY <1>1, LookupFacts
<1>3. CASE ~(FreeInums # {} /\ Empty # {})
  BY <1>1, <1>3, WildIInv DEF createMakes
<1>4. CASE FreeInums # {} /\ Empty # {}
  <2>1. PICK i \in FreeInums, s \in Slots :
          /\ First(FreeInums, i) /\ Gets(i, s)
          /\ type' = [type EXCEPT ![i] = IF call.op = "mknod" THEN call.omode ELSE "T_FILE"]
          /\ dirlink(call.rest[1], i)
          /\ inode' = iput(iget(i, s), call.ip)
          /\ call' = [call EXCEPT !.ip = s]
          /\ pc' = "opened"
          /\ UNCHANGED <<file, ofile, cwd>>
    BY <1>4 DEF createMakes
  <2>2. i \in Inums /\ type[i] = "T_NONE"
    BY DEF FreeInums
  <2>3. call \in PathCalls(call.omode) /\ (call.op = "mknod" => call.omode \in Devices)
    BY <1>1 DEF IInv, CallInv
  <2>4. call' \in PathCalls(call.omode) /\ call'.ip = s /\ call'.op = call.op /\ call'.omode = call.omode
    BY <2>1, <2>3 DEF PathCalls
  <2>5. /\ type' \in [Inums -> Types] /\ type'[i] # "T_NONE" /\ type'[i] # "T_DIR"
        /\ \A j \in Inums : j # i => type'[j] = type[j]
    <3>1. (IF call.op = "mknod" THEN call.omode ELSE "T_FILE") \in {"T_FILE", "T_DEV", "T_CONSOLE"}
      BY <2>3, FileTableAssumption
    <3> QED
      BY <2>1, <2>2, <3>1 DEF IInv, TypeOK, Types
  <2>6. /\ dir' \in [Names -> {0} \cup Inums] /\ size' \in [Inums -> 0..MAXSIZE]
        /\ \A n \in Names : dir'[n] = dir[n] \/ dir'[n] = i
        /\ \A j \in Inums : j # i => size[j] <= size'[j]
    BY <1>2, <2>1, <2>2, DirlinkFacts
  <2>7. Grows
    BY <2>2, <2>5, <2>6 DEF Grows
  <2>8. \A n \in Names : dir'[n] # 0 => type'[dir'[n]] # "T_NONE"
    BY <2>2, <2>5, <2>6 DEF IInv, EntryInv, TypeOK
  <2>9. Type(s)' # "T_DIR"
    <3>1. call.ip \in Slots /\ inode[call.ip].ref > 0
      BY <1>1, <2>3, InUse DEF PathCalls
    <3>2. /\ iget(i, s) \in [Slots -> IEntry] /\ iget(i, s)[s].inum = i
          /\ \A t \in Slots : iget(i, s)[t].ref = IF t = s THEN inode[t].ref + 1 ELSE inode[t].ref
      BY <2>1, <2>2, IgetFacts
    <3>3. iget(i, s)[call.ip].ref > 0
      BY <3>1, <3>2, Fields
    <3>4. inode'[s].inum = i
      BY <2>1, <3>1, <3>2, <3>3, IputFacts
    <3> QED
      BY <2>5, <3>4 DEF Type
  <2>10. CallInv'
    BY <2>1, <2>3, <2>4, <2>9 DEF CallInv, InPath
  <2>11. pc' \in Pcs /\ InPath'
    BY <2>1 DEF Pcs, InPath
  <2> QED
    BY <1>1, <2>1, <2>2, <2>4, <2>5, <2>6, <2>7, <2>8, <2>10, <2>11, Move
<1> QED
  BY <1>3, <1>4

-----------------------------------------------------------------------------
(***************************************************************************)
(* Files and descriptors.                                                  *)
(***************************************************************************)

\* The number of open files on each entry when one file is opened, or closed.
LEMMA OpenCount ==
  ASSUME NEW f \in Files, NEW s \in Slots, file[f].type # "FD_INODE",
         file'[f].type = "FD_INODE", file'[f].ip = s,
         \A g \in Files : g # f => file'[g].type = file[g].type /\ file'[g].ip = file[g].ip
  PROVE  \A t \in Slots : Cardinality(OpenFilesOn(t))'
                            = Cardinality(OpenFilesOn(t)) + IF t = s THEN 1 ELSE 0
<1> SUFFICES ASSUME NEW t \in Slots
             PROVE  Cardinality(OpenFilesOn(t)') = Cardinality(OpenFilesOn(t)) + IF t = s THEN 1 ELSE 0
  OBVIOUS
<1>1. Cardinality(OpenFilesOn(t)) \in Nat /\ IsFiniteSet(OpenFilesOn(t))
  BY OpenFilesFinite
<1>2. CASE t = s
  <2>1. OpenFilesOn(t)' = OpenFilesOn(t) \cup {f} /\ f \notin OpenFilesOn(t)
    BY <1>2 DEF OpenFilesOn
  <2> QED
    BY <1>1, <1>2, <2>1, FS_AddElement
<1>3. CASE t # s
  <2>1. OpenFilesOn(t)' = OpenFilesOn(t)
    BY <1>3 DEF OpenFilesOn
  <2> QED
    BY <1>1, <1>3, <2>1
<1> QED
  BY <1>2, <1>3

LEMMA CloseCount ==
  ASSUME NEW f \in Files, file[f].type = "FD_INODE", file'[f].type # "FD_INODE",
         \A g \in Files : g # f => file'[g].type = file[g].type /\ file'[g].ip = file[g].ip
  PROVE  \A t \in Slots : Cardinality(OpenFilesOn(t))'
                            = Cardinality(OpenFilesOn(t)) - IF t = file[f].ip THEN 1 ELSE 0
<1> SUFFICES ASSUME NEW t \in Slots
             PROVE  Cardinality(OpenFilesOn(t)')
                      = Cardinality(OpenFilesOn(t)) - IF t = file[f].ip THEN 1 ELSE 0
  OBVIOUS
<1>1. Cardinality(OpenFilesOn(t)) \in Nat /\ IsFiniteSet(OpenFilesOn(t))
  BY OpenFilesFinite
<1>2. CASE t = file[f].ip
  <2>1. OpenFilesOn(t)' = OpenFilesOn(t) \ {f} /\ f \in OpenFilesOn(t)
    BY <1>2 DEF OpenFilesOn
  <2> QED
    BY <1>1, <1>2, <2>1, FS_RemoveElement
<1>3. CASE t # file[f].ip
  <2>1. OpenFilesOn(t)' = OpenFilesOn(t)
    BY <1>3 DEF OpenFilesOn
  <2> QED
    BY <1>1, <1>3, <2>1
<1> QED
  BY <1>2, <1>3

LEMMA FilecloseFacts ==
  ASSUME NEW ft \in [Files -> FEntry], NEW f \in Files, ft[f].ref = 1
  PROVE  /\ fileclose(ft, f) \in [Files -> FEntry]
         /\ fileclose(ft, f)[f].ref = 0 /\ fileclose(ft, f)[f].type = "FD_NONE"
         /\ fileclose(ft, f)[f].ip = ft[f].ip /\ fileclose(ft, f)[f].off = ft[f].off
         /\ \A g \in Files : g # f => fileclose(ft, f)[g] = ft[g]
<1> DEFINE ft1 == [ft EXCEPT ![f].ref = @ - 1]
<1>1. ft[f] \in FEntry
  OBVIOUS
<1>2. /\ ft1 \in [Files -> FEntry] /\ ft1[f].ref = 0
      /\ ft1[f].ip = ft[f].ip /\ ft1[f].off = ft[f].off
      /\ \A g \in Files : g # f => ft1[g] = ft[g]
  BY <1>1 DEF FEntry
<1>3. fileclose(ft, f) = [ft1 EXCEPT ![f].type = "FD_NONE"]
  BY DEF fileclose
<1> HIDE DEF ft1
<1>4. ft1[f] \in FEntry
  BY <1>2
<1> QED
  BY <1>2, <1>3, <1>4 DEF FEntry

\* fileclose of a descriptor, in close and in exit.
LEMMA CloseStep ==
  ASSUME IInv, NEW fd \in Fds, ofile[fd] # nil, pc \in {"user", "exit"}, pc' = pc,
         ofile' = [ofile EXCEPT ![fd] = nil],
         file' = fileclose(file, ofile[fd]),
         inode' = filecloseInode(file, inode, ofile[fd]),
         UNCHANGED <<cwd, disk>>, CallInv'
  PROVE  IInv'
<1> DEFINE f == ofile[fd]
           s == file[f].ip
<1>1. f \in Files /\ file[f].ref = 1 /\ file[f].type = "FD_INODE"
  BY DEF IInv, TypeOK, FileInv
<1>2. s \in Slots /\ inode[s].ref > 0 /\ pc # "wild"
  BY <1>1, OpenInode
<1>3. /\ file' \in [Files -> FEntry] /\ file'[f].ref = 0 /\ file'[f].type = "FD_NONE"
      /\ \A g \in Files : g # f => file'[g] = file[g]
  BY <1>1, Fields, FilecloseFacts
<1>4. /\ inode' \in [Slots -> IEntry]
      /\ \A t \in Slots : /\ inode'[t].inum = inode[t].inum
                          /\ inode'[t].ref = IF t = s THEN inode[t].ref - 1 ELSE inode[t].ref
  <2>1. inode' = iput(inode, s)
    BY <1>1 DEF filecloseInode
  <2> QED
    BY <1>2, <2>1, Fields, IputFacts
<1>5. /\ ofile' \in [Fds -> Files \cup {nil}]
      /\ \A e \in Fds : ofile'[e] = IF e = fd THEN nil ELSE ofile[e]
  BY DEF IInv, TypeOK
<1>6. ~InPath /\ ~InPath'
  BY DEF InPath
<1> HIDE DEF f, s
<1>7. TypeOK'
  BY <1>3, <1>4, <1>5, <1>6 DEF IInv, TypeOK, IEntry, FEntry, disk
<1>8. FileInv'
  <2>1. \A e \in Fds : ofile[e] = f => e = fd
    BY <1>1, ConstFacts DEF IInv, FileInv, f
  <2>2. ASSUME NEW g \in Files
        PROVE  /\ file'[g].ref \in {0, 1}
               /\ file'[g].ref = 1 <=> file'[g].type = "FD_INODE"
               /\ file'[g].ref = 1 => file'[g].ip \in Slots /\ \E e \in Fds : ofile'[e] = g
    <3>1. CASE g = f
      BY <1>3, <3>1
    <3>2. CASE g # f
      <4>1. \A e \in Fds : ofile[e] = g => ofile'[e] = g
        BY <1>5, <3>2 DEF f
      <4> QED
        BY <1>3, <3>2, <4>1 DEF IInv, FileInv
    <3> QED
      BY <3>1, <3>2
  <2>3. \A e \in Fds : ofile'[e] # nil => file'[ofile'[e]].ref = 1
    BY <1>3, <1>5, <2>1 DEF IInv, FileInv, TypeOK
  <2>4. \A d, e \in Fds : ofile'[d] = ofile'[e] /\ ofile'[d] # nil => d = e
    BY <1>5 DEF IInv, FileInv
  <2> QED
    BY <2>2, <2>3, <2>4 DEF FileInv
<1>9. Keeps /\ EntryInv'
  <2>1. \A t \in Slots : inode'[t].ref > 0 => inode[t].ref > 0
    BY <1>2, <1>4, Fields
  <2> QED
    BY <1>4, <2>1, EntriesKept
<1>10. RefInv'
  <2> SUFFICES ASSUME NEW t \in Slots
               PROVE  inode'[t].ref = Cardinality(OpenFilesOn(t))' + IsCwd(t)' + Held(t)'
    BY DEF RefInv
  <2>1. Cardinality(OpenFilesOn(t))' = Cardinality(OpenFilesOn(t)) - IF t = s THEN 1 ELSE 0
    BY <1>1, <1>3, CloseCount DEF s
  <2>2. inode[t].ref = Cardinality(OpenFilesOn(t)) + IsCwd(t) + Held(t)
    BY <1>2 DEF IInv, RefInv
  <2>3. Held(t) = 0 /\ Held(t)' = 0 /\ IsCwd(t)' = IsCwd(t) /\ IsCwd(t) \in Nat
    BY <1>6 DEF Held, IsCwd
  <2>4. Cardinality(OpenFilesOn(t)) \in Nat
    BY OpenFilesFinite
  <2> QED
    BY <1>4, <2>1, <2>2, <2>3, <2>4
<1>11. DescriptorsValid'
  <2> SUFFICES ASSUME NEW g \in Files, file'[g].type = "FD_INODE"
               PROVE  LET i == inode'[file'[g].ip].inum IN
                      /\ type'[i] = "T_DIR" => ~file'[g].writable
                      /\ ~(type'[i] \in {"T_DEV", "T_CONSOLE"}) => file'[g].off <= size'[i]
    BY DEF DescriptorsValid, IsDevice
  <2>1. file'[g] = file[g]
    BY <1>3
  <2>2. file[g].ip \in Slots
    BY <1>2, <2>1, OpenInode
  <2>3. inode'[file[g].ip].inum = inode[file[g].ip].inum
    BY <1>4, <2>2
  <2> QED
    BY <2>1, <2>3 DEF IInv, DescriptorsValid, IsDevice, disk
<1> QED
  BY <1>7, <1>8, <1>9, <1>10, <1>11 DEF IInv

LEMMA CloseIInv ==
  ASSUME IInv, NEW fd \in Fds, close(fd)
  PROVE  IInv'
<1>1. pc = "user" /\ pc' = pc /\ ofile[fd] # nil /\ UNCHANGED <<cwd, disk, call>>
  BY DEF close, IsOpen
<1>2. CallInv'
  BY <1>1 DEF CallInv, InPath
<1> QED
  BY <1>1, <1>2, CloseStep DEF close

LEMMA ExitClosesIInv ==
  ASSUME IInv, exitCloses
  PROVE  IInv'
<1>1. /\ pc = "exit" /\ pc' = pc /\ call' = [call EXCEPT !.fd = @ + 1] /\ call.fd < NOFILE
      /\ UNCHANGED <<cwd, disk>>
  BY DEF exitCloses
<1>2. call \in [op : {"exit"}, fd : 0..NOFILE] /\ NOFILE \in Nat
  BY <1>1, FileTableAssumption DEF IInv, CallInv
<1>3. call.fd \in Fds
  BY <1>1, <1>2 DEF Fds
<1>4. call' \in [op : {"exit"}, fd : 0..NOFILE]
  BY <1>1, <1>2
<1>5. CallInv'
  BY <1>1, <1>4 DEF CallInv, InPath
<1>6. CASE ofile[call.fd] = nil
  <2>1. UNCHANGED <<inode, file, ofile>>
    BY <1>6 DEF exitCloses
  <2>2. \A t \in Slots : Held(t)' = Held(t)
    BY <1>1 DEF Held, InPath
  <2> QED
    BY <1>1, <1>5, <2>1, <2>2, Proceed DEF Pcs
<1>7. CASE ofile[call.fd] # nil
  <2>1. /\ file' = fileclose(file, ofile[call.fd])
        /\ inode' = filecloseInode(file, inode, ofile[call.fd])
        /\ ofile' = [ofile EXCEPT ![call.fd] = nil]
    BY <1>7 DEF exitCloses
  <2> QED
    BY <1>1, <1>3, <1>5, <1>7, <2>1, CloseStep
<1> QED
  BY <1>6, <1>7

\* The reference of the call becomes that of the new file.
LEMMA OpenReturnsIInv ==
  ASSUME IInv, openReturns
  PROVE  IInv'
<1>1. /\ pc = "opened" /\ InPath /\ call.op = "open" /\ pc' = "user" /\ ~InPath'
      /\ UNCHANGED <<inode, cwd, disk>>
  BY DEF openReturns, Return, InPath
<1>2. PICK f \in FreeFiles, fd \in FreeFds :
       /\ ofile' = [ofile EXCEPT ![fd] = f]
       /\ file' = [file EXCEPT ![f] =
            [type |-> "FD_INODE", ref |-> 1, ip |-> call.ip, off |-> 0,
             readable |-> O_WRONLY \notin call.omode,
             writable |-> call.omode \cap {O_WRONLY, O_RDWR} # {}]]
  BY DEF openReturns
<1>3. /\ f \in Files /\ file[f].ref = 0 /\ file[f].type # "FD_INODE"
      /\ fd \in Fds /\ ofile[fd] = nil /\ f # nil
      /\ \A e \in Fds : ofile[e] # f
  <2>1. f \in Files /\ file[f].ref = 0 /\ fd \in Fds /\ ofile[fd] = nil
    BY DEF FreeFiles, FreeFds
  <2>2. f # nil
    BY <2>1, ConstFacts
  <2> QED
    BY <2>1, <2>2 DEF IInv, FileInv
<1>4. call.ip \in Slots
  BY <1>1 DEF IInv, TypeOK
<1>5. /\ file' \in [Files -> FEntry]
      /\ file'[f].ref = 1 /\ file'[f].type = "FD_INODE" /\ file'[f].ip = call.ip /\ file'[f].off = 0
      /\ file'[f].writable = (call.omode \cap {O_WRONLY, O_RDWR} # {})
      /\ \A g \in Files : g # f => file'[g] = file[g]
  <2>1. \A w, r \in BOOLEAN :
          LET x == [type |-> "FD_INODE", ref |-> 1, ip |-> call.ip, off |-> 0,
                    readable |-> r, writable |-> w]
          IN /\ x \in FEntry /\ x.ref = 1 /\ x.type = "FD_INODE" /\ x.ip = call.ip
             /\ x.off = 0 /\ x.writable = w
    BY <1>4 DEF FEntry
  <2>2. file \in [Files -> FEntry]
    BY Fields
  <2> QED
    BY <1>2, <1>3, <2>1, <2>2
<1>6. /\ ofile' \in [Fds -> Files \cup {nil}]
      /\ \A e \in Fds : ofile'[e] = IF e = fd THEN f ELSE ofile[e]
  BY <1>2, <1>3 DEF IInv, TypeOK
<1>7. TypeOK'
  BY <1>1, <1>5, <1>6 DEF IInv, TypeOK, FEntry, disk
<1>8. FileInv'
  <2>1. ASSUME NEW g \in Files
        PROVE  /\ file'[g].ref \in {0, 1}
               /\ file'[g].ref = 1 <=> file'[g].type = "FD_INODE"
               /\ file'[g].ref = 1 => file'[g].ip \in Slots /\ \E e \in Fds : ofile'[e] = g
    <3>1. CASE g = f
      BY <1>3, <1>4, <1>5, <1>6, <3>1
    <3>2. CASE g # f
      <4>1. \A e \in Fds : ofile[e] = g => ofile'[e] = g
        BY <1>3, <1>6, <3>2, ConstFacts
      <4> QED
        BY <1>5, <3>2, <4>1 DEF IInv, FileInv
    <3> QED
      BY <3>1, <3>2
  <2>2. \A e \in Fds : ofile'[e] # nil => file'[ofile'[e]].ref = 1
    BY <1>3, <1>5, <1>6 DEF IInv, FileInv, TypeOK
  <2>3. \A d, e \in Fds : ofile'[d] = ofile'[e] /\ ofile'[d] # nil => d = e
    BY <1>3, <1>6 DEF IInv, FileInv
  <2> QED
    BY <2>1, <2>2, <2>3 DEF FileInv
<1>9. EntryInv'
  BY <1>1, EntriesKept
<1>10. CallInv'
  BY <1>1 DEF CallInv
<1>11. RefInv'
  <2> SUFFICES ASSUME NEW t \in Slots
               PROVE  inode'[t].ref = Cardinality(OpenFilesOn(t))' + IsCwd(t)' + Held(t)'
    BY DEF RefInv
  <2>1. Cardinality(OpenFilesOn(t))' = Cardinality(OpenFilesOn(t)) + IF t = call.ip THEN 1 ELSE 0
    BY <1>3, <1>4, <1>5, OpenCount
  <2>2. inode[t].ref = Cardinality(OpenFilesOn(t)) + IsCwd(t) + Held(t)
    BY <1>1 DEF IInv, RefInv
  <2>3. Held(t) = (IF t = call.ip THEN 1 ELSE 0) /\ Held(t)' = 0 /\ IsCwd(t)' = IsCwd(t) /\ IsCwd(t) \in Nat
    BY <1>1 DEF Held, IsCwd
  <2>4. Cardinality(OpenFilesOn(t)) \in Nat
    BY OpenFilesFinite
  <2> QED
    BY <1>1, <2>1, <2>2, <2>3, <2>4
<1>12. DescriptorsValid'
  <2> SUFFICES ASSUME NEW g \in Files, file'[g].type = "FD_INODE"
               PROVE  LET i == inode[file'[g].ip].inum IN
                      /\ type[i] = "T_DIR" => ~file'[g].writable
                      /\ ~(type[i] \in {"T_DEV", "T_CONSOLE"}) => file'[g].off <= size[i]
    BY <1>1 DEF DescriptorsValid, IsDevice, disk
  <2>1. CASE g = f
    <3>1. inode[call.ip].ref > 0
      BY <1>1, InUse
    <3>2. inode[call.ip].inum \in Inums
      BY <1>4, <3>1 DEF IInv, EntryInv
    <3>3. 0 <= size[inode[call.ip].inum]
      BY <3>2, FileTableAssumption DEF IInv, TypeOK
    <3>4. type[inode[call.ip].inum] = "T_DIR" => call.omode = {}
      BY <1>1 DEF IInv, CallInv, Type, O_RDONLY
    <3>5. file'[f].writable => call.omode # {}
      BY <1>5
    <3> QED
      BY <1>5, <2>1, <3>3, <3>4, <3>5
  <2>2. CASE g # f
    BY <1>5, <2>2 DEF IInv, DescriptorsValid, IsDevice
  <2> QED
    BY <2>1, <2>2
<1> QED
  BY <1>7, <1>8, <1>9, <1>10, <1>11, <1>12 DEF IInv

\* Without a descriptor the new file is closed again, and its struct file,
\* which has no type yet, does not give the inode back twice.
LEMMA OpenFailsIInv ==
  ASSUME IInv, openFails
  PROVE  IInv'
<1>1. pc = "opened" /\ InPath /\ Return /\ UNCHANGED <<ofile, cwd, disk>>
  BY DEF openFails, InPath
<1>2. CASE FreeFiles = {}
  BY <1>1, <1>2, GiveBack DEF openFails
<1>3. CASE FreeFiles # {}
  <2>1. PICK f \in FreeFiles :
          LET ft == [file EXCEPT ![f].ref = 1] IN
            /\ file' = fileclose(ft, f)
            /\ inode' = iput(filecloseInode(ft, inode, f), call.ip)
    BY <1>3 DEF openFails
  <2> DEFINE ft == [file EXCEPT ![f].ref = 1]
  <2>2. f \in Files /\ file[f].ref = 0 /\ file[f].type # "FD_INODE" /\ file[f] \in FEntry
    BY Fields DEF FreeFiles, IInv, FileInv
  <2>3. /\ ft \in [Files -> FEntry] /\ ft[f].ref = 1 /\ ft[f].type = file[f].type
        /\ ft[f].ip = file[f].ip /\ ft[f].off = file[f].off
        /\ \A g \in Files : g # f => ft[g] = file[g]
    BY <2>2, Fields DEF FEntry
  <2>4. file' = fileclose(ft, f) /\ inode' = iput(inode, call.ip)
    BY <2>1, <2>2, <2>3 DEF filecloseInode
  <2> HIDE DEF ft
  <2>5. /\ file' \in [Files -> FEntry] /\ file'[f].ref = 0 /\ file'[f].type = "FD_NONE"
        /\ \A g \in Files : g # f => file'[g] = file[g]
    BY <2>2, <2>3, <2>4, FilecloseFacts
  <2>6. \A g \in Files : file[g].type = "FD_INODE" => file'[g] = file[g]
    BY <2>2, <2>5
  <2>7. \A g \in Files : file'[g].type = "FD_INODE" => file'[g] = file[g]
    BY <2>5
  <2>8. \A t : OpenFilesOn(t)' = OpenFilesOn(t)
    BY <2>6, <2>7 DEF OpenFilesOn
  <2>9. call.ip \in Slots /\ inode[call.ip].ref > 0 /\ pc' = "user"
    BY <1>1, InUse DEF InPath, IInv, TypeOK, Return
  <2>10. /\ inode' \in [Slots -> IEntry]
         /\ \A t \in Slots : /\ inode'[t].inum = inode[t].inum
                             /\ inode'[t].ref = IF t = call.ip THEN inode[t].ref - 1 ELSE inode[t].ref
    BY <2>4, <2>9, Fields, IputFacts
  <2>11. TypeOK'
    BY <1>1, <2>5, <2>9, <2>10 DEF IInv, TypeOK, InPath, IEntry, FEntry, disk
  <2>12. FileInv'
    <3>1. ASSUME NEW g \in Files
          PROVE  /\ file'[g].ref \in {0, 1}
                 /\ file'[g].ref = 1 <=> file'[g].type = "FD_INODE"
                 /\ file'[g].ref = 1 => file'[g].ip \in Slots /\ \E e \in Fds : ofile'[e] = g
      <4>1. CASE g = f
        BY <2>5, <4>1
      <4>2. CASE g # f
        BY <1>1, <2>5, <4>2 DEF IInv, FileInv
      <4> QED
        BY <4>1, <4>2
    <3>2. \A e \in Fds : ofile'[e] # nil => file'[ofile'[e]].ref = 1
      BY <1>1, <2>2, <2>5 DEF IInv, FileInv, TypeOK
    <3>3. \A d, e \in Fds : ofile'[d] = ofile'[e] /\ ofile'[d] # nil => d = e
      BY <1>1 DEF IInv, FileInv
    <3> QED
      BY <3>1, <3>2, <3>3 DEF FileInv
  <2>13. EntryInv'
    <3>1. \A t \in Slots : inode'[t].ref > 0 => inode[t].ref > 0
      BY <2>9, <2>10, Fields
    <3> QED
      BY <1>1, <2>10, <3>1, EntriesKept
  <2>14. CallInv'
    BY <2>9 DEF CallInv, InPath
  <2>15. RefInv'
    <3> SUFFICES ASSUME NEW t \in Slots
                 PROVE  inode'[t].ref = Cardinality(OpenFilesOn(t)') + IsCwd(t)' + Held(t)'
      BY DEF RefInv
    <3>1. inode[t].ref = Cardinality(OpenFilesOn(t)) + IsCwd(t) + Held(t)
      BY <1>1 DEF IInv, RefInv
    <3>2. Held(t) = (IF t = call.ip THEN 1 ELSE 0) /\ Held(t)' = 0 /\ IsCwd(t)' = IsCwd(t) /\ IsCwd(t) \in Nat
      BY <1>1, <2>9 DEF Held, IsCwd, InPath
    <3>3. Cardinality(OpenFilesOn(t)) \in Nat
      BY OpenFilesFinite
    <3> QED
      BY <2>8, <2>10, <3>1, <3>2, <3>3
  <2>16. DescriptorsValid'
    <3> SUFFICES ASSUME NEW g \in Files, file'[g].type = "FD_INODE"
                 PROVE  LET i == inode'[file'[g].ip].inum IN
                        /\ type[i] = "T_DIR" => ~file'[g].writable
                        /\ ~(type[i] \in {"T_DEV", "T_CONSOLE"}) => file'[g].off <= size[i]
      BY <1>1 DEF DescriptorsValid, IsDevice, disk
    <3>1. file'[g] = file[g]
      BY <2>7
    <3>2. file[g].ip \in Slots
      BY <1>1, <3>1, OpenInode
    <3> QED
      BY <2>10, <3>1, <3>2 DEF IInv, DescriptorsValid, IsDevice
  <2> QED
    BY <2>11, <2>12, <2>13, <2>14, <2>15, <2>16 DEF IInv
<1> QED
  BY <1>2, <1>3

\* The offset of an open file moves forward, within the file.
LEMMA OffsetStep ==
  ASSUME IInv, pc # "wild", NEW f \in Files, file[f].type = "FD_INODE", NEW off \in Nat,
         file' = [file EXCEPT ![f].off = off],
         UNCHANGED <<inode, ofile, cwd, dir, type>>,
         size' \in [Inums -> 0..MAXSIZE], \A j \in Inums : size[j] <= size'[j],
         LET i == inode[file[f].ip].inum IN ~IsDevice(i) => off <= size'[i],
         pc' \in Pcs, ~InPath, ~InPath', CallInv'
  PROVE  IInv'
<1>1. file[f] \in FEntry /\ file \in [Files -> FEntry]
  BY Fields
<1>2. /\ file' \in [Files -> FEntry]
      /\ \A g \in Files : /\ file'[g].type = file[g].type /\ file'[g].ref = file[g].ref
                          /\ file'[g].ip = file[g].ip /\ file'[g].writable = file[g].writable
                          /\ file'[g].off = IF g = f THEN off ELSE file[g].off
  BY <1>1 DEF FEntry
<1>3. TypeOK'
  BY <1>2 DEF IInv, TypeOK, FEntry, Pcs
<1>4. FileInv'
  <2>1. \A fd \in Fds : ofile[fd] # nil => ofile[fd] \in Files
    BY DEF IInv, TypeOK
  <2>2. \A fd \in Fds : ofile[fd] # nil => file'[ofile[fd]].ref = 1
    BY <1>2, <2>1 DEF IInv, FileInv
  <2> QED
    BY <1>2, <2>2 DEF IInv, FileInv
<1>5. EntryInv'
  BY DEF IInv, EntryInv, OneEntryPerInode, Type
<1>6. RefInv'
  <2>1. \A t : OpenFilesOn(t)' = OpenFilesOn(t) /\ IsCwd(t)' = IsCwd(t) /\ Held(t)' = Held(t)
    BY <1>2 DEF OpenFilesOn, IsCwd, Held
  <2> QED
    BY <2>1 DEF IInv, RefInv
<1>7. DescriptorsValid'
  <2> SUFFICES ASSUME NEW g \in Files, file[g].type = "FD_INODE"
               PROVE  LET i == inode[file[g].ip].inum IN
                      /\ type[i] = "T_DIR" => ~file[g].writable
                      /\ ~(type[i] \in {"T_DEV", "T_CONSOLE"}) => file'[g].off <= size'[i]
    BY <1>2 DEF DescriptorsValid, IsDevice
  <2> DEFINE i == inode[file[g].ip].inum
  <2>1. i \in Inums
    BY OpenInode
  <2>2. size[i] \in Nat /\ size'[i] \in Nat /\ size[i] <= size'[i] /\ file[g].off \in Nat
    BY <2>1, Fields, FileTableAssumption DEF IInv, TypeOK
  <2>3. /\ type[i] = "T_DIR" => ~file[g].writable
        /\ ~(type[i] \in {"T_DEV", "T_CONSOLE"}) => file[g].off <= size[i]
    BY DEF IInv, DescriptorsValid, IsDevice
  <2>4. CASE g = f
    BY <1>2, <2>3, <2>4 DEF IsDevice
  <2>5. CASE g # f
    <3> HIDE DEF i
    <3>1. file'[g].off = file[g].off
      BY <1>2, <2>5
    <3>2. ~(type[i] \in {"T_DEV", "T_CONSOLE"}) => file'[g].off <= size'[i]
      BY <2>2, <2>3, <3>1
    <3> QED
      BY <2>3, <3>2 DEF i
  <2> QED
    BY <2>4, <2>5
<1> QED
  BY <1>3, <1>4, <1>5, <1>6, <1>7 DEF IInv

LEMMA OpenFd ==
  ASSUME IInv, NEW fd \in Fds, IsOpen(fd)
  PROVE  ofile[fd] \in Files /\ file[ofile[fd]].type = "FD_INODE"
  BY DEF IsOpen, IInv, TypeOK, FileInv

LEMMA ReadIInv ==
  ASSUME IInv, NEW fd \in Fds, NEW n \in 1..MaxCount, read(fd, n)
  PROVE  IInv'
<1> DEFINE f == ofile[fd]
           i == inode[file[f].ip].inum
           off == file[f].off + LesserOf(n, size[i] - file[f].off)
<1>1. /\ pc = "user" /\ IsOpen(fd) /\ UNCHANGED <<inode, ofile, cwd, disk, pc, call>>
      /\ ~IsDevice(i) /\ file[f].off <= size[i]
      /\ file' = [file EXCEPT ![f].off = off]
  BY DEF read
<1>2. f \in Files /\ file[f].type = "FD_INODE"
  BY <1>1, OpenFd
<1>3. size \in [Inums -> 0..MAXSIZE] /\ MAXSIZE \in Nat /\ MaxCount \in Nat
  BY FileTableAssumption DEF IInv, TypeOK
<1>4. i \in Inums /\ size[i] \in Nat /\ file[f].off \in Nat
  BY <1>1, <1>2, <1>3, OpenInode, Fields
<1>5. off \in Nat /\ off <= size[i]
  BY <1>1, <1>3, <1>4 DEF LesserOf
<1> HIDE DEF off
<1>6. \A j \in Inums : size[j] <= size[j]
  BY <1>3
<1>7. ~InPath /\ ~InPath' /\ CallInv'
  BY <1>1 DEF InPath, CallInv
<1> QED
  BY <1>1, <1>2, <1>3, <1>5, <1>6, <1>7, OffsetStep DEF disk, Pcs

LEMMA WriteIInv ==
  ASSUME IInv, NEW fd \in Fds, NEW n \in 1..MaxCount, write(fd, n)
  PROVE  IInv'
<1>1. /\ pc = "user" /\ IsOpen(fd) /\ pc' = "filewrite" /\ file[ofile[fd]].writable
      /\ call' = [op |-> "write", f |-> ofile[fd], left |-> n]
      /\ UNCHANGED <<inode, file, ofile, cwd, disk>>
  BY DEF write
<1>2. ofile[fd] \in Files /\ file[ofile[fd]].type = "FD_INODE"
  BY <1>1, OpenFd
<1>3. CallInv'
  BY <1>1, <1>2 DEF CallInv, InPath
<1>4. \A t \in Slots : Held(t)' = Held(t)
  BY <1>1 DEF Held, InPath
<1> QED
  BY <1>1, <1>3, <1>4, Proceed DEF Pcs

LEMMA FilewriteIInv ==
  ASSUME IInv, filewrite
  PROVE  IInv'
<1> DEFINE f == call.f
           i == inode[file[f].ip].inum
           n1 == LesserOf(call.left, MaxChunk)
           end == file[f].off + n1
<1>1. pc = "filewrite" /\ UNCHANGED <<inode, ofile, cwd, dir, type>>
  BY DEF filewrite
<1>2. /\ call \in [op : {"write"}, f : Files, left : 1..MaxCount]
      /\ file[f].type = "FD_INODE" /\ file[f].writable
  BY <1>1 DEF IInv, CallInv
<1>3. f \in Files /\ call.left \in 1..MaxCount
  BY <1>2
<1>4. size \in [Inums -> 0..MAXSIZE] /\ MAXSIZE \in Nat /\ MaxChunk \in Nat \ {0} /\ MaxCount \in Nat
  BY FileTableAssumption DEF IInv, TypeOK
<1>5. i \in Inums /\ size[i] \in 0..MAXSIZE /\ file[f].off \in Nat
  BY <1>1, <1>2, <1>3, <1>4, OpenInode, Fields
<1>6. n1 \in 1..call.left /\ end \in Nat /\ call.left - n1 \in Nat
  BY <1>3, <1>4, <1>5 DEF LesserOf
<1>7. CASE ~Accepts(i, file[f].off, n1)
  <2>1. Return /\ UNCHANGED <<file, size>>
    BY <1>7 DEF filewrite
  <2>2. CallInv'
    BY <2>1 DEF CallInv, InPath, Return
  <2>3. \A t \in Slots : Held(t)' = Held(t)
    BY <1>1, <2>1 DEF Held, InPath, Return
  <2> QED
    BY <1>1, <2>1, <2>2, <2>3, Proceed DEF Pcs, Return, disk
<1>8. CASE Accepts(i, file[f].off, n1)
  <2>1. /\ file' = [file EXCEPT ![f].off = end]
        /\ size' = [size EXCEPT ![i] = Grown(i, end)]
        /\ IF call.left = n1 THEN Return
           ELSE call' = [call EXCEPT !.left = @ - n1] /\ UNCHANGED pc
    BY <1>8 DEF filewrite
  <2>2. Grown(i, end) \in size[i]..MAXSIZE /\ (~IsDevice(i) => end <= Grown(i, end))
    BY <1>4, <1>5, <1>6, <1>8 DEF Accepts, Grown, IsDevice
  <2> HIDE DEF i, n1, end
  <2>3. /\ size' \in [Inums -> 0..MAXSIZE] /\ (~IsDevice(i) => end <= size'[i])
        /\ \A j \in Inums : size[j] <= size'[j]
    BY <1>4, <1>5, <2>1, <2>2
  <2>4. pc' \in Pcs /\ ~InPath /\ ~InPath'
    BY <1>1, <2>1 DEF InPath, Return, Pcs
  <2>5. CallInv'
    <3>1. CASE call.left = n1
      BY <2>1, <3>1 DEF CallInv, InPath, Return
    <3>2. CASE call.left # n1
      <4>1. call' = [call EXCEPT !.left = @ - n1] /\ pc' = "filewrite"
        BY <1>1, <2>1, <3>2
      <4>2. call.left - n1 \in 1..MaxCount
        BY <1>3, <1>4, <1>6, <3>2
      <4>3. call' \in [op : {"write"}, f : Files, left : 1..MaxCount] /\ call'.f = f
        BY <1>2, <4>1, <4>2
      <4>4. file'[f].type = "FD_INODE" /\ file'[f].writable
        BY <1>2, <1>3, <2>1, Fields DEF FEntry
      <4> QED
        BY <4>1, <4>3, <4>4 DEF CallInv, InPath
    <3> QED
      BY <3>1, <3>2
  <2> QED
    BY <1>1, <1>2, <1>3, <1>6, <2>1, <2>3, <2>4, <2>5, OffsetStep DEF i
<1> QED
  BY <1>7, <1>8

LEMMA ExitBeginsIInv ==
  ASSUME IInv, exitBegins
  PROVE  IInv'
<1>1. /\ pc = "user" /\ pc' = "exit" /\ call' = [op |-> "exit", fd |-> 0]
      /\ UNCHANGED <<inode, file, ofile, cwd, disk>>
  BY DEF exitBegins
<1>2. CallInv'
  BY <1>1, FileTableAssumption DEF CallInv, InPath
<1>3. \A t \in Slots : Held(t)' = Held(t)
  BY <1>1 DEF Held, InPath
<1> QED
  BY <1>1, <1>2, <1>3, Proceed DEF Pcs

\* The working directory is given back.
LEMMA ExitReturnsIInv ==
  ASSUME IInv, exitReturns
  PROVE  IInv'
<1>1. pc = "exit"
  BY DEF exitReturns
<1>2. CASE cwd = nil
  BY <1>1, <1>2, WildIInv DEF exitReturns
<1>3. CASE cwd # nil
  <2>1. inode' = iput(inode, cwd) /\ cwd' = nil /\ pc' = "user" /\ UNCHANGED <<file, ofile, disk>>
    BY <1>3 DEF exitReturns, Return
  <2>2. cwd \in Slots /\ inode[cwd].ref > 0
    BY <1>1, <1>3, InUse DEF IInv, TypeOK
  <2>3. /\ inode' \in [Slots -> IEntry]
        /\ \A t \in Slots : /\ inode'[t].inum = inode[t].inum
                            /\ inode'[t].ref = IF t = cwd THEN inode[t].ref - 1 ELSE inode[t].ref
    BY <2>1, <2>2, Fields, IputFacts
  <2>4. Keeps /\ EntryInv'
    <3>1. \A t \in Slots : inode'[t].ref > 0 => inode[t].ref > 0
      BY <2>2, <2>3, Fields
    <3> QED
      BY <2>1, <2>3, <3>1, EntriesKept
  <2>5. TypeOK'
    BY <2>1, <2>3 DEF IInv, TypeOK, IEntry, InPath, disk
  <2>6. CallInv' /\ FileInv'
    BY <2>1 DEF CallInv, InPath, IInv, FileInv
  <2>7. RefInv'
    <3> SUFFICES ASSUME NEW t \in Slots
                 PROVE  inode'[t].ref = Cardinality(OpenFilesOn(t)') + IsCwd(t)' + Held(t)'
      BY DEF RefInv
    <3>1. inode[t].ref = Cardinality(OpenFilesOn(t)) + IsCwd(t) + Held(t)
      BY <1>1 DEF IInv, RefInv
    <3>2. Held(t) = 0 /\ Held(t)' = 0 /\ OpenFilesOn(t)' = OpenFilesOn(t)
      BY <1>1, <2>1 DEF Held, InPath, OpenFilesOn
    <3>3. IsCwd(t)' = 0 /\ IsCwd(t) = IF t = cwd THEN 1 ELSE 0
      BY <2>1, ConstFacts DEF IsCwd
    <3>4. Cardinality(OpenFilesOn(t)) \in Nat
      BY OpenFilesFinite
    <3> QED
      BY <2>3, <3>1, <3>2, <3>3, <3>4
  <2>8. DescriptorsValid'
    BY <1>1, <2>1, <2>4, DiskKept, DescriptorsKept
  <2> QED
    BY <2>4, <2>5, <2>6, <2>7, <2>8 DEF IInv
<1> QED
  BY <1>2, <1>3

-----------------------------------------------------------------------------
(***************************************************************************)
(* The invariant holds.                                                    *)
(***************************************************************************)

LEMMA InitIInv ==
  ASSUME Init
  PROVE  IInv
<1>1. /\ inode = [s \in Slots |-> IF s = 0 THEN [inum |-> ROOTINO, ref |-> 1]
                                           ELSE [inum |-> 0, ref |-> 0]]
      /\ file = [f \in Files |-> NoFile] /\ ofile = [fd \in Fds |-> nil] /\ cwd = 0
      /\ pc = "user" /\ ~InPath
  BY DEF Init, InPath
<1>2. /\ \A s \in Slots : /\ inode[s].ref = (IF s = 0 THEN 1 ELSE 0)
                          /\ inode[s].inum = (IF s = 0 THEN ROOTINO ELSE 0)
      /\ \A f \in Files : file[f].type = "FD_NONE" /\ file[f].ref = 0
  BY <1>1 DEF NoFile
<1>3. Len(Image) \in Nat /\ NINODES \in Nat /\ NINODES >= Len(Image) + 2 /\ MAXSIZE \in Nat
      /\ RootSize \in Len(Image) + 2..MAXSIZE
  BY FileTableAssumption, ConstFacts
<1>4. TypeOK
  <2>1. inode \in [Slots -> [inum : {0} \cup Inums, ref : Nat]]
    BY <1>1, ConstFacts
  <2>2. file \in [Files -> FEntry]
    BY <1>1 DEF NoFile, FEntry
  <2>3. dir \in [Names -> {0} \cup Inums]
    BY <1>3 DEF Init, Inums
  <2>4. size \in [Inums -> 0..MAXSIZE]
    BY <1>3 DEF Init, Inums, ROOTINO
  <2>5. type \in [Inums -> {"T_NONE", "T_DIR", "T_FILE", "T_DEV", "T_CONSOLE"}]
    BY DEF Init
  <2> QED
    BY <1>1, <2>1, <2>2, <2>3, <2>4, <2>5, ConstFacts DEF TypeOK, FEntry
<1>5. CallInv
  BY <1>1 DEF CallInv, InPath
<1>6. FileInv
  BY <1>1, <1>2 DEF FileInv
<1>7. RefInv
  <2>1. \A s : OpenFilesOn(s) = {}
    BY <1>2 DEF OpenFilesOn
  <2>2. \A s \in Slots : IsCwd(s) = (IF s = 0 THEN 1 ELSE 0) /\ Held(s) = 0
    BY <1>1 DEF IsCwd, Held
  <2>3. \A s \in Slots : Cardinality(OpenFilesOn(s)) = 0
    BY <2>1, FS_EmptySet
  <2> QED
    BY <1>2, <2>2, <2>3 DEF RefInv
<1>8. EntryInv
  <2>1. type[ROOTINO] = "T_DIR"
    BY ConstFacts DEF Init
  <2>2. \A s \in Slots : inode[s].ref > 0 => s = 0
    BY <1>2
  <2>3. OneEntryPerInode
    BY <2>2 DEF OneEntryPerInode
  <2>4. \A n \in Names : dir[n] # 0 => type[dir[n]] # "T_NONE"
    <3>1. \A i \in 1..Len(Image) + 1 : i \in Inums /\ type[i] # "T_NONE"
      BY <1>3 DEF Init, Inums
    <3>2. \A n \in Names : dir[n] \in 0..Len(Image) + 1
      BY DEF Init
    <3> QED
      BY <1>3, <3>1, <3>2
  <2> QED
    BY <1>2, <2>1, <2>2, <2>3, <2>4, ConstFacts DEF EntryInv, Type
<1>9. DescriptorsValid
  BY <1>2 DEF DescriptorsValid
<1> QED
  BY <1>4, <1>5, <1>6, <1>7, <1>8, <1>9 DEF IInv

LEMMA NextIInv ==
  ASSUME IInv, Next
  PROVE  IInv'
<1>1. CASE \E p \in Paths :
             \/ \E omode \in Modes : Enter("open", p, omode)
             \/ \E device \in Devices : Enter("mknod", p, device)
             \/ Enter("exec", p, O_RDONLY)
  BY <1>1, EnterIInv
<1>2. CASE \E p \in Paths, op \in {"open", "mknod", "exec"} : EnterWild(op, p)
  BY <1>2, WildIInv DEF EnterWild
<1>3. CASE \E fd \in Fds : close(fd)
  BY <1>3, CloseIInv
<1>4. CASE \E fd \in Fds, n \in 1..MaxCount : read(fd, n) \/ write(fd, n)
  BY <1>4, ReadIInv, WriteIInv
<1>5. CASE exitBegins
  BY <1>5, ExitBeginsIInv
<1>6. CASE namexFails
  <2>1. InPath
    BY <1>6 DEF namexFails, InPath
  <2> QED
    BY <1>6, <2>1, GiveBack DEF namexFails
<1>7. CASE namexDescends \/ namexParent \/ namexReturns
  BY <1>7, NamexDescendsIInv, NamexParentIInv, NamexReturnsIInv
<1>8. CASE createFinds \/ createMakes
  BY <1>8, CreateFindsIInv, CreateMakesIInv
<1>9. CASE mknodReturns
  <2>1. InPath
    BY <1>9 DEF mknodReturns, InPath
  <2> QED
    BY <1>9, <2>1, GiveBack DEF mknodReturns
<1>10. CASE openReturns \/ openFails
  BY <1>10, OpenReturnsIInv, OpenFailsIInv
<1>11. CASE filewrite
  BY <1>11, FilewriteIInv
<1>12. CASE exitCloses \/ exitReturns
  BY <1>12, ExitClosesIInv, ExitReturnsIInv
<1>13. CASE SystemCall
  BY <1>1, <1>2, <1>3, <1>4, <1>5, <1>13 DEF SystemCall
<1>14. CASE Kernel
  BY <1>6, <1>7, <1>8, <1>9, <1>10, <1>11, <1>12, <1>14 DEF Kernel
<1> QED
  BY <1>13, <1>14 DEF Next

LEMMA StutterIInv ==
  ASSUME IInv, UNCHANGED vars
  PROVE  IInv'
<1>1. UNCHANGED <<inode, file, ofile, cwd, dir, type, size, pc, call>>
  BY DEF vars, disk
<1>2. TypeOK' /\ FileInv' /\ EntryInv' /\ DescriptorsValid'
  BY <1>1 DEF IInv, TypeOK, InPath, FileInv, EntryInv, OneEntryPerInode, Type, DescriptorsValid, IsDevice
<1>3. CallInv'
  BY <1>1 DEF IInv, CallInv, InPath, Type
<1>4. RefInv'
  BY <1>1 DEF IInv, RefInv, OpenFilesOn, IsCwd, Held, InPath
<1> QED
  BY <1>2, <1>3, <1>4 DEF IInv

\* The inductive invariant of the three tables.
THEOREM Invariance == Spec => []IInv
<1>1. Init => IInv
  BY InitIInv
<1>2. IInv /\ [Next]_vars => IInv'
  BY NextIInv, StutterIInv
<1> QED
  BY <1>1, <1>2, PTL DEF Spec

\* ref of every entry of icache and of ftable counts its references, through
\* every path of open, mknod, exec, close and exit, whether it succeeds,
\* fails or finds a table full.
THEOREM ReferencesExact == Spec => []RefsExact
<1>1. IInv => RefsExact
  <2> SUFFICES ASSUME IInv PROVE RefsExact
    OBVIOUS
  <2>1. ASSUME NEW f \in Files
        PROVE  file[f].ref = Cardinality({fd \in Fds : ofile[fd] = f})
    <3>1. f # nil
      BY ConstFacts
    <3>2. CASE file[f].ref = 1
      <4>1. PICK fd \in Fds : ofile[fd] = f
        BY <3>2 DEF IInv, FileInv
      <4>2. {e \in Fds : ofile[e] = f} = {fd}
        BY <3>1, <4>1 DEF IInv, FileInv
      <4> QED
        BY <3>2, <4>2, FS_Singleton
    <3>3. CASE file[f].ref = 0
      <4>1. {e \in Fds : ofile[e] = f} = {}
        BY <3>1, <3>3 DEF IInv, FileInv
      <4> QED
        BY <3>3, <4>1, FS_EmptySet
    <3> QED
      BY <3>2, <3>3 DEF IInv, FileInv
  <2>2. FilesExact
    BY <2>1 DEF FilesExact, IInv, FileInv
  <2> QED
    BY <2>2 DEF RefsExact, IInv, RefInv, IsCwd, Held
<1> QED
  BY <1>1, Invariance, PTL

\* iget never makes a second entry of icache for an inode in use.
THEOREM OneEntry == Spec => []OneEntryPerInode
<1>1. IInv => OneEntryPerInode
  BY DEF IInv, EntryInv
<1> QED
  BY <1>1, Invariance, PTL

\* No descriptor can write a directory, and none stands behind the end of its
\* file, whichever descriptors extend it.
THEOREM ValidDescriptors == Spec => []DescriptorsValid
<1>1. IInv => DescriptorsValid
  BY DEF IInv
<1> QED
  BY <1>1, Invariance, PTL

-----------------------------------------------------------------------------
(***************************************************************************)
(* The descriptors implement FdTable: every step leaves the descriptors    *)
(* alone, or opens, moves or closes one.                                   *)
(***************************************************************************)

LEMMA IputInum ==
  ASSUME NEW ic \in [Slots -> [inum : {0} \cup Inums, ref : Int]], NEW s \in Slots
  PROVE  /\ iput(ic, s) \in [Slots -> [inum : {0} \cup Inums, ref : Int]]
         /\ \A t \in Slots : iput(ic, s)[t].inum = ic[t].inum
  BY DEF iput

LEMMA IgetInum ==
  ASSUME IInv, NEW i \in Inums, NEW s \in Slots, Gets(i, s)
  PROVE  /\ iget(i, s) \in [Slots -> [inum : {0} \cup Inums, ref : Int]]
         /\ \A t \in Slots : inode[t].ref > 0 => iget(i, s)[t].inum = inode[t].inum
  BY IgetFacts DEF IEntry

\* No step changes which inode an entry in use stands for.
LEMMA NextKeeps ==
  ASSUME IInv, Next
  PROVE  Keeps
<1>1. inode \in [Slots -> [inum : {0} \cup Inums, ref : Int]]
  BY Fields DEF IEntry
<1>2. ASSUME UNCHANGED inode PROVE Keeps
  BY <1>2 DEF Keeps
<1>3. ASSUME NEW s \in Slots, inode' = iput(inode, s) PROVE Keeps
  BY <1>1, <1>3, IputInum DEF Keeps
<1>4. ASSUME NEW i \in Inums, NEW s \in Slots, NEW t \in Slots, Gets(i, s), inode' = iput(iget(i, s), t)
      PROVE  Keeps
  BY <1>4, IgetInum, IputInum DEF Keeps
<1>5. InPath => call.ip \in Slots
  BY DEF IInv, TypeOK
<1>6. ASSUME NEW op, NEW p \in Paths, NEW omode, Enter(op, p, omode) PROVE Keeps
  <2>1. PICK s \in Slots :
          /\ IF p.abs THEN Gets(ROOTINO, s) ELSE s = cwd
          /\ inode' = IF p.abs THEN iget(ROOTINO, s) ELSE idup(inode, s)
    BY <1>6 DEF Enter
  <2>2. CASE p.abs
    BY <2>1, <2>2, ConstFacts, IgetInum DEF Keeps
  <2>3. CASE ~p.abs
    <3>1. \A t \in Slots : idup(inode, s)[t].inum = inode[t].inum
      BY <1>1 DEF idup
    <3> QED
      BY <2>1, <2>3, <3>1 DEF Keeps
  <2> QED
    BY <2>2, <2>3
<1>7. ASSUME NEW fd \in Fds, ofile[fd] # nil, inode' = filecloseInode(file, inode, ofile[fd]) PROVE Keeps
  <2>1. ofile[fd] \in Files /\ file[ofile[fd]].ref = 1 /\ file[ofile[fd]].ip \in Slots
    BY <1>7 DEF IInv, TypeOK, FileInv
  <2> QED
    BY <1>2, <1>3, <1>7, <2>1 DEF filecloseInode
<1>8. CASE SystemCall
  <2>1. ASSUME NEW fd \in Fds, close(fd) PROVE Keeps
    BY <1>7, <2>1 DEF close, IsOpen
  <2>2. ASSUME NEW fd \in Fds, NEW n \in 1..MaxCount, read(fd, n) \/ write(fd, n) PROVE Keeps
    BY <1>2, <2>2 DEF read, write
  <2>3. ASSUME exitBegins \/ \E p \in Paths, op \in {"open", "mknod", "exec"} : EnterWild(op, p) PROVE Keeps
    BY <1>2, <2>3 DEF exitBegins, EnterWild, Wild
  <2> QED
    BY <1>6, <1>8, <2>1, <2>2, <2>3 DEF SystemCall
<1>9. CASE namexFails \/ mknodReturns \/ namexReturns \/ namexParent
  <2>1. InPath
    BY <1>9 DEF namexFails, mknodReturns, namexReturns, namexParent, InPath
  <2> QED
    BY <1>2, <1>3, <1>5, <1>9, <2>1 DEF namexFails, mknodReturns, namexReturns, namexParent
<1>10. CASE namexDescends \/ createFinds
  <2>1. InPath /\ call.rest # << >> /\ Lookup # 0
    BY <1>10 DEF namexDescends, createFinds, InPath, IInv, CallInv
  <2>2. Lookup \in Inums
    BY <2>1, LookupFacts
  <2>3. CASE UNCHANGED inode
    BY <1>2, <2>3
  <2>4. ASSUME NEW s \in Slots, Gets(Lookup, s), inode' = iput(iget(Lookup, s), call.ip) PROVE Keeps
    BY <1>4, <1>5, <2>1, <2>2, <2>4
  <2>5. ASSUME NEW s \in Slots, Gets(Lookup, s), inode' = iput(iput(iget(Lookup, s), call.ip), s) PROVE Keeps
    <3> DEFINE ic == iput(iget(Lookup, s), call.ip)
    <3>1. /\ ic \in [Slots -> [inum : {0} \cup Inums, ref : Int]]
          /\ \A t \in Slots : inode[t].ref > 0 => ic[t].inum = inode[t].inum
      BY <1>5, <2>1, <2>2, <2>5, IgetInum, IputInum
    <3> HIDE DEF ic
    <3>2. \A t \in Slots : iput(ic, s)[t].inum = ic[t].inum
      BY <3>1, IputInum
    <3> QED
      BY <2>5, <3>1, <3>2 DEF Keeps, ic
  <2>6. \/ UNCHANGED inode
        \/ \E s \in Slots : Gets(Lookup, s) /\ inode' = iput(iget(Lookup, s), call.ip)
        \/ \E s \in Slots : Gets(Lookup, s) /\ inode' = iput(iput(iget(Lookup, s), call.ip), s)
    BY <1>10, Zenon DEF namexDescends, createFinds, Wild
  <2> QED
    BY <2>3, <2>4, <2>5, <2>6
<1>11. CASE createMakes
  <2>1. call.ip \in Slots
    BY <1>5, <1>11 DEF createMakes, InPath
  <2>2. \/ UNCHANGED inode
        \/ \E i \in FreeInums, s \in Slots : Gets(i, s) /\ inode' = iput(iget(i, s), call.ip)
    BY <1>11 DEF createMakes, Wild
  <2> QED
    BY <1>2, <1>4, <2>1, <2>2 DEF FreeInums
<1>12. CASE openFails
  <2>1. call.ip \in Slots
    BY <1>5, <1>12 DEF openFails, InPath
  <2>2. inode' = iput(inode, call.ip)
    <3>1. CASE FreeFiles = {}
      BY <1>12, <3>1 DEF openFails
    <3>2. CASE FreeFiles # {}
      <4>1. PICK f \in FreeFiles : inode' = iput(filecloseInode([file EXCEPT ![f].ref = 1], inode, f), call.ip)
        BY <1>12, <3>2 DEF openFails
      <4>2. f \in Files /\ file[f] \in FEntry /\ file[f].type # "FD_INODE"
        BY Fields DEF FreeFiles, IInv, FileInv
      <4>3. [file EXCEPT ![f].ref = 1][f].type # "FD_INODE"
        BY <4>2, Fields DEF FEntry
      <4> QED
        BY <4>1, <4>3 DEF filecloseInode
    <3> QED
      BY <3>1, <3>2
  <2> QED
    BY <1>3, <2>1, <2>2
<1>13. CASE openReturns \/ filewrite
  BY <1>2, <1>13 DEF openReturns, filewrite
<1>14. CASE exitCloses
  <2>1. call.fd \in Fds
    BY <1>14, FileTableAssumption DEF exitCloses, IInv, CallInv, Fds
  <2> QED
    BY <1>2, <1>7, <1>14, <2>1 DEF exitCloses
<1>15. CASE exitReturns
  BY <1>2, <1>3, <1>15 DEF exitReturns, Wild, IInv, TypeOK
<1> QED
  BY <1>8, <1>9, <1>10, <1>11, <1>12, <1>13, <1>14, <1>15 DEF Next, Kernel

\* What an open descriptor stands for.
FdRecord == [inum : Inums, off : Nat, readable : BOOLEAN, writable : BOOLEAN]

LEMMA FdsValue ==
  ASSUME IInv, pc # "wild", NEW fd \in Fds
  PROVE  /\ ofile[fd] = nil => fds[fd] = nil
         /\ ofile[fd] # nil =>
              /\ fds[fd] = [inum |-> inode[file[ofile[fd]].ip].inum, off |-> file[ofile[fd]].off,
                            readable |-> file[ofile[fd]].readable,
                            writable |-> file[ofile[fd]].writable]
              /\ fds[fd] \in FdRecord /\ fds[fd] # nil
<1>1. CASE ofile[fd] = nil
  BY <1>1 DEF fds, Closed
<1>2. CASE ofile[fd] # nil
  <2>1. ofile[fd] \in Files /\ file[ofile[fd]].type = "FD_INODE"
    BY <1>2 DEF IInv, TypeOK, FileInv
  <2>2. inode[file[ofile[fd]].ip].inum \in Inums
    BY <2>1, OpenInode
  <2>3. fds[fd] = [inum |-> inode[file[ofile[fd]].ip].inum, off |-> file[ofile[fd]].off,
                   readable |-> file[ofile[fd]].readable, writable |-> file[ofile[fd]].writable]
    BY <1>2 DEF fds
  <2>4. fds[fd] \in FdRecord
    BY <2>1, <2>2, <2>3, Fields DEF FdRecord
  <2> QED
    BY <1>2, <2>3, <2>4, FileTableAssumption DEF FdRecord
<1> QED
  BY <1>1, <1>2

\* A descriptor whose file is left alone stands for the same.
LEMMA SameFd ==
  ASSUME IInv, pc # "wild", Keeps, NEW fd \in Fds, ofile'[fd] = ofile[fd],
         ofile[fd] # nil => file'[ofile[fd]] = file[ofile[fd]]
  PROVE  fds'[fd] = fds[fd]
<1>1. CASE ofile[fd] = nil
  BY <1>1 DEF fds, Closed
<1>2. CASE ofile[fd] # nil
  <2>1. ofile[fd] \in Files /\ file[ofile[fd]].type = "FD_INODE"
    BY <1>2 DEF IInv, TypeOK, FileInv
  <2>2. file[ofile[fd]].ip \in Slots /\ inode[file[ofile[fd]].ip].ref > 0
    BY <2>1, OpenInode
  <2>3. inode'[file[ofile[fd]].ip].inum = inode[file[ofile[fd]].ip].inum
    BY <2>2 DEF Keeps
  <2> QED
    BY <1>2, <2>3 DEF fds
<1> QED
  BY <1>1, <1>2

LEMMA FdsKept ==
  ASSUME IInv, pc # "wild", Keeps, UNCHANGED ofile,
         \A f \in Files : file[f].type = "FD_INODE" => file'[f] = file[f]
  PROVE  fds' = fds
<1>1. \A fd \in Fds : ofile[fd] # nil => file'[ofile[fd]] = file[ofile[fd]]
  BY DEF IInv, TypeOK, FileInv
<1>2. \A fd \in Fds : fds'[fd] = fds[fd]
  BY <1>1, SameFd
<1> QED
  BY <1>2 DEF fds

LEMMA OpenStep ==
  ASSUME IInv, IInv', Keeps, openReturns
  PROVE  Abstract!Next
<1>1. /\ pc = "opened" /\ pc' = "user" /\ InPath /\ FreeFds # {} /\ UNCHANGED inode
  BY DEF openReturns, InPath, Return
<1>2. PICK f \in FreeFiles, fd \in FreeFds :
       /\ First(FreeFds, fd)
       /\ ofile' = [ofile EXCEPT ![fd] = f]
       /\ file' = [file EXCEPT ![f] =
            [type |-> "FD_INODE", ref |-> 1, ip |-> call.ip, off |-> 0,
             readable |-> O_WRONLY \notin call.omode,
             writable |-> call.omode \cap {O_WRONLY, O_RDWR} # {}]]
  BY DEF openReturns
<1>3. f \in Files /\ file[f].ref = 0 /\ fd \in Fds /\ ofile[fd] = nil /\ f # nil
  BY ConstFacts DEF FreeFiles, FreeFds
<1>4. \A e \in Fds : ofile[e] # f
  BY <1>3 DEF IInv, FileInv
<1>5. ofile'[fd] = f /\ \A e \in Fds : e # fd => ofile'[e] = ofile[e]
  BY <1>2, <1>3 DEF IInv, TypeOK
<1>6. /\ file'[f] = [type |-> "FD_INODE", ref |-> 1, ip |-> call.ip, off |-> 0,
                     readable |-> O_WRONLY \notin call.omode,
                     writable |-> call.omode \cap {O_WRONLY, O_RDWR} # {}]
      /\ \A g \in Files : g # f => file'[g] = file[g]
  BY <1>2, <1>3, Fields
<1> DEFINE i == inode[call.ip].inum
           r == O_WRONLY \notin call.omode
           w == call.omode \cap {O_WRONLY, O_RDWR} # {}
<1>7. i \in Inums
  <2>1. call.ip \in Slots /\ inode[call.ip].ref > 0
    BY <1>1, InUse DEF IInv, TypeOK
  <2> QED
    BY <2>1 DEF IInv, EntryInv
<1>8. fds[fd] = nil
  BY <1>1, <1>3, FdsValue
<1>9. \A lower \in 0..fd - 1 : fds[lower] # nil
  <2> SUFFICES ASSUME NEW lower \in 0..fd - 1 PROVE fds[lower] # nil
    OBVIOUS
  <2>1. lower \in Fds /\ ~(fd <= lower)
    BY <1>3, FileTableAssumption DEF Fds
  <2>2. ofile[lower] # nil
    BY <1>2, <2>1 DEF First, FreeFds
  <2> QED
    BY <1>1, <2>1, <2>2, FdsValue
<1>10. fds'[fd] = [inum |-> i, off |-> 0, readable |-> r, writable |-> w]
  <2>1. fds'[fd] = [inum |-> inode'[file'[f].ip].inum, off |-> file'[f].off,
                    readable |-> file'[f].readable, writable |-> file'[f].writable]
    BY <1>3, <1>5 DEF fds
  <2>2. /\ file'[f].ip = call.ip /\ file'[f].off = 0
        /\ file'[f].readable = r /\ file'[f].writable = w
    BY <1>6
  <2> QED
    BY <1>1, <2>1, <2>2
<1>11. \A e \in Fds : e # fd => fds'[e] = fds[e]
  <2> SUFFICES ASSUME NEW e \in Fds, e # fd PROVE fds'[e] = fds[e]
    OBVIOUS
  <2>1. ofile'[e] = ofile[e]
    BY <1>5
  <2>2. ofile[e] # nil => file'[ofile[e]] = file[ofile[e]]
    BY <1>4, <1>6 DEF IInv, TypeOK
  <2> QED
    BY <1>1, <2>1, <2>2, SameFd
<1> HIDE DEF i
<1>12. fds' = [fds EXCEPT ![fd] = [inum |-> i, off |-> 0, readable |-> r, writable |-> w]]
  <2>1. fds = [e \in Fds |-> fds[e]] /\ fds' = [e \in Fds |-> fds'[e]]
    BY DEF fds
  <2> HIDE DEF r, w
  <2> QED
    BY <1>3, <1>10, <1>11, <2>1
<1>13. Abstract!Open(fd, i, r, w)
  BY <1>8, <1>9, <1>12 DEF Abstract!Open, Closed
<1>14. r \in BOOLEAN /\ w \in BOOLEAN /\ fd \in Abstract!Fd
  BY <1>3 DEF Abstract!Fd, Fds
<1> HIDE DEF r, w
<1> QED
  BY <1>7, <1>13, <1>14 DEF Abstract!Next

LEMMA AbstractClose ==
  ASSUME IInv, pc # "wild", Keeps, NEW fd \in Fds, ofile[fd] # nil,
         ofile' = [ofile EXCEPT ![fd] = nil], file' = fileclose(file, ofile[fd])
  PROVE  Abstract!Next
<1>1. ofile[fd] \in Files /\ file[ofile[fd]].ref = 1
  BY DEF IInv, TypeOK, FileInv
<1>2. \A g \in Files : g # ofile[fd] => file'[g] = file[g]
  BY <1>1, Fields, FilecloseFacts
<1>3. ofile'[fd] = nil /\ \A e \in Fds : e # fd => ofile'[e] = ofile[e]
  BY DEF IInv, TypeOK
<1>4. \A e \in Fds : e # fd => fds'[e] = fds[e]
  <2> SUFFICES ASSUME NEW e \in Fds, e # fd PROVE fds'[e] = fds[e]
    OBVIOUS
  <2>1. ofile'[e] = ofile[e]
    BY <1>3
  <2>2. ofile[e] # nil => ofile[e] \in Files /\ ofile[e] # ofile[fd]
    BY DEF IInv, TypeOK, FileInv
  <2> QED
    BY <1>2, <2>1, <2>2, SameFd
<1>5. fds'[fd] = nil
  BY <1>3 DEF fds, Closed
<1>6. fds = [e \in Fds |-> fds[e]] /\ fds' = [e \in Fds |-> fds'[e]]
  BY DEF fds
<1>7. fds' = [fds EXCEPT ![fd] = nil]
  BY <1>4, <1>5, <1>6
<1>8. fds[fd] # nil
  BY FdsValue
<1>9. Abstract!Close(fd)
  BY <1>7, <1>8 DEF Abstract!Close, Closed
<1> QED
  BY <1>9 DEF Abstract!Next, Abstract!Fd, Fds

\* The offset of a file moves by n, and with it that of its one descriptor.
LEMMA AbstractAdvance ==
  ASSUME IInv, pc # "wild", UNCHANGED <<inode, ofile>>, NEW f \in Files, file[f].type = "FD_INODE",
         file[f].readable \/ file[f].writable, NEW n \in 0..MaxCount,
         file' = [file EXCEPT ![f].off = file[f].off + n]
  PROVE  Abstract!Next \/ fds' = fds
<1>1. PICK fd \in Fds : ofile[fd] = f
  BY DEF IInv, FileInv
<1>2. f # nil
  BY ConstFacts
<1>3. \A e \in Fds : e # fd => ofile[e] # f
  BY <1>1, <1>2 DEF IInv, FileInv
<1>4. file[f] \in FEntry /\ file[f].off \in Nat /\ MaxCount \in Nat
  BY Fields, FileTableAssumption
<1>5. /\ file'[f].ip = file[f].ip /\ file'[f].off = file[f].off + n
      /\ file'[f].readable = file[f].readable /\ file'[f].writable = file[f].writable
      /\ \A g \in Files : g # f => file'[g] = file[g]
  BY <1>4, Fields DEF FEntry
<1>6. \A e \in Fds : e # fd => fds'[e] = fds[e]
  <2>1. Keeps
    BY DEF Keeps
  <2>2. \A e \in Fds : e # fd /\ ofile[e] # nil => file'[ofile[e]] = file[ofile[e]]
    BY <1>3, <1>5 DEF IInv, TypeOK
  <2> QED
    BY <2>1, <2>2, SameFd
<1>7. /\ fds[fd] = [inum |-> inode[file[f].ip].inum, off |-> file[f].off,
                    readable |-> file[f].readable, writable |-> file[f].writable]
      /\ fds[fd] \in FdRecord /\ fds[fd] # nil
  BY <1>1, <1>2, FdsValue
<1>8. fds'[fd] = [inum |-> inode[file[f].ip].inum, off |-> file[f].off + n,
                  readable |-> file[f].readable, writable |-> file[f].writable]
  <2>1. fds'[fd] = [inum |-> inode'[file'[f].ip].inum, off |-> file'[f].off,
                    readable |-> file'[f].readable, writable |-> file'[f].writable]
    BY <1>1, <1>2 DEF fds
  <2> QED
    BY <1>5, <2>1
<1>9. fds'[fd] = [fds[fd] EXCEPT !.off = fds[fd].off + n]
  BY <1>7, <1>8
<1>10. fds = [e \in Fds |-> fds[e]] /\ fds' = [e \in Fds |-> fds'[e]]
  BY DEF fds
<1>11. CASE n = 0
  <2>1. fds'[fd] = fds[fd]
    BY <1>4, <1>7, <1>8, <1>11
  <2>2. \A e \in Fds : fds'[e] = fds[e]
    BY <1>6, <2>1
  <2> QED
    BY <1>10, <2>2
<1>12. CASE n # 0
  <2>1. fds' = [fds EXCEPT ![fd].off = @ + n]
    BY <1>6, <1>9, <1>10
  <2>2. fds[fd].readable \/ fds[fd].writable
    BY <1>7
  <2>3. Abstract!Advance(fd, n)
    BY <1>7, <2>1, <2>2 DEF Abstract!Advance, Closed
  <2>4. n \in 1..MaxCount /\ fd \in Abstract!Fd
    BY <1>4, <1>12 DEF Abstract!Fd, Fds
  <2> QED
    BY <2>3, <2>4 DEF Abstract!Next
<1> QED
  BY <1>11, <1>12

\* Every step is a step of FdTable, or leaves its descriptors alone.
LEMMA StepRefines ==
  ASSUME IInv, IInv', Next
  PROVE  Abstract!Next \/ fds' = fds
<1>1. Keeps
  BY NextKeeps
<1>2. ASSUME pc # "wild", UNCHANGED <<file, ofile>> PROVE fds' = fds
  BY <1>1, <1>2, FdsKept
<1>3. CASE SystemCall
  <2>1. ASSUME NEW op, NEW p, NEW omode, Enter(op, p, omode) PROVE fds' = fds
    BY <1>2, <2>1 DEF Enter
  <2>2. ASSUME NEW op, NEW p, EnterWild(op, p) PROVE fds' = fds
    BY <1>2, <2>2 DEF EnterWild, Wild
  <2>3. ASSUME NEW fd \in Fds, close(fd) PROVE Abstract!Next
    <3>1. pc # "wild" /\ ofile[fd] # nil
      BY <2>3 DEF close, IsOpen
    <3> QED
      BY <1>1, <2>3, <3>1, AbstractClose DEF close
  <2>4. ASSUME NEW fd \in Fds, NEW n \in 1..MaxCount, read(fd, n) PROVE Abstract!Next \/ fds' = fds
    <3> DEFINE f == ofile[fd]
               i == inode[file[f].ip].inum
               m == LesserOf(n, size[i] - file[f].off)
    <3>1. /\ pc = "user" /\ IsOpen(fd) /\ UNCHANGED <<inode, ofile>>
          /\ file[f].readable /\ file[f].off <= size[i]
          /\ file' = [file EXCEPT ![f].off = file[f].off + m]
      BY <2>4 DEF read
    <3>2. f \in Files /\ file[f].type = "FD_INODE"
      BY <3>1, OpenFd
    <3>3. i \in Inums /\ file[f].off \in Nat /\ MaxCount \in Nat
      BY <3>1, <3>2, OpenInode, Fields, FileTableAssumption
    <3>4. size[i] \in Nat
      BY <3>3, FileTableAssumption DEF IInv, TypeOK
    <3>5. m \in 0..MaxCount
      BY <3>1, <3>3, <3>4 DEF LesserOf
    <3> HIDE DEF m
    <3> QED
      BY <3>1, <3>2, <3>5, AbstractAdvance
  <2>5. ASSUME NEW fd \in Fds, NEW n, write(fd, n) PROVE fds' = fds
    BY <1>2, <2>5 DEF write
  <2>6. ASSUME exitBegins PROVE fds' = fds
    BY <1>2, <2>6 DEF exitBegins
  <2> QED
    BY <1>3, <2>1, <2>2, <2>3, <2>4, <2>5, <2>6 DEF SystemCall
<1>4. CASE namexFails \/ namexParent \/ namexReturns \/ mknodReturns
  BY <1>2, <1>4 DEF namexFails, namexParent, namexReturns, mknodReturns
<1>5. CASE namexDescends \/ createFinds
  BY <1>2, <1>5 DEF namexDescends, createFinds, Wild
<1>6. CASE createMakes
  BY <1>2, <1>6 DEF createMakes, Wild
<1>7. CASE openReturns
  BY <1>1, <1>7, OpenStep
<1>8. CASE openFails
  <2>1. pc # "wild" /\ UNCHANGED ofile
    BY <1>8 DEF openFails
  <2>2. \A g \in Files : file[g].type = "FD_INODE" => file'[g] = file[g]
    <3>1. CASE FreeFiles = {}
      BY <1>8, <3>1 DEF openFails
    <3>2. CASE FreeFiles # {}
      <4>1. PICK f \in FreeFiles : file' = fileclose([file EXCEPT ![f].ref = 1], f)
        BY <1>8, <3>2 DEF openFails
      <4>2. f \in Files /\ file[f] \in FEntry /\ file[f].type # "FD_INODE"
        BY Fields DEF FreeFiles, IInv, FileInv
      <4>3. /\ [file EXCEPT ![f].ref = 1] \in [Files -> FEntry]
            /\ [file EXCEPT ![f].ref = 1][f].ref = 1
            /\ \A g \in Files : g # f => [file EXCEPT ![f].ref = 1][g] = file[g]
        BY <4>2, Fields DEF FEntry
      <4>4. \A g \in Files : g # f => file'[g] = file[g]
        BY <4>1, <4>2, <4>3, FilecloseFacts
      <4> QED
        BY <4>2, <4>4
    <3> QED
      BY <3>1, <3>2
  <2> QED
    BY <1>1, <2>1, <2>2, FdsKept
<1>9. CASE filewrite
  <2> DEFINE f == call.f
             i == inode[file[f].ip].inum
             n1 == LesserOf(call.left, MaxChunk)
  <2>1. pc = "filewrite" /\ UNCHANGED <<inode, ofile>>
    BY <1>9 DEF filewrite
  <2>2. /\ call \in [op : {"write"}, f : Files, left : 1..MaxCount]
        /\ file[f].type = "FD_INODE" /\ file[f].writable
    BY <2>1 DEF IInv, CallInv
  <2>3. f \in Files /\ n1 \in 0..MaxCount
    BY <2>2, FileTableAssumption DEF LesserOf
  <2>4. UNCHANGED file \/ file' = [file EXCEPT ![f].off = file[f].off + n1]
    BY <1>9 DEF filewrite
  <2> HIDE DEF n1, f
  <2> QED
    BY <1>2, <2>1, <2>2, <2>3, <2>4, AbstractAdvance
<1>10. CASE exitCloses
  <2>1. pc = "exit" /\ call.fd < NOFILE
    BY <1>10 DEF exitCloses
  <2>2. call.fd \in Fds
    BY <2>1, FileTableAssumption DEF IInv, CallInv, Fds
  <2>3. CASE ofile[call.fd] = nil
    BY <1>2, <1>10, <2>1, <2>3 DEF exitCloses
  <2>4. CASE ofile[call.fd] # nil
    <3>1. file' = fileclose(file, ofile[call.fd]) /\ ofile' = [ofile EXCEPT ![call.fd] = nil]
      BY <1>10, <2>4 DEF exitCloses
    <3> QED
      BY <1>1, <2>1, <2>2, <2>4, <3>1, AbstractClose
  <2> QED
    BY <2>3, <2>4
<1>11. CASE exitReturns
  BY <1>2, <1>11 DEF exitReturns, Wild
<1> QED
  BY <1>3, <1>4, <1>5, <1>6, <1>7, <1>8, <1>9, <1>10, <1>11 DEF Next, Kernel

\* Through three tables and their reference counts, the system calls give a
\* program the descriptors of FdTable: each stands for one inode of its own
\* choice, with an offset that only its own reads and writes move.
THEOREM RefinesFdTable == Spec => ImplementsFdTable
<1>1. Init => Abstract!Init
  <2> SUFFICES ASSUME Init PROVE fds = [fd \in Abstract!Fd |-> Closed]
    BY DEF Abstract!Init
  <2>1. \A fd \in Fds : ofile[fd] = nil
    BY DEF Init
  <2> QED
    BY <2>1 DEF fds, Abstract!Fd, Fds
<1>2. IInv /\ IInv' /\ [Next]_vars => [Abstract!Next]_fds
  <2> SUFFICES ASSUME IInv, IInv', [Next]_vars PROVE [Abstract!Next]_fds
    OBVIOUS
  <2>1. CASE Next
    BY <2>1, StepRefines
  <2>2. CASE UNCHANGED vars
    BY <2>2 DEF vars, fds
  <2> QED
    BY <2>1, <2>2
<1> QED
  BY <1>1, <1>2, Invariance, PTL DEF Spec, ImplementsFdTable, Abstract!Spec

-----------------------------------------------------------------------------
(***************************************************************************)
(* The tables are large enough: a system call of a program that does not   *)
(* exit never follows a null inode pointer.                                *)
(***************************************************************************)

\* The root directory has room for an entry for every name.
NamesFit == IsFiniteSet(Names) /\ Cardinality(Names) <= MAXSIZE

\* icache has an entry for every descriptor, one for the root directory, in
\* which namex and create work, and one more; the disk has an inode for every
\* name.
Roomy ==
  /\ NINODE >= NOFILE + 2
  /\ NamesFit /\ Cardinality(Names) <= NINODES
  /\ "exit" \notin Calls

\* The root is the only directory, the working directory, and where create
\* works; every allocated inode has a name.
RoomInv ==
  /\ pc \notin {"wild", "exit"}
  /\ cwd \in Slots /\ inode[cwd].inum = ROOTINO
  /\ \A i \in Inums : type[i] = "T_DIR" => i = ROOTINO
  /\ pc = "create" => Type(call.ip) = "T_DIR" /\ Len(call.rest) = 1
  /\ dir["."] = ROOTINO /\ dir[".."] = ROOTINO
  /\ \A i \in Inums : type[i] = "T_NONE" \/ \E n \in Names : dir[n] = i

LEMMA RoomInCache ==
  ASSUME IInv, RoomInv, Roomy, InPath, Type(call.ip) = "T_DIR"
  PROVE  Empty # {}
<1> SUFFICES ASSUME Empty = {} PROVE FALSE
  OBVIOUS
<1>1. \A s \in Slots : inode[s].ref \in Nat \ {0}
  BY Fields DEF Empty
<1>2. call.ip = cwd
  <2>1. call.ip \in Slots /\ cwd \in Slots /\ inode[call.ip].ref > 0 /\ inode[cwd].ref > 0
    BY <1>1 DEF IInv, TypeOK, RoomInv
  <2>2. inode[call.ip].inum = ROOTINO
    BY <2>1 DEF IInv, EntryInv, RoomInv, Type
  <2> QED
    BY <2>1, <2>2 DEF IInv, EntryInv, OneEntryPerInode, RoomInv
<1> DEFINE S == Slots \ {cwd}
           g == [s \in S |-> CHOOSE fd \in Fds : ofile[fd] # nil /\ file[ofile[fd]].ip = s]
<1>3. \A s \in S : \E fd \in Fds : ofile[fd] # nil /\ file[ofile[fd]].ip = s
  <2> SUFFICES ASSUME NEW s \in S
               PROVE  \E fd \in Fds : ofile[fd] # nil /\ file[ofile[fd]].ip = s
    OBVIOUS
  <2>1. inode[s].ref = Cardinality(OpenFilesOn(s)) + IsCwd(s) + Held(s)
    BY DEF IInv, RefInv, RoomInv
  <2>2. IsCwd(s) = 0 /\ Held(s) = 0
    BY <1>2 DEF IsCwd, Held
  <2>3. OpenFilesOn(s) # {}
    BY <1>1, <2>1, <2>2, OpenFilesFinite
  <2>4. PICK f \in Files : file[f].type = "FD_INODE" /\ file[f].ip = s
    BY <2>3 DEF OpenFilesOn
  <2>5. PICK fd \in Fds : ofile[fd] = f
    BY <2>4 DEF IInv, FileInv
  <2> QED
    BY <2>4, <2>5, ConstFacts
<1>4. g \in [S -> Fds] /\ \A s \in S : ofile[g[s]] # nil /\ file[ofile[g[s]]].ip = s
  BY <1>3
<1>5. g \in Injection(S, Fds)
  BY <1>4 DEF Injection, IsInjective
<1> HIDE DEF g
<1>6. IsFiniteSet(Fds) /\ Cardinality(Fds) = NOFILE
  <2>1. NOFILE \in Nat /\ 0 \in Int /\ NOFILE - 1 \in Int
    BY FileTableAssumption
  <2>2. IsFiniteSet(0..NOFILE - 1) /\ Cardinality(0..NOFILE - 1) = IF 0 > NOFILE - 1 THEN 0 ELSE NOFILE - 1 - 0 + 1
    BY <2>1, FS_Interval, Zenon
  <2> QED
    BY <2>1, <2>2 DEF Fds
<1>7. IsFiniteSet(Slots) /\ Cardinality(Slots) = NINODE
  <2>1. NINODE \in Nat \ {0} /\ 0 \in Int /\ NINODE - 1 \in Int
    BY FileTableAssumption
  <2>2. IsFiniteSet(0..NINODE - 1) /\ Cardinality(0..NINODE - 1) = IF 0 > NINODE - 1 THEN 0 ELSE NINODE - 1 - 0 + 1
    BY <2>1, FS_Interval, Zenon
  <2> QED
    BY <2>1, <2>2 DEF Slots
<1>8. Cardinality(S) = NINODE - 1
  BY <1>7, FS_RemoveElement DEF RoomInv
<1>9. Cardinality(S) <= Cardinality(Fds)
  BY <1>5, <1>6, FS_Injection
<1> QED
  BY <1>6, <1>8, <1>9, FileTableAssumption DEF Roomy

\* A name that is not in the directory leaves an inode free.
LEMMA RoomOnDisk ==
  ASSUME IInv, RoomInv, Roomy, NEW name \in Names, dir[name] = 0
  PROVE  FreeInums # {}
<1> SUFFICES ASSUME FreeInums = {} PROVE FALSE
  OBVIOUS
<1> DEFINE S == Inums \ {ROOTINO}
           T == ((Names \ {"."}) \ {".."}) \ {name}
           g == [i \in S |-> CHOOSE n \in Names : dir[n] = i]
<1>1. \A i \in S : \E n \in Names : dir[n] = i
  BY DEF RoomInv, FreeInums
<1>2. \A i \in S : g[i] \in Names /\ dir[g[i]] = i
  BY <1>1
<1>3. 0 \notin Inums
  BY ConstFacts
<1>4. g \in [S -> T]
  <2>1. \A i \in S : g[i] \in T
    BY <1>2, <1>3 DEF RoomInv
  <2> QED
    BY <2>1
<1>5. g \in Injection(S, T)
  BY <1>2, <1>4 DEF Injection, IsInjective
<1> HIDE DEF g
<1>6. IsFiniteSet(Inums) /\ Cardinality(Inums) = NINODES - 1
  <2>1. NINODES \in Nat /\ NINODES >= 2
    BY FileTableAssumption, ConstFacts
  <2>2. 1 \in Int /\ NINODES - 1 \in Int
    BY <2>1
  <2>3. IsFiniteSet(1..NINODES - 1) /\ Cardinality(1..NINODES - 1) = IF 1 > NINODES - 1 THEN 0 ELSE NINODES - 1 - 1 + 1
    BY <2>2, FS_Interval, Zenon
  <2> QED
    BY <2>1, <2>3 DEF Inums
<1>7. Cardinality(S) = NINODES - 2
  <2>1. Cardinality(Inums \ {ROOTINO}) = Cardinality(Inums) - 1
    BY <1>6, FS_RemoveElement, ConstFacts
  <2> QED
    BY <1>6, <2>1, FileTableAssumption
<1>8. "." \in Names /\ ".." \in Names /\ name # "." /\ name # ".." /\ IsFiniteSet(Names)
  BY DEF Names, RoomInv, ROOTINO, Roomy, NamesFit
<1>9. IsFiniteSet(T) /\ Cardinality(T) = Cardinality(Names) - 3
  <2>1. Cardinality(Names) \in Nat
    BY <1>8, FS_CardinalityType
  <2>2. IsFiniteSet(Names \ {"."}) /\ Cardinality(Names \ {"."}) = Cardinality(Names) - 1
    BY <1>8, FS_RemoveElement
  <2>3. /\ IsFiniteSet((Names \ {"."}) \ {".."})
        /\ Cardinality((Names \ {"."}) \ {".."}) = Cardinality(Names \ {"."}) - 1
    BY <1>8, <2>2, FS_RemoveElement
  <2>4. IsFiniteSet(T) /\ Cardinality(T) = Cardinality((Names \ {"."}) \ {".."}) - 1
    BY <1>8, <2>3, FS_RemoveElement
  <2> QED
    BY <2>1, <2>2, <2>3, <2>4
<1>10. Cardinality(S) <= Cardinality(T)
  BY <1>5, <1>9, FS_Injection
<1>11. Cardinality(Names) \in Nat /\ NINODES \in Nat
  BY <1>8, FS_CardinalityType, FileTableAssumption
<1> QED
  BY <1>7, <1>9, <1>10, <1>11 DEF Roomy

\* Nor is the directory full: dirlink puts the name into it.
LEMMA RoomInDirectory ==
  ASSUME IInv, NamesFit, NEW name \in Names, dir[name] = 0, NEW i \in Inums, dirlink(name, i)
  PROVE  dir' = [dir EXCEPT ![name] = i]
<1> DEFINE U == {n \in Names : dir[n] # 0}
<1>1. U \in SUBSET (Names \ {name})
  OBVIOUS
<1>2. /\ IsFiniteSet(Names \ {name}) /\ Cardinality(Names \ {name}) = Cardinality(Names) - 1
      /\ Cardinality(Names) \in Nat
  BY FS_RemoveElement, FS_CardinalityType DEF NamesFit
<1>3. Cardinality(U) <= Cardinality(Names \ {name}) /\ Cardinality(U) \in Nat
  BY <1>1, <1>2, FS_Subset, FS_CardinalityType
<1>4. size[ROOTINO] \in 0..MAXSIZE /\ MAXSIZE \in Nat
  BY ConstFacts, FileTableAssumption DEF IInv, TypeOK
<1>5. Cardinality(U) < size[ROOTINO] \/ size[ROOTINO] < MAXSIZE
  BY <1>2, <1>3, <1>4 DEF NamesFit
<1> QED
  BY <1>5 DEF dirlink

LEMMA NextRoomInv ==
  ASSUME IInv, RoomInv, Roomy, Next
  PROVE  RoomInv'
<1>1. cwd \in Slots /\ inode[cwd].ref > 0 /\ cwd # nil
  BY InUse, ConstFacts DEF RoomInv
<1>2. inode'[cwd].inum = ROOTINO
  BY <1>1, NextKeeps DEF Keeps, RoomInv
\* A step that keeps the types and the names and does not enter create.
<1>3. ASSUME UNCHANGED <<cwd, dir, type>>, pc' \in {"user", "namex", "opened", "filewrite"}
      PROVE  RoomInv'
  BY <1>1, <1>2, <1>3 DEF RoomInv
<1>4. CASE SystemCall
  <2>1. ASSUME NEW op, NEW p, EnterWild(op, p) PROVE FALSE
    <3>1. cwd \in Hits(ROOTINO)
      BY <1>1 DEF Hits, RoomInv
    <3>2. HasEntry(ROOTINO)
      BY <3>1 DEF HasEntry
    <3> QED
      BY <1>1, <2>1, <3>2 DEF EnterWild
  <2>2. ASSUME NEW op, NEW p, NEW omode, Enter(op, p, omode) PROVE RoomInv'
    BY <1>3, <2>2 DEF Enter, disk
  <2>3. ASSUME NEW fd, NEW n, close(fd) \/ read(fd, n) \/ write(fd, n) PROVE RoomInv'
    BY <1>3, <2>3 DEF close, read, write, disk
  <2>4. ~exitBegins
    BY DEF exitBegins, Roomy
  <2> QED
    BY <1>4, <2>1, <2>2, <2>3, <2>4 DEF SystemCall
<1>5. CASE namexFails \/ namexReturns \/ mknodReturns \/ openReturns \/ openFails
  BY <1>3, <1>5 DEF namexFails, namexReturns, mknodReturns, openReturns, openFails, Return, disk
<1>6. CASE namexParent
  BY <1>1, <1>2, <1>6 DEF namexParent, RoomInv, Type, disk
<1>7. CASE namexDescends
  <2>1. InPath /\ Type(call.ip) = "T_DIR"
    BY <1>7 DEF namexDescends, InPath
  <2>2. HasEntry(Lookup)
    BY <2>1, RoomInCache DEF HasEntry
  <2> QED
    BY <1>3, <1>7, <2>2 DEF namexDescends, disk
<1>8. CASE createFinds
  <2>1. InPath /\ Type(call.ip) = "T_DIR"
    BY <1>8 DEF createFinds, InPath, RoomInv
  <2>2. HasEntry(Lookup)
    BY <2>1, RoomInCache DEF HasEntry
  <2> QED
    BY <1>3, <1>8, <2>2 DEF createFinds, Return, disk
<1>9. CASE createMakes
  <2>1. pc = "create" /\ InPath /\ Type(call.ip) = "T_DIR" /\ Lookup = 0 /\ call.rest # << >>
    BY <1>9 DEF createMakes, InPath, RoomInv, IInv, CallInv
  <2> DEFINE name == call.rest[1]
  <2>2. name \in Names /\ dir[name] = 0
    <3>1. call.rest \in Seq(Names)
      BY <2>1 DEF IInv, CallInv, PathCalls
    <3>2. Head(call.rest) = call.rest[1]
      BY <2>1, <3>1
    <3> QED
      BY <2>1, <3>2, LookupFacts DEF Lookup
  <2>3. FreeInums # {} /\ Empty # {}
    BY <2>1, <2>2, RoomInCache, RoomOnDisk
  <2>4. PICK i \in FreeInums :
          /\ type' = [type EXCEPT ![i] = IF call.op = "mknod" THEN call.omode ELSE "T_FILE"]
          /\ dirlink(name, i) /\ pc' = "opened" /\ UNCHANGED cwd
    BY <1>9, <2>3 DEF createMakes
  <2>5. i \in Inums
    BY DEF FreeInums
  <2>6. dir' = [dir EXCEPT ![name] = i] /\ dir \in [Names -> {0} \cup Inums]
    BY <2>2, <2>4, <2>5, RoomInDirectory DEF IInv, TypeOK, Roomy
  <2> HIDE DEF name
  <2>7. dir'["."] = ROOTINO /\ dir'[".."] = ROOTINO
    BY <2>2, <2>6 DEF RoomInv, ROOTINO, Names
  <2>8. type \in [Inums -> Types] /\ (IF call.op = "mknod" THEN call.omode ELSE "T_FILE") # "T_DIR"
    <3>1. call.op = "mknod" => call.omode \in {"T_DEV", "T_CONSOLE"}
      BY <2>1, FileTableAssumption DEF IInv, CallInv
    <3> QED
      BY <3>1 DEF IInv, TypeOK, Types
  <2>9. \A j \in Inums : type'[j] = "T_DIR" => j = ROOTINO
    BY <2>4, <2>5, <2>8 DEF RoomInv
  <2>10. \A j \in Inums : type'[j] = "T_NONE" \/ \E n \in Names : dir'[n] = j
    <3> SUFFICES ASSUME NEW j \in Inums, type'[j] # "T_NONE" PROVE \E n \in Names : dir'[n] = j
      OBVIOUS
    <3>1. CASE j = i
      BY <2>2, <2>6, <3>1
    <3>2. CASE j # i
      <4>1. PICK n \in Names : dir[n] = j
        BY <2>4, <2>5, <2>8, <3>2 DEF RoomInv
      <4>2. n # name
        BY <2>2, <4>1, ConstFacts
      <4> QED
        BY <2>6, <4>1, <4>2
    <3> QED
      BY <3>1, <3>2
  <2> QED
    BY <1>1, <1>2, <2>4, <2>7, <2>9, <2>10 DEF RoomInv
<1>10. CASE filewrite
  BY <1>3, <1>10 DEF filewrite, Return
<1>11. ~exitCloses /\ ~exitReturns
  BY DEF exitCloses, exitReturns, RoomInv
<1> QED
  BY <1>4, <1>5, <1>6, <1>7, <1>8, <1>9, <1>10, <1>11 DEF Next, Kernel

\* When icache has two entries more than there are descriptors, and disk and
\* directory have room for every name the program uses, iget and ialloc never
\* return the null pointer that namex and create would follow.
THEOREM NeverWild ==
  ASSUME Roomy
  PROVE  Spec => []NoWildPointer
<1>1. Init => RoomInv
  <2> SUFFICES ASSUME Init PROVE RoomInv
    OBVIOUS
  <2>1. Len(Image) \in Nat /\ NINODES \in Nat /\ NINODES >= Len(Image) + 2
    BY FileTableAssumption, ConstFacts
  <2>2. cwd = 0 /\ inode[0].inum = ROOTINO /\ 0 \in Slots
    BY ConstFacts DEF Init
  <2>3. \A i \in Inums : type[i] = "T_DIR" => i = ROOTINO
    BY DEF Init
  <2>4. \A i \in Inums : type[i] = "T_NONE" \/ \E n \in Names : dir[n] = i
    <3> SUFFICES ASSUME NEW i \in Inums, type[i] # "T_NONE" PROVE \E n \in Names : dir[n] = i
      OBVIOUS
    <3>1. CASE i = ROOTINO
      BY <3>1 DEF Init, Names
    <3>2. CASE i # ROOTINO
      <4>1. i \in 2..Len(Image) + 1
        BY <2>1, <3>2 DEF Init, Inums, ROOTINO
      <4>2. i - 1 \in DOMAIN Image
        <5>1. DOMAIN Image = 1..Len(Image)
          BY FileTableAssumption, LenProperties
        <5> QED
          BY <2>1, <4>1, <5>1
      <4>3. Image[i - 1] \in Names /\ dir[Image[i - 1]] = i - 1 + 1
        BY <4>2 DEF Init, Names
      <4>4. i - 1 + 1 = i
        BY <4>1, <2>1
      <4> QED
        BY <4>3, <4>4
    <3> QED
      BY <3>1, <3>2
  <2> QED
    BY <2>2, <2>3, <2>4 DEF RoomInv, Init
<1>2. IInv /\ RoomInv /\ [Next]_vars => RoomInv'
  <2>1. ASSUME RoomInv, UNCHANGED vars PROVE RoomInv'
    BY <2>1 DEF RoomInv, Type, vars, disk
  <2> QED
    BY <2>1, NextRoomInv
<1>3. RoomInv => NoWildPointer
  BY DEF RoomInv, NoWildPointer
<1> QED
  BY <1>1, <1>2, <1>3, Invariance, PTL DEF Spec

-----------------------------------------------------------------------------
(***************************************************************************)
(* What sys_open opens is what its path denotes.                           *)
(***************************************************************************)

\* The first k elements of a path lead from the root through directories to
\* inode i.
Walked(elems, k, i) ==
  /\ k \in 0..Len(elems)
  /\ \A j \in 1..k : dir[elems[j]] # 0 /\ (j < k => type[dir[elems[j]]] = "T_DIR")
  /\ i = IF k = 0 THEN ROOTINO ELSE dir[elems[k]]

\* The elements namex has still to look up are the last ones of the path, and
\* the ones before them lead to the inode it holds.
PathInv ==
  /\ cwd # nil => inode[cwd].inum = ROOTINO
  /\ pc \in {"namex", "create"} =>
       LET elems == call.path.elems
           k     == Len(elems) - Len(call.rest)
       IN /\ Walked(elems, k, inode[call.ip].inum)
          /\ \A j \in 1..Len(call.rest) : call.rest[j] = elems[k + j]
  /\ pc = "create" => Len(call.rest) = 1 /\ Type(call.ip) = "T_DIR"
  /\ pc = "opened" => Walked(call.path.elems, Len(call.path.elems), inode[call.ip].inum)

\* A set of numbers has a least member.
LEMMA LeastMember ==
  ASSUME NEW S, S \subseteq Nat, S # {}
  PROVE  \E m \in S : \A y \in S : m <= y
<1>1. PICK m \in S : \A y \in S : ~(<<y, m>> \in OpToRel(<, Nat))
  BY NatLessThanWellFounded, WFMin
<1>2. ASSUME NEW y \in S PROVE m <= y
  <2>1. m \in Nat /\ y \in Nat
    OBVIOUS
  <2>2. <<y, m>> \in Nat \X Nat /\ <<y, m>>[1] = y /\ <<y, m>>[2] = m
    BY <2>1
  <2>3. ~(y < m)
    BY <1>1, <2>2, Zenon DEF OpToRel
  <2> QED
    BY <2>1, <2>3
<1> QED
  BY <1>2

\* The recursion of Denotes follows the directory as namex does: at the first
\* element for which it did not, the one before shows that it must.
LEMMA DenotesWalked ==
  ASSUME NEW p, NEW i, Len(p.elems) \in Nat, type[ROOTINO] = "T_DIR",
         Walked(p.elems, Len(p.elems), i)
  PROVE  Denotes(p) = i
<1> DEFINE elems == p.elems
           n == Len(elems)
           g == [k \in 0..n |-> IF k = 0 THEN ROOTINO ELSE dir[elems[k]]]
           F(h) == [k \in 0..n |-> IF k = 0 THEN ROOTINO
                                  ELSE IF h[k - 1] = 0 \/ type[h[k - 1]] # "T_DIR" THEN 0
                                  ELSE dir[elems[k]]]
           f == CHOOSE h : h = F(h)
<1>1. Denotes(p) = f[n]
  BY DEF Denotes
<1>2. n \in Nat /\ i = (IF n = 0 THEN ROOTINO ELSE dir[elems[n]])
      /\ \A j \in 1..n : dir[elems[j]] # 0 /\ (j < n => type[dir[elems[j]]] = "T_DIR")
  BY DEF Walked
<1> HIDE DEF n
<1>3. \A k \in 1..n : k # 1 => k - 1 \in 1..n /\ k - 1 < n
  BY <1>2
<1>4. \A k \in 0..n : g[k] = IF k = 0 THEN ROOTINO ELSE dir[elems[k]]
  OBVIOUS
<1>5. ASSUME NEW k \in 1..n
      PROVE  k - 1 \in 0..n /\ g[k - 1] # 0 /\ type[g[k - 1]] = "T_DIR"
  <2>1. k - 1 \in 0..n /\ k - 1 < n
    BY <1>2
  <2>2. CASE k = 1
    BY <2>1, <2>2, <1>4 DEF ROOTINO
  <2>3. CASE k # 1
    <3>1. k - 1 \in 1..n /\ k - 1 # 0
      BY <2>1, <2>3
    <3>2. g[k - 1] = dir[elems[k - 1]]
      BY <1>4, <2>1, <3>1
    <3> QED
      BY <1>2, <2>1, <3>1, <3>2
  <2> QED
    BY <2>2, <2>3
<1>6. g = F(g)
  BY <1>4, <1>5 DEF g
<1> HIDE DEF g
<1>7. f = F(f)
  BY <1>6
<1> HIDE DEF f
<1>8. \A k \in 0..n : f[k] = IF k = 0 THEN ROOTINO
                             ELSE IF f[k - 1] = 0 \/ type[f[k - 1]] # "T_DIR" THEN 0
                             ELSE dir[elems[k]]
  BY <1>7
<1>9. \A k \in 0..n : f[k] = g[k]
  <2> DEFINE S == {k \in 0..n : f[k] # g[k]}
  <2> SUFFICES ASSUME S # {} PROVE FALSE
    OBVIOUS
  <2>1. S \subseteq Nat
    BY <1>2
  <2>2. PICK k \in S : \A j \in S : k <= j
    BY <2>1, LeastMember
  <2>3. k \in 0..n /\ f[k] # g[k]
    OBVIOUS
  <2>4. k # 0
    BY <1>4, <1>8, <2>3
  <2>5. k \in 1..n
    BY <1>2, <2>3, <2>4
  <2>6. k - 1 \in 0..n /\ g[k - 1] # 0 /\ type[g[k - 1]] = "T_DIR"
    BY <1>5, <2>5
  <2>7. k - 1 \notin S
    BY <1>2, <2>2, <2>5
  <2>8. f[k - 1] = g[k - 1]
    BY <2>6, <2>7
  <2> QED
    BY <1>4, <1>8, <2>3, <2>4, <2>6, <2>8
<1> QED
  BY <1>1, <1>2, <1>4, <1>9

\* One element further.
LEMMA WalkOn ==
  ASSUME NEW elems, Len(elems) \in Nat, NEW k, NEW i, Walked(elems, k, i), k < Len(elems),
         type[i] = "T_DIR", dir[elems[k + 1]] # 0
  PROVE  Walked(elems, k + 1, dir[elems[k + 1]])
<1>1. k \in Nat /\ k \in 0..Len(elems) /\ k + 1 \in 1..Len(elems)
  BY DEF Walked
<1>2. ASSUME NEW j \in 1..k + 1
      PROVE  dir[elems[j]] # 0 /\ (j < k + 1 => type[dir[elems[j]]] = "T_DIR")
  <2>1. CASE j = k + 1
    BY <1>1, <2>1
  <2>2. CASE j = k
    BY <1>1, <2>2 DEF Walked
  <2>3. CASE j < k
    <3>1. j \in 1..k
      BY <1>1, <2>3
    <3> QED
      BY <2>3, <3>1 DEF Walked
  <2> QED
    BY <1>1, <2>1, <2>2, <2>3
<1> QED
  BY <1>1, <1>2 DEF Walked

\* The same of the directory that create leaves.
LEMMA WalkOnThen ==
  ASSUME NEW elems, Len(elems) \in Nat, NEW k, NEW i, NEW d, Walked(elems, k, i)', k < Len(elems),
         type'[i] = "T_DIR", dir'[elems[k + 1]] = d, d # 0
  PROVE  Walked(elems, k + 1, d)'
<1>1. k \in Nat /\ k \in 0..Len(elems) /\ k + 1 \in 1..Len(elems)
  BY DEF Walked
<1>2. ASSUME NEW j \in 1..k + 1
      PROVE  dir'[elems[j]] # 0 /\ (j < k + 1 => type'[dir'[elems[j]]] = "T_DIR")
  <2>1. CASE j = k + 1
    BY <1>1, <2>1
  <2>2. CASE j = k
    BY <1>1, <2>2 DEF Walked
  <2>3. CASE j < k
    <3>1. j \in 1..k
      BY <1>1, <2>3
    <3> QED
      BY <2>3, <3>1 DEF Walked
  <2> QED
    BY <1>1, <2>1, <2>2, <2>3
<1> QED
  BY <1>1, <1>2 DEF Walked

\* Names are added to the directory; the ones in it stay, with their types.
LEMMA WalkKept ==
  ASSUME IInv, NEW elems, Len(elems) \in Nat, NEW k, NEW i, Walked(elems, k, i),
         \A j \in 1..k : elems[j] \in Names,
         \A m \in Names : dir[m] # 0 => dir'[m] = dir[m] /\ type'[dir[m]] = type[dir[m]]
  PROVE  Walked(elems, k, i)'
<1>1. k \in 0..Len(elems) /\ k \in Nat
  BY DEF Walked
<1>2. \A j \in 1..k : dir[elems[j]] # 0 /\ (j < k => type[dir[elems[j]]] = "T_DIR")
  BY DEF Walked
<1>3. \A j \in 1..k : dir'[elems[j]] # 0 /\ (j < k => type'[dir'[elems[j]]] = "T_DIR")
  BY <1>2
<1>4. i = IF k = 0 THEN ROOTINO ELSE dir'[elems[k]]
  <2>1. CASE k = 0
    BY <2>1 DEF Walked
  <2>2. CASE k # 0
    <3>1. k \in 1..k
      BY <1>1, <2>2
    <3> QED
      BY <1>2, <2>2, <3>1 DEF Walked
  <2> QED
    BY <2>1, <2>2
<1> QED
  BY <1>1, <1>3, <1>4 DEF Walked

\* The inode that namex or create has taken, when it gives the directory back.
LEMMA TakenInum ==
  ASSUME IInv, NEW i \in Inums, NEW s \in Slots, NEW t \in Slots, Gets(i, s),
         inode' = iput(iget(i, s), t)
  PROVE  inode'[s].inum = i
<1>1. iget(i, s) \in [Slots -> [inum : {0} \cup Inums, ref : Int]] /\ iget(i, s)[s].inum = i
  BY IgetInum, IgetFacts
<1> QED
  BY <1>1, IputInum

\* Where the call is on its path.
LEMMA OnPath ==
  ASSUME IInv, PathInv, InPath
  PROVE  LET elems == call.path.elems
             k == Len(elems) - Len(call.rest)
         IN /\ call \in PathCalls(call.omode) /\ elems \in Seq(Names) /\ Len(elems) \in Nat
            /\ \A j \in 1..Len(elems) : elems[j] \in Names
            /\ call.rest \in Seq(Names) /\ Len(call.rest) \in Nat
            /\ call.ip \in Slots /\ inode[call.ip].ref > 0
            /\ pc # "opened" /\ call.rest # << >> =>
                 /\ k \in Nat /\ k < Len(elems)
                 /\ Lookup = dir[elems[k + 1]] /\ Head(call.rest) = call.rest[1]
<1> DEFINE elems == call.path.elems
           rest == call.rest
           k == Len(elems) - Len(rest)
<1>1. call \in PathCalls(call.omode)
  BY DEF IInv, CallInv
<1>2. call.path \in Paths /\ rest \in Seq(Names) /\ call.ip \in Slots
  BY <1>1 DEF PathCalls
<1>3. elems \in Seq(Names)
  BY <1>2, PathNames
<1>4. Len(elems) \in Nat /\ Len(rest) \in Nat /\ \A j \in 1..Len(elems) : elems[j] \in Names
  BY <1>2, <1>3
<1>5. inode[call.ip].ref > 0
  BY <1>2, InUse DEF InPath
<1>6. ASSUME pc # "opened", rest # << >>
      PROVE  /\ k \in Nat /\ k < Len(elems)
             /\ Lookup = dir[elems[k + 1]] /\ Head(rest) = rest[1]
  <2>1. Len(rest) > 0 /\ Head(rest) = rest[1]
    BY <1>2, <1>4, <1>6
  <2>2. /\ Walked(elems, k, inode[call.ip].inum)
        /\ \A j \in 1..Len(rest) : rest[j] = elems[k + j]
    BY <1>6 DEF PathInv, InPath
  <2>3. k \in 0..Len(elems)
    BY <2>2 DEF Walked
  <2>4. 1 \in 1..Len(rest)
    BY <1>4, <2>1
  <2> QED
    <3> HIDE DEF elems, rest
    <3>1. k \in Nat /\ k < Len(elems)
      BY <1>4, <2>1, <2>3
    <3>2. rest[1] = elems[k + 1]
      BY <2>2, <2>4
    <3> QED
      BY <2>1, <3>1, <3>2 DEF Lookup, elems, rest
<1> QED
  BY <1>1, <1>2, <1>3, <1>4, <1>5, <1>6

LEMMA NextPathInv ==
  ASSUME IInv, PathInv, NamesFit, Next
  PROVE  PathInv'
<1> USE DEF InPath
<1> DEFINE elems == call.path.elems
           rest == call.rest
           k == Len(elems) - Len(rest)
<1>1. ASSUME cwd' = cwd \/ cwd' = nil PROVE cwd' # nil => inode'[cwd'].inum = ROOTINO
  <2> SUFFICES ASSUME cwd' = cwd, cwd # nil PROVE inode'[cwd].inum = ROOTINO
    BY <1>1
  <2>1. CASE pc = "wild"
    BY <2>1 DEF Next, SystemCall, Kernel, Enter, EnterWild, close, read, write, exitBegins,
         namexFails, namexDescends, namexParent, namexReturns, createFinds, createMakes,
         mknodReturns, openReturns, openFails, filewrite, exitCloses, exitReturns
  <2>2. CASE pc # "wild"
    <3>1. cwd \in Slots /\ inode[cwd].ref > 0
      BY <2>2, InUse DEF IInv, TypeOK
    <3> QED
      BY <3>1, NextKeeps DEF Keeps, PathInv
  <2> QED
    BY <2>1, <2>2
\* A step that leaves the path.
<1>2. ASSUME cwd' = cwd \/ cwd' = nil, pc' \notin {"namex", "create", "opened"} PROVE PathInv'
  BY <1>1, <1>2 DEF PathInv
<1>3. ASSUME NEW op, NEW p \in Paths, NEW omode, Enter(op, p, omode) PROVE PathInv'
  <2>1. PICK s \in Slots :
          /\ IF p.abs THEN Gets(ROOTINO, s) ELSE s = cwd
          /\ inode' = IF p.abs THEN iget(ROOTINO, s) ELSE idup(inode, s)
          /\ call' = [op |-> op, path |-> p, omode |-> omode, ip |-> s, rest |-> p.elems]
    BY <1>3 DEF Enter
  <2>2. inode'[s].inum = ROOTINO
    <3>1. CASE p.abs
      BY <2>1, <3>1, ConstFacts, IgetFacts
    <3>2. CASE ~p.abs
      <4>1. cwd # nil /\ cwd \in Slots /\ inode[cwd].inum = ROOTINO /\ inode \in [Slots -> IEntry]
        BY <2>1, <3>2, ConstFacts, Fields DEF PathInv
      <4> QED
        BY <2>1, <3>2, <4>1 DEF idup, IEntry
    <3> QED
      BY <3>1, <3>2
  <2>3. /\ pc' = "namex" /\ cwd' = cwd /\ call'.path.elems = p.elems /\ call'.rest = p.elems /\ call'.ip = s
        /\ Len(p.elems) \in Nat
    BY <1>3, <2>1, PathNames DEF Enter
  <2>4. Len(p.elems) - Len(p.elems) = 0 /\ \A j \in 1..Len(p.elems) : 0 + j = j
    BY <2>3
  <2>5. Walked(p.elems, 0, ROOTINO)'
    BY <2>3 DEF Walked
  <2> QED
    BY <1>1, <2>2, <2>3, <2>4, <2>5 DEF PathInv
<1>4. CASE SystemCall
  <2>1. ASSUME NEW op, NEW p, EnterWild(op, p) PROVE PathInv'
    BY <1>2, <2>1 DEF EnterWild, Wild
  <2>2. ASSUME NEW fd, NEW n, close(fd) \/ read(fd, n) \/ write(fd, n) PROVE PathInv'
    BY <1>2, <2>2 DEF close, read, write
  <2>3. ASSUME exitBegins PROVE PathInv'
    BY <1>2, <2>3 DEF exitBegins
  <2> QED
    BY <1>3, <1>4, <2>1, <2>2, <2>3 DEF SystemCall
<1>5. CASE namexFails \/ mknodReturns \/ openReturns \/ openFails \/ filewrite \/ exitCloses \/ exitReturns
  BY <1>2, <1>5 DEF namexFails, mknodReturns, openReturns, openFails, filewrite, exitCloses, exitReturns,
       Return, Wild
<1>6. CASE namexParent
  <2>1. /\ pc = "namex" /\ pc' = "create" /\ Len(rest) = 1 /\ Type(call.ip) = "T_DIR"
        /\ UNCHANGED <<inode, cwd, dir, type, call>>
    BY <1>6 DEF namexParent, disk
  <2> QED
    BY <1>1, <2>1 DEF PathInv, Walked, Type
<1>7. CASE namexReturns
  <2>1. CASE pc' = "opened"
    <3>1. pc = "namex" /\ rest = << >> /\ UNCHANGED <<inode, cwd, dir, type, call>>
      BY <1>7, <2>1 DEF namexReturns, disk, Return
    <3>2. Len(rest) = 0 /\ Len(elems) \in Nat /\ k = Len(elems)
      <4>1. Len(elems) \in Nat
        BY <3>1, OnPath
      <4>2. Len(rest) = 0
        BY <3>1
      <4> QED
        BY <4>1, <4>2
    <3>3. Walked(elems, Len(elems), inode[call.ip].inum)
      BY <3>1, <3>2 DEF PathInv
    <3> QED
      BY <1>1, <2>1, <3>1, <3>3 DEF PathInv, Walked
  <2>2. CASE pc' # "opened"
    BY <1>2, <1>7, <2>2 DEF namexReturns, Return
  <2> QED
    BY <2>1, <2>2
<1>8. CASE namexDescends
  <2>1. CASE ~HasEntry(Lookup)
    BY <1>2, <1>8, <2>1 DEF namexDescends, Wild
  <2>2. CASE HasEntry(Lookup)
    <3>1. pc = "namex" /\ rest # << >> /\ Type(call.ip) = "T_DIR" /\ Lookup # 0
      BY <1>8 DEF namexDescends
    <3>2. PICK s \in Slots :
            /\ Gets(Lookup, s)
            /\ inode' = iput(iget(Lookup, s), call.ip)
            /\ call' = [call EXCEPT !.ip = s, !.rest = Tail(@)]
            /\ UNCHANGED <<cwd, dir, type, pc>>
      BY <1>8, <2>2 DEF namexDescends, disk
    <3>3. PICK e, r, i, m : e = elems /\ r = rest /\ i = Lookup /\ m = k
      OBVIOUS
    <3>4. /\ call \in PathCalls(call.omode) /\ Len(e) \in Nat /\ r \in Seq(Names) /\ r # << >>
          /\ call.ip \in Slots /\ m \in Nat /\ m < Len(e) /\ i = dir[e[m + 1]]
          /\ i \in Inums /\ i # 0 /\ m = Len(e) - Len(r) /\ Len(r) \in Nat
      BY <3>1, <3>3, OnPath, LookupFacts
    <3>5. Walked(e, m, inode[call.ip].inum) /\ \A j \in 1..Len(r) : r[j] = e[m + j]
      BY <3>1, <3>3 DEF PathInv
    <3>6. Walked(e, m + 1, i)
      <4>1. type[inode[call.ip].inum] = "T_DIR"
        BY <3>1 DEF Type
      <4> QED
        BY <3>4, <3>5, <4>1, WalkOn
    <3>7. Walked(e, m + 1, i)'
      BY <3>2, <3>6 DEF Walked
    <3>8. inode'[s].inum = i
      BY <3>2, <3>3, <3>4, TakenInum
    <3>9. call'.ip = s /\ call'.path.elems = e /\ call'.rest = Tail(r)
      BY <3>2, <3>3, <3>4 DEF PathCalls
    <3>10. /\ Len(Tail(r)) = Len(r) - 1
           /\ \A j \in 1..Len(r) - 1 : Tail(r)[j] = r[j + 1]
      BY <3>4
    <3>11. Len(e) - Len(Tail(r)) = m + 1
      BY <3>4, <3>10
    <3>12. ASSUME NEW j \in 1..Len(Tail(r)) PROVE Tail(r)[j] = e[m + 1 + j]
      <4>1. j + 1 \in 1..Len(r) /\ j \in 1..Len(r) - 1 /\ m + (j + 1) = m + 1 + j
        BY <3>4, <3>10
      <4> QED
        BY <3>5, <3>10, <4>1
    <3>13. /\ Walked(call.path.elems, Len(call.path.elems) - Len(call.rest), inode[call.ip].inum)'
           /\ \A j \in 1..Len(call'.rest) : call'.rest[j] = call'.path.elems[Len(call'.path.elems) - Len(call'.rest) + j]
      <4>1. Walked(call.path.elems, Len(call.path.elems) - Len(call.rest), inode[call.ip].inum)'
        BY <3>7, <3>8, <3>9, <3>11, Zenon DEF Walked
      <4> QED
        BY <3>9, <3>11, <3>12, <4>1
    <3>14. pc' = "namex" /\ cwd' = cwd
      BY <3>1, <3>2
    <3> QED
      BY <1>1, <3>13, <3>14 DEF PathInv
  <2> QED
    BY <2>1, <2>2
\* create works in the directory of the last element.
<1>9. ASSUME pc = "create"
      PROVE  /\ call \in PathCalls(call.omode) /\ Len(elems) \in Nat /\ call.ip \in Slots
             /\ \A j \in 1..Len(elems) : elems[j] \in Names
             /\ rest # << >> /\ Head(rest) = rest[1] /\ rest[1] \in Names
             /\ Len(elems) - 1 \in Nat /\ Lookup = dir[elems[Len(elems)]] /\ rest[1] = elems[Len(elems)]
             /\ Walked(elems, Len(elems) - 1, inode[call.ip].inum)
             /\ type[inode[call.ip].inum] = "T_DIR"
  <2>1. Len(rest) = 1 /\ rest # << >> /\ type[inode[call.ip].inum] = "T_DIR"
    BY <1>9 DEF PathInv, Type, IInv, CallInv
  <2>2. /\ Walked(elems, Len(elems) - Len(rest), inode[call.ip].inum)
        /\ \A j \in 1..Len(rest) : rest[j] = elems[Len(elems) - Len(rest) + j]
    BY <1>9 DEF PathInv
  <2>3. /\ call \in PathCalls(call.omode) /\ Len(elems) \in Nat /\ call.ip \in Slots
        /\ \A j \in 1..Len(elems) : elems[j] \in Names
        /\ Len(elems) - Len(rest) \in Nat /\ Lookup = dir[elems[Len(elems) - Len(rest) + 1]]
        /\ Head(rest) = rest[1] /\ rest[1] \in Names
    BY <1>9, <2>1, OnPath, LookupFacts
  <2>4. rest[1] = elems[Len(elems) - 1 + 1]
    BY <2>1, <2>2
  <2>5. Len(elems) - 1 + 1 = Len(elems)
    BY <2>3
  <2> QED
    BY <2>1, <2>2, <2>3, <2>4, <2>5
<1>10. CASE createFinds
  <2>1. CASE pc' # "opened"
    BY <1>2, <1>10, <2>1 DEF createFinds, Wild, Return
  <2>2. CASE pc' = "opened"
    <3>1. PICK s \in Slots :
            /\ pc = "create" /\ Lookup # 0
            /\ Gets(Lookup, s)
            /\ inode' = iput(iget(Lookup, s), call.ip)
            /\ call' = [call EXCEPT !.ip = s]
            /\ UNCHANGED <<cwd, dir, type>>
      BY <1>10, <2>2 DEF createFinds, Wild, Return, disk
    <3>2. PICK e, i, n : e = elems /\ i = Lookup /\ n = Len(elems)
      OBVIOUS
    <3>3. /\ n = Len(e) /\ n \in Nat /\ n - 1 \in Nat /\ i = dir[e[n]] /\ i \in Inums /\ i # 0 /\ call.ip \in Slots
          /\ Walked(e, n - 1, inode[call.ip].inum) /\ type[inode[call.ip].inum] = "T_DIR"
      BY <1>9, <3>1, <3>2, LookupFacts
    <3>4. Walked(e, n, i)
      <4>1. n - 1 < n /\ n - 1 + 1 = n
        BY <3>3
      <4> QED
        BY <3>3, <4>1, WalkOn
    <3>5. Walked(e, n, i)'
      BY <3>1, <3>4 DEF Walked
    <3>6. inode'[s].inum = i
      BY <3>1, <3>2, <3>3, TakenInum
    <3>7. call'.ip = s /\ call'.path.elems = e
      BY <1>9, <3>1, <3>2 DEF PathCalls
    <3>8. Walked(call.path.elems, Len(call.path.elems), inode[call.ip].inum)'
      BY <3>3, <3>5, <3>6, <3>7, Zenon DEF Walked
    <3> QED
      BY <1>1, <2>2, <3>1, <3>8 DEF PathInv
  <2> QED
    BY <2>1, <2>2
<1>11. CASE createMakes
  <2>1. CASE pc' # "opened"
    BY <1>2, <1>11, <2>1 DEF createMakes, Wild
  <2>2. CASE pc' = "opened"
    <3>1. PICK i \in FreeInums, s \in Slots :
            /\ pc = "create" /\ Lookup = 0 /\ Gets(i, s)
            /\ type' = [type EXCEPT ![i] = IF call.op = "mknod" THEN call.omode ELSE "T_FILE"]
            /\ dirlink(rest[1], i)
            /\ inode' = iput(iget(i, s), call.ip)
            /\ call' = [call EXCEPT !.ip = s]
            /\ UNCHANGED cwd
      BY <1>11, <2>2 DEF createMakes, Wild
    <3>2. PICK e, n, m : e = elems /\ n = Len(elems) /\ m = inode[call.ip].inum
      OBVIOUS
    <3>3. /\ n = Len(e) /\ n \in Nat /\ n - 1 \in Nat /\ call.ip \in Slots /\ rest[1] = e[n] /\ e[n] \in Names
          /\ dir[e[n]] = 0 /\ \A j \in 1..n : e[j] \in Names
          /\ Walked(e, n - 1, m) /\ type[m] = "T_DIR"
      BY <1>9, <3>1, <3>2
    <3>4. i \in Inums /\ type[i] = "T_NONE" /\ i # 0
      BY ConstFacts DEF FreeInums
    <3>5. dir' = [dir EXCEPT ![e[n]] = i] /\ dir \in [Names -> {0} \cup Inums] /\ type \in [Inums -> Types]
      BY <3>1, <3>3, <3>4, RoomInDirectory DEF IInv, TypeOK, Types
    <3>6. \A name \in Names : dir[name] # 0 => dir'[name] = dir[name] /\ type'[dir[name]] = type[dir[name]]
      BY <3>1, <3>3, <3>4, <3>5 DEF IInv, EntryInv
    <3>7. Walked(e, n - 1, m)'
      <4>1. \A j \in 1..n - 1 : e[j] \in Names
        BY <3>3
      <4> QED
        BY <3>3, <3>6, <4>1, WalkKept
    <3>8. type'[m] = "T_DIR"
      <4>1. m \in Inums
        BY <1>9, <3>1, <3>2, InUse DEF IInv, EntryInv
      <4> QED
        BY <3>1, <3>3, <3>4, <3>5, <4>1
    <3>9. Walked(e, n, i)'
      <4>1. dir'[e[n]] = i
        BY <3>3, <3>5
      <4>2. n - 1 < n /\ n - 1 + 1 = n
        BY <3>3
      <4> QED
        BY <3>3, <3>4, <3>7, <3>8, <4>1, <4>2, WalkOnThen
    <3>10. inode'[s].inum = i
      BY <3>1, <3>3, <3>4, TakenInum
    <3>11. call'.ip = s /\ call'.path.elems = e
      BY <1>9, <3>1, <3>2 DEF PathCalls
    <3>12. Walked(call.path.elems, Len(call.path.elems), inode[call.ip].inum)'
      BY <3>3, <3>9, <3>10, <3>11, Zenon DEF Walked
    <3> QED
      BY <1>1, <2>2, <3>1, <3>12 DEF PathInv
  <2> QED
    BY <2>1, <2>2
<1> QED
  BY <1>4, <1>5, <1>6, <1>7, <1>8, <1>10, <1>11 DEF Next, Kernel

\* When the root directory has room for every name the program uses, what
\* sys_open opens and sys_mknod makes is what the path denotes in the
\* directory as it then is: what namex found element by element, taking and
\* giving back entries of icache, or what create has put there.
THEOREM OpensDenoted ==
  ASSUME NamesFit
  PROVE  Spec => []OpensWhatPathDenotes
<1>1. Init => PathInv
  BY ConstFacts DEF Init, PathInv
<1>2. IInv /\ PathInv /\ [Next]_vars => PathInv'
  <2>1. ASSUME PathInv, UNCHANGED vars PROVE PathInv'
    BY <2>1 DEF PathInv, Walked, Type, vars, disk
  <2> QED
    BY <2>1, NextPathInv
<1>3. IInv /\ PathInv => OpensWhatPathDenotes
  <2> SUFFICES ASSUME IInv, PathInv, pc = "opened" PROVE inode[call.ip].inum = Denotes(call.path)
    BY DEF OpensWhatPathDenotes
  <2>1. Len(call.path.elems) \in Nat
    BY OnPath DEF InPath
  <2>2. Walked(call.path.elems, Len(call.path.elems), inode[call.ip].inum) /\ type[ROOTINO] = "T_DIR"
    BY DEF PathInv, IInv, EntryInv
  <2> QED
    BY <2>1, <2>2, DenotesWalked
<1> QED
  BY <1>1, <1>2, <1>3, Invariance, PTL DEF Spec
===============================================================================
