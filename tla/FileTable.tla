------------------------------ MODULE FileTable -------------------------------
(***************************************************************************)
(* The three tables between a descriptor and an inode, and the reference   *)
(* counts that tie them together: ofile of struct proc, ftable of          *)
(* fs/file.c and icache of fs/fs.c, under the system calls of              *)
(* kernel/calls.c, the namei of kernel/exec.c and the exit of              *)
(* kernel/proc.c.  One step is one call of a function that takes or gives  *)
(* back references: one turn of the loop of namex, create, the end of      *)
(* sys_open.  Contents of files are module Fs; here a file has a size, in  *)
(* units of a directory entry.  The truncation in iput is unreachable, by  *)
(* Fs!DropLosesNothing, and iput is the decrement of ref.                  *)
(***************************************************************************)
EXTENDS Integers, Sequences, FiniteSets

CONSTANTS NINODE,     \* entries of icache
          NFILE,      \* entries of ftable
          NOFILE,     \* descriptors of a process
          NINODES,    \* inodes of the disk are 1..NINODES-1
          MAXSIZE,    \* MAXFILE * BSIZE
          MaxChunk,   \* most that filewrite gives to one writei
          MaxCount,   \* largest count of a read or a write
          MaxOffset,  \* bound on the offset in a device, which has no end
          Image,      \* the files of the image mkfs wrote, a sequence of names
          RootSize,   \* size mkfs gave the root directory
          Paths,      \* the paths passed to the system calls
          Modes,      \* the modes passed to open, sets of flags
          Devices,    \* the types of the devices passed to mknod
          Calls,      \* the system calls the program makes
          nil         \* the null pointer

ROOTINO == 1
Inums == 1..NINODES - 1
Slots == 0..NINODE - 1
Files == 0..NFILE - 1
Fds == 0..NOFILE - 1

O_WRONLY == "O_WRONLY"
O_RDWR == "O_RDWR"
O_CREATE == "O_CREATE"
O_RDONLY == {}

ASSUME FileTableAssumption ==
  /\ NINODE \in Nat \ {0} /\ NFILE \in Nat /\ NOFILE \in Nat
  /\ Image \in Seq(STRING)
  /\ NINODES \in Nat /\ NINODES >= Len(Image) + 2
  /\ MAXSIZE \in Nat /\ MaxChunk \in Nat \ {0} /\ MaxCount \in Nat /\ MaxOffset \in Nat
  /\ RootSize \in Len(Image) + 2..MAXSIZE
  /\ Paths \subseteq [abs : BOOLEAN, elems : Seq(STRING)]
  /\ Devices \subseteq {"T_DEV", "T_CONSOLE"}
  /\ Modes \subseteq SUBSET {O_WRONLY, O_RDWR, O_CREATE}
  /\ Calls \subseteq {"open", "mknod", "exec", "read", "write", "close", "exit"}
  /\ nil \notin Slots \cup Files
  /\ nil \notin [inum : Inums, off : Nat, readable : BOOLEAN, writable : BOOLEAN]

VARIABLES inode,     \* icache.inode: the inode number and ref of each entry
          file,      \* ftable.file
          ofile,     \* curproc->ofile: an entry of ftable, or nil
          cwd,       \* curproc->cwd: an entry of icache, or nil
          dir,       \* the entries of the root directory
          type,      \* the type of each inode: T_NONE when it is free, T_DEV for a
                     \* device without a driver, T_CONSOLE for major CONSOLE
          size,      \* the size of each inode
          pc,        \* where the kernel is, or "user"
          call       \* the locals of the running system call

disk == <<dir, type, size>>
vars == <<inode, file, ofile, cwd, disk, pc, call>>

NoFile == [type |-> "FD_NONE", ref |-> 0, ip |-> nil, off |-> 0,
           readable |-> FALSE, writable |-> FALSE]
NoCall == [op |-> nil]

Elems(p) == {p.elems[i] : i \in DOMAIN p.elems}
Names == {".", ".."} \cup {Image[i] : i \in DOMAIN Image} \cup UNION {Elems(p) : p \in Paths}

\* The image of mkfs, after uinit has set cwd to namei("/").
Init ==
  /\ inode = [s \in Slots |-> IF s = 0 THEN [inum |-> ROOTINO, ref |-> 1]
                                       ELSE [inum |-> 0, ref |-> 0]]
  /\ file = [f \in Files |-> NoFile]
  /\ ofile = [fd \in Fds |-> nil]
  /\ cwd = 0
  /\ dir \in [Names -> 0..Len(Image) + 1]
  /\ dir["."] = ROOTINO /\ dir[".."] = ROOTINO
  /\ \A i \in DOMAIN Image : dir[Image[i]] = i + 1
  /\ \A n \in Names : dir[n] = ROOTINO => n \in {".", ".."}
  /\ \A n, m \in Names \ {".", ".."} : dir[n] = dir[m] /\ dir[n] # 0 => n = m
  /\ type = [i \in Inums |-> IF i = ROOTINO THEN "T_DIR"
                             ELSE IF i <= Len(Image) + 1 THEN "T_FILE" ELSE "T_NONE"]
  /\ size = [i \in Inums |-> IF i = ROOTINO THEN RootSize
                             ELSE IF i <= Len(Image) + 1 THEN 1 ELSE 0]
  /\ pc = "user"
  /\ call = NoCall

-----------------------------------------------------------------------------
(***************************************************************************)
(* The inode cache.                                                        *)
(***************************************************************************)

First(S, x) == x \in S /\ \A y \in S : x <= y

\* Faulty variants, whose names start with Bad, stand before the definitions
\* they replace when the properties are tested for their teeth.

\* Faulty: the search ends at the first free entry.
BadHits(i) ==
  {s \in Slots : /\ inode[s].ref > 0 /\ inode[s].inum = i
                 /\ \A t \in 0..s - 1 : inode[t].ref > 0}

Hits(i) == {s \in Slots : inode[s].ref > 0 /\ inode[s].inum = i}

\* Faulty: an entry is used once.
BadEmpty == {s \in Slots : inode[s].ref = 0 /\ inode[s].inum = 0}

Empty == {s \in Slots : inode[s].ref = 0}

\* iget finds an entry for inode i; otherwise it follows a null pointer.
HasEntry(i) == Hits(i) # {} \/ Empty # {}

\* iget(i) returns the entry s.
Gets(i, s) == IF Hits(i) # {} THEN First(Hits(i), s) ELSE First(Empty, s)

\* icache after that iget.
iget(i, s) ==
  [inode EXCEPT ![s] = [inum |-> i, ref |-> IF Hits(i) # {} THEN @.ref + 1 ELSE 1]]

idup(ic, s) == [ic EXCEPT ![s].ref = @ + 1]

iput(ic, s) == [ic EXCEPT ![s].ref = @ - 1]

Type(s) == type[inode[s].inum]

\* A null pointer is followed: the kernel goes on with whatever the program's
\* page 0 holds, and the model stops.
Wild ==
  /\ pc' = "wild"
  /\ UNCHANGED <<inode, file, ofile, cwd, disk, call>>

\* The call returns to the program.
Return == pc' = "user" /\ call' = NoCall

-----------------------------------------------------------------------------
(***************************************************************************)
(* Path names.                                                             *)
(***************************************************************************)

\* sys_open with O_CREATE and sys_mknod go through nameiparent.  The mode of
\* mknod is the type of the device.
Parent == IF call.op = "mknod" THEN TRUE ELSE O_CREATE \in call.omode

\* namex begins at the root or at the working directory.
Enter(op, p, omode) ==
  /\ pc = "user" /\ op \in Calls
  /\ IF p.abs THEN HasEntry(ROOTINO) ELSE cwd # nil
  /\ \E s \in Slots :
       /\ IF p.abs THEN Gets(ROOTINO, s) ELSE s = cwd
       /\ inode' = IF p.abs THEN iget(ROOTINO, s) ELSE idup(inode, s)
       /\ call' = [op |-> op, path |-> p, omode |-> omode, ip |-> s, rest |-> p.elems]
  /\ pc' = "namex"
  /\ UNCHANGED <<file, ofile, cwd, disk>>

EnterWild(op, p) ==
  /\ pc = "user" /\ op \in Calls
  /\ ~(IF p.abs THEN HasEntry(ROOTINO) ELSE cwd # nil)
  /\ Wild

\* dirlookup of the next element of the path, 0 when there is none.
Lookup == dir[Head(call.rest)]

\* The path goes through a file, ends early, or names nothing.
namexFails ==
  /\ pc = "namex"
  /\ IF call.rest = << >> THEN Parent
     ELSE \/ Type(call.ip) # "T_DIR"
          \/ ~(Parent /\ Len(call.rest) = 1) /\ Lookup = 0
  /\ inode' = iput(inode, call.ip)
  /\ Return
  /\ UNCHANGED <<file, ofile, cwd, disk>>

\* Faulty: the directory is not given back.
BadNamexDescends ==
  /\ pc = "namex" /\ call.rest # << >>
  /\ Type(call.ip) = "T_DIR" /\ ~(Parent /\ Len(call.rest) = 1) /\ Lookup # 0
  /\ IF HasEntry(Lookup)
     THEN \E s \in Slots :
            /\ Gets(Lookup, s)
            /\ inode' = iget(Lookup, s)
            /\ call' = [call EXCEPT !.ip = s, !.rest = Tail(@)]
            /\ UNCHANGED <<file, ofile, cwd, disk, pc>>
     ELSE Wild

\* Down one directory: the next inode is taken before the last is given back.
namexDescends ==
  /\ pc = "namex" /\ call.rest # << >>
  /\ Type(call.ip) = "T_DIR" /\ ~(Parent /\ Len(call.rest) = 1) /\ Lookup # 0
  /\ IF HasEntry(Lookup)
     THEN \E s \in Slots :
            /\ Gets(Lookup, s)
            /\ inode' = iput(iget(Lookup, s), call.ip)
            /\ call' = [call EXCEPT !.ip = s, !.rest = Tail(@)]
            /\ UNCHANGED <<file, ofile, cwd, disk, pc>>
     ELSE Wild

\* nameiparent returns the directory of the last element, for create.
namexParent ==
  /\ pc = "namex" /\ Parent /\ Len(call.rest) = 1
  /\ Type(call.ip) = "T_DIR"
  /\ pc' = "create"
  /\ UNCHANGED <<inode, file, ofile, cwd, disk, call>>

\* namei returns the inode.  A directory is opened for reading only; exec
\* gives the inode back whether it loads the program or not.
namexReturns ==
  /\ pc = "namex" /\ ~Parent /\ call.rest = << >>
  /\ IF call.op = "exec" \/ (Type(call.ip) = "T_DIR" /\ call.omode # O_RDONLY)
     THEN inode' = iput(inode, call.ip) /\ Return
     ELSE pc' = "opened" /\ UNCHANGED <<inode, call>>
  /\ UNCHANGED <<file, ofile, cwd, disk>>

-----------------------------------------------------------------------------
(***************************************************************************)
(* create, in the directory call.ip.                                       *)
(***************************************************************************)

\* Faulty: the file is given back and its directory returned.
BadCreateFinds ==
  /\ pc = "create" /\ Lookup # 0
  /\ IF HasEntry(Lookup)
     THEN \E s \in Slots :
            /\ Gets(Lookup, s)
            /\ IF call.op = "open" /\ type[Lookup] = "T_FILE"
               THEN /\ inode' = iput(iget(Lookup, s), s)
                    /\ pc' = "opened" /\ UNCHANGED call
               ELSE /\ inode' = iput(iput(iget(Lookup, s), call.ip), s)
                    /\ Return
            /\ UNCHANGED <<file, ofile, cwd, disk>>
     ELSE Wild

\* The name exists: only a file, and only for open, is not an error.
createFinds ==
  /\ pc = "create" /\ Lookup # 0
  /\ IF HasEntry(Lookup)
     THEN \E s \in Slots :
            /\ Gets(Lookup, s)
            /\ IF call.op = "open" /\ type[Lookup] = "T_FILE"
               THEN /\ inode' = iput(iget(Lookup, s), call.ip)
                    /\ call' = [call EXCEPT !.ip = s]
                    /\ pc' = "opened"
               ELSE /\ inode' = iput(iput(iget(Lookup, s), call.ip), s)
                    /\ Return
            /\ UNCHANGED <<file, ofile, cwd, disk>>
     ELSE Wild

FreeInums == {i \in Inums : type[i] = "T_NONE"}

\* dirlink writes the entry into the first free one, or at the end; on a
\* directory of the largest size writei fails, and the file has no name.
dirlink(name, i) ==
  LET used == Cardinality({n \in Names : dir[n] # 0})
  IN IF used < size[ROOTINO] \/ size[ROOTINO] < MAXSIZE
     THEN /\ dir' = [dir EXCEPT ![name] = i]
          /\ size' = [size EXCEPT ![i] = 0, ![ROOTINO] = IF used < @ THEN @ ELSE @ + 1]
     ELSE UNCHANGED dir /\ size' = [size EXCEPT ![i] = 0]

\* The name is new: allocate an inode and link it.  Without a free inode
\* ialloc returns 0, and create uses it.
createMakes ==
  /\ pc = "create" /\ Lookup = 0
  /\ IF FreeInums # {} /\ Empty # {}
     THEN \E i \in FreeInums, s \in Slots :
            /\ First(FreeInums, i) /\ Gets(i, s)
            /\ type' = [type EXCEPT ![i] = IF call.op = "mknod" THEN call.omode ELSE "T_FILE"]
            /\ dirlink(call.rest[1], i)
            /\ inode' = iput(iget(i, s), call.ip)
            /\ call' = [call EXCEPT !.ip = s]
            /\ pc' = "opened"
            /\ UNCHANGED <<file, ofile, cwd>>
     ELSE Wild

\* sys_mknod gives the new inode back.
mknodReturns ==
  /\ pc = "opened" /\ call.op = "mknod"
  /\ inode' = iput(inode, call.ip)
  /\ Return
  /\ UNCHANGED <<file, ofile, cwd, disk>>

-----------------------------------------------------------------------------
(***************************************************************************)
(* Files and descriptors.                                                  *)
(***************************************************************************)

\* Faulty: a file with one reference counts as free.
BadFreeFiles == {f \in Files : file[f].ref <= 1}

FreeFiles == {f \in Files : file[f].ref = 0}

FreeFds == {fd \in Fds : ofile[fd] = nil}

\* ftable after fileclose(f).
fileclose(ft, f) ==
  [ft EXCEPT ![f].ref = @ - 1, ![f].type = IF ft[f].ref > 1 THEN @ ELSE "FD_NONE"]

\* icache after fileclose(f).
filecloseInode(ft, ic, f) ==
  IF ft[f].ref = 1 /\ ft[f].type = "FD_INODE" THEN iput(ic, ft[f].ip) ELSE ic

\* The end of sys_open: filealloc, fdalloc and the fields of struct file.
openReturns ==
  /\ pc = "opened" /\ call.op = "open"
  /\ FreeFiles # {} /\ FreeFds # {}
  /\ \E f \in FreeFiles, fd \in FreeFds :
       /\ First(FreeFiles, f) /\ First(FreeFds, fd)
       /\ ofile' = [ofile EXCEPT ![fd] = f]
       /\ file' = [file EXCEPT ![f] =
            [type |-> "FD_INODE", ref |-> 1, ip |-> call.ip, off |-> 0,
             readable |-> O_WRONLY \notin call.omode,
             writable |-> call.omode \cap {O_WRONLY, O_RDWR} # {}]]
  /\ Return
  /\ UNCHANGED <<inode, cwd, disk>>

\* Without a free descriptor the new file is closed again.
openFails ==
  /\ pc = "opened" /\ call.op = "open"
  /\ FreeFiles = {} \/ FreeFds = {}
  /\ IF FreeFiles = {} THEN inode' = iput(inode, call.ip) /\ UNCHANGED file
     ELSE \E f \in FreeFiles :
            LET ft == [file EXCEPT ![f].ref = 1] IN
            /\ First(FreeFiles, f)
            /\ file' = fileclose(ft, f)
            /\ inode' = iput(filecloseInode(ft, inode, f), call.ip)
  /\ Return
  /\ UNCHANGED <<ofile, cwd, disk>>

IsOpen(fd) == ofile[fd] # nil

close(fd) ==
  /\ pc = "user" /\ "close" \in Calls /\ IsOpen(fd)
  /\ ofile' = [ofile EXCEPT ![fd] = nil]
  /\ file' = fileclose(file, ofile[fd])
  /\ inode' = filecloseInode(file, inode, ofile[fd])
  /\ UNCHANGED <<cwd, disk, pc, call>>

LesserOf(a, b) == IF a <= b THEN a ELSE b

IsDevice(i) == type[i] \in {"T_DEV", "T_CONSOLE"}

\* Faulty: the offset moves by the count asked for.
BadRead(fd, n) ==
  /\ pc = "user" /\ "read" \in Calls /\ IsOpen(fd)
  /\ LET f == ofile[fd]
         i == inode[file[f].ip].inum IN
       /\ file[f].readable /\ ~IsDevice(i) /\ file[f].off <= size[i]
       /\ file' = [file EXCEPT ![f].off = @ + n]
  /\ UNCHANGED <<inode, ofile, cwd, disk, pc, call>>

\* fileread.  No device has a read function.
read(fd, n) ==
  /\ pc = "user" /\ "read" \in Calls /\ IsOpen(fd)
  /\ LET f == ofile[fd]
         i == inode[file[f].ip].inum IN
       /\ file[f].readable /\ ~IsDevice(i) /\ file[f].off <= size[i]
       /\ file' = [file EXCEPT ![f].off = @ + LesserOf(n, size[i] - @)]
  /\ UNCHANGED <<inode, ofile, cwd, disk, pc, call>>

\* filewrite begins.  The count is bounded for a device by MaxOffset.
write(fd, n) ==
  /\ pc = "user" /\ "write" \in Calls /\ IsOpen(fd)
  /\ file[ofile[fd]].writable
  /\ IsDevice(inode[file[ofile[fd]].ip].inum) => file[ofile[fd]].off + n <= MaxOffset
  /\ pc' = "filewrite"
  /\ call' = [op |-> "write", f |-> ofile[fd], left |-> n]
  /\ UNCHANGED <<inode, file, ofile, cwd, disk>>

\* writei of n at off accepts the write and grows the inode to Grown.  Only
\* the console has a write function, and it takes any offset.
Accepts(i, off, n) ==
  \/ type[i] = "T_CONSOLE"
  \/ ~IsDevice(i) /\ off <= size[i] /\ off + n <= MAXSIZE

Grown(i, end) == IF IsDevice(i) \/ end <= size[i] THEN size[i] ELSE end

\* Faulty: a failed writei does not end the loop.
BadFilewrite ==
  /\ pc = "filewrite"
  /\ LET f == call.f
         i == inode[file[f].ip].inum
         n1 == LesserOf(call.left, MaxChunk)
         end == file[f].off + n1 IN
     IF Accepts(i, file[f].off, n1)
     THEN /\ file' = [file EXCEPT ![f].off = end]
          /\ size' = [size EXCEPT ![i] = Grown(i, end)]
          /\ IF call.left = n1 THEN Return
             ELSE call' = [call EXCEPT !.left = @ - n1] /\ UNCHANGED pc
     ELSE UNCHANGED <<file, size, pc, call>>
  /\ UNCHANGED <<inode, ofile, cwd, dir, type>>

\* One turn of the loop of filewrite, with its writei; a write that fails
\* ends the loop.
filewrite ==
  /\ pc = "filewrite"
  /\ LET f == call.f
         i == inode[file[f].ip].inum
         n1 == LesserOf(call.left, MaxChunk)
         end == file[f].off + n1 IN
     IF Accepts(i, file[f].off, n1)
     THEN /\ file' = [file EXCEPT ![f].off = end]
          /\ size' = [size EXCEPT ![i] = Grown(i, end)]
          /\ IF call.left = n1 THEN Return
             ELSE call' = [call EXCEPT !.left = @ - n1] /\ UNCHANGED pc
     ELSE Return /\ UNCHANGED <<file, size>>
  /\ UNCHANGED <<inode, ofile, cwd, dir, type>>

\* exit closes the descriptors in order, gives the working directory back
\* and returns to the program.
exitBegins ==
  /\ pc = "user" /\ "exit" \in Calls
  /\ pc' = "exit"
  /\ call' = [op |-> "exit", fd |-> 0]
  /\ UNCHANGED <<inode, file, ofile, cwd, disk>>

exitCloses ==
  /\ pc = "exit" /\ call.fd < NOFILE
  /\ LET f == ofile[call.fd] IN
       IF f = nil THEN UNCHANGED <<inode, file, ofile>>
       ELSE /\ file' = fileclose(file, f)
            /\ inode' = filecloseInode(file, inode, f)
            /\ ofile' = [ofile EXCEPT ![call.fd] = nil]
  /\ call' = [call EXCEPT !.fd = @ + 1]
  /\ UNCHANGED <<cwd, disk, pc>>

exitReturns ==
  /\ pc = "exit" /\ call.fd = NOFILE
  /\ IF cwd = nil THEN Wild
     ELSE /\ inode' = iput(inode, cwd)
          /\ cwd' = nil
          /\ Return
          /\ UNCHANGED <<file, ofile, disk>>

-----------------------------------------------------------------------------

SystemCall ==
  \/ \E p \in Paths :
       \/ \E omode \in Modes : Enter("open", p, omode)
       \/ \E device \in Devices : Enter("mknod", p, device)
       \/ Enter("exec", p, O_RDONLY)
       \/ \E op \in {"open", "mknod", "exec"} : EnterWild(op, p)
  \/ \E fd \in Fds :
       \/ close(fd)
       \/ \E n \in 1..MaxCount : read(fd, n) \/ write(fd, n)
  \/ exitBegins

Kernel ==
  \/ namexFails \/ namexDescends \/ namexParent \/ namexReturns
  \/ createFinds \/ createMakes \/ mknodReturns
  \/ openReturns \/ openFails
  \/ filewrite
  \/ exitCloses \/ exitReturns

Next == SystemCall \/ Kernel

Spec == Init /\ [][Next]_vars

\* The processor executes the kernel until it returns to the program.
FairSpec == Spec /\ WF_vars(Kernel)

-----------------------------------------------------------------------------
(***************************************************************************)
(* Properties.                                                             *)
(***************************************************************************)

InPath == pc \in {"namex", "create", "opened"}

\* The fields of the tables keep their types, and every pointer of the kernel
\* points into its table.
TypeOK ==
  /\ inode \in [Slots -> [inum : {0} \cup Inums, ref : Nat]]
  /\ file \in [Files -> [type : {"FD_NONE", "FD_INODE"}, ref : Nat, ip : Slots \cup {nil},
                         off : Nat, readable : BOOLEAN, writable : BOOLEAN]]
  /\ ofile \in [Fds -> Files \cup {nil}]
  /\ cwd \in Slots \cup {nil}
  /\ dir \in [Names -> {0} \cup Inums]
  /\ type \in [Inums -> {"T_NONE", "T_DIR", "T_FILE", "T_DEV", "T_CONSOLE"}]
  /\ size \in [Inums -> 0..MAXSIZE]
  /\ pc \in {"user", "namex", "create", "opened", "filewrite", "exit", "wild"}
  /\ InPath => call.ip \in Slots

\* The references to entry s: open files, the working directory, the running
\* call.
OpenFilesOn(s) == {f \in Files : file[f].type = "FD_INODE" /\ file[f].ip = s}

\* A struct file is in use exactly when one descriptor, and only one, points
\* to it: no file leaks when open fails, and none is shared.
FilesExact ==
  \A f \in Files :
    /\ file[f].ref = Cardinality({fd \in Fds : ofile[fd] = f})
    /\ file[f].ref <= 1
    /\ file[f].ref = 1 <=> file[f].type = "FD_INODE"

\* ref of every entry of icache counts its references: no path through open,
\* create, namex, close or exit, failing or not, leaks one or gives one back
\* twice; nor does one lose a struct file; and every pointer of the kernel
\* points into its table.
RefsExact ==
  /\ TypeOK
  /\ FilesExact
  /\ pc # "wild" =>
       \A s \in Slots :
         inode[s].ref = Cardinality(OpenFilesOn(s))
                        + (IF cwd = s THEN 1 ELSE 0)
                        + (IF InPath /\ call.ip = s THEN 1 ELSE 0)

\* No inode has two entries of icache in use, which would drift apart.
OneEntryPerInode ==
  \A s, t \in Slots :
    inode[s].ref > 0 /\ inode[t].ref > 0 /\ inode[s].inum = inode[t].inum => s = t

\* No program can write the entries of a directory through a descriptor,
\* whatever flags it opens it with; and a descriptor never stands beyond the
\* end of its file, however many descriptors read and extend it, so readi and
\* writei never refuse its offset.
DescriptorsValid ==
  \A f \in Files :
    LET i == inode[file[f].ip].inum IN
    file[f].type = "FD_INODE" =>
      /\ type[i] = "T_DIR" => ~file[f].writable
      /\ ~IsDevice(i) => file[f].off <= size[i]

\* The inode a path denotes, 0 when it denotes none: the definition namex is
\* checked against.
Denotes(p) ==
  LET inum[k \in 0..Len(p.elems)] ==
        IF k = 0 THEN ROOTINO
        ELSE IF inum[k - 1] = 0 \/ type[inum[k - 1]] # "T_DIR" THEN 0
        ELSE dir[p.elems[k]]
  IN inum[Len(p.elems)]

\* sys_open opens the inode that its path denotes, whether namex found it or
\* create made it.
OpensWhatPathDenotes ==
  pc = "opened" => inode[call.ip].inum = Denotes(call.path)

\* The kernel never follows a null inode pointer: icache has room for every
\* descriptor, the working directory and the inode namex takes before it
\* gives the last one back; and the disk has inodes left for create.
NoWildPointer == pc # "wild"

\* The descriptors behave as those of module FdTable.
Closed == nil
fds ==
  [fd \in Fds |->
     IF ofile[fd] = nil THEN Closed
     ELSE [inum |-> inode[file[ofile[fd]].ip].inum,
           off |-> file[ofile[fd]].off,
           readable |-> file[ofile[fd]].readable,
           writable |-> file[ofile[fd]].writable]]
Abstract == INSTANCE FdTable
ImplementsFdTable == Abstract!Spec

\* Every system call on paths and files that has begun returns to the program:
\* the loops of namex and filewrite end, and none of them comes upon a null
\* inode on its way.  exit is left out: it should not return, and does.
CallsReturn == InPath \/ pc = "filewrite" ~> pc = "user"
===============================================================================
