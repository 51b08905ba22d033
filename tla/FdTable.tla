------------------------------- MODULE FdTable --------------------------------
(***************************************************************************)
(* What the file descriptors of kernel/calls.c promise a program: each     *)
(* descriptor is closed or stands for one inode, with an offset and two    *)
(* permissions of its own.  open gives the lowest closed descriptor, at    *)
(* offset 0; reads and writes move the offset of one descriptor; close     *)
(* closes one; nothing else touches a descriptor.  There are no struct     *)
(* files, no inode cache and no reference counts here.                     *)
(***************************************************************************)
EXTENDS Integers

CONSTANTS NOFILE,    \* descriptors of a process
          Inums,     \* inodes
          MaxCount,  \* most that one step moves an offset
          Closed     \* a descriptor that stands for nothing

VARIABLE fds

Fd == 0..NOFILE - 1

Init == fds = [fd \in Fd |-> Closed]

Open(fd, i, r, w) ==
  /\ fds[fd] = Closed
  /\ \A lower \in 0..fd - 1 : fds[lower] # Closed
  /\ fds' = [fds EXCEPT ![fd] = [inum |-> i, off |-> 0, readable |-> r, writable |-> w]]

Advance(fd, n) ==
  /\ fds[fd] # Closed
  /\ fds[fd].readable \/ fds[fd].writable
  /\ fds' = [fds EXCEPT ![fd].off = @ + n]

Close(fd) ==
  /\ fds[fd] # Closed
  /\ fds' = [fds EXCEPT ![fd] = Closed]

Next ==
  \E fd \in Fd :
    \/ \E i \in Inums, r, w \in BOOLEAN : Open(fd, i, r, w)
    \/ \E n \in 1..MaxCount : Advance(fd, n)
    \/ Close(fd)

Spec == Init /\ [][Next]_fds
===============================================================================
