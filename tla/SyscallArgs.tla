----------------------------- MODULE SyscallArgs ------------------------------
(***************************************************************************)
(* How the kernel reads the arguments of a system call (kernel/syscall.c). *)
(* Addresses and numbers are machine words; every address below the size  *)
(* of the process is mapped (Vm!Backed), and the addresses from KERNBASE   *)
(* on are the kernel's.  An operator named after a function is TRUE when   *)
(* the function accepts.                                                   *)
(***************************************************************************)
EXTENDS Integers, Sequences

CONSTANTS WORD,       \* 2^32, the number of machine words
          KERNBASE,   \* the first address of the kernel
          INTSIZE,    \* sizeof(int)
          STATSIZE,   \* sizeof(struct stat)
          NARGV       \* the pointers sys_exec has room for

ASSUME ArgsAssumption ==
  /\ WORD \in Nat /\ KERNBASE \in Nat /\ 2 * KERNBASE <= WORD
  /\ INTSIZE \in 1 .. KERNBASE /\ STATSIZE \in 1 .. KERNBASE
  /\ NARGV \in Nat \ {0}

Words == 0 .. WORD - 1
Add(a, b) == (a + b) % WORD

\* A word read as an int.
Signed(w) == IF 2 * w < WORD THEN w ELSE w - WORD

\* The n bytes from address a on.
Bytes(a, n) == a .. a + n - 1

\* getint: the four bytes at addr lie in the process.
getint(sz, addr) == addr < sz /\ Add(addr, INTSIZE) <= sz

\* argint: the n-th argument lies above the return address.
ArgAddr(esp, n) == Add(esp, INTSIZE + INTSIZE * n)

\* Faulty: a negative size is accepted.
BadArgptr(sz, i, size) == i < sz /\ Add(i, size) <= sz

\* argptr: the pointer is i, the size an int that the caller has read.
argptr(sz, i, size) == size >= 0 /\ i < sz /\ Add(i, size) <= sz

\* getstr: the string starts in the process; the search for its end stops at
\* the end of the process.
getstr(sz, addr) == addr < sz

-----------------------------------------------------------------------------
\* The arguments each call of kernel/calls.c fetches, in its order.  ArgWord
\* is an int that a later argument of the call depends on: the size of a
\* buffer or the address of argv.
ArgStr(n) == [kind |-> "str", n |-> n]
ArgInt(n) == [kind |-> "int", n |-> n]
ArgWord(n) == [kind |-> "word", n |-> n]
ArgFd(n) == [kind |-> "fd", n |-> n]
ArgPtr(n) == [kind |-> "ptr", n |-> n]
ArgArgv(i) == [kind |-> "argv", n |-> i]

syscalls ==
  << <<ArgStr(0), ArgWord(1), ArgArgv(0)>>,   \* exec
     << >>,                           \* exit
     <<ArgStr(0), ArgInt(1)>>,              \* open
     <<ArgStr(0), ArgInt(1), ArgInt(2)>>,      \* mknod
     <<ArgFd(0), ArgWord(2), ArgPtr(1)>>,       \* write
     <<ArgFd(0), ArgWord(2), ArgPtr(1)>>,       \* read
     <<ArgFd(0)>>,                       \* close
     <<ArgFd(0), ArgPtr(1)>> >>             \* fstat

SYS_exec == 1
===============================================================================
