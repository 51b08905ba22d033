--------------------------------- MODULE Trap ---------------------------------
(***************************************************************************)
(* How the processor enters and leaves the kernel: the gates and the       *)
(* interrupt controllers (cpu/isr.c, cpu/idt.c), the stubs that save and   *)
(* restore registers (cpu/interrupt.asm), the timer (cpu/timer.c), the     *)
(* dispatch of system calls and the reading of their arguments             *)
(* (kernel/syscall.c, module SyscallArgs), and the start of the process    *)
(* (uinit, scheduler and forkret of kernel/proc.c, switchuvm).             *)
(*                                                                         *)
(* The kernel's position, cpu.at, is where it can be interrupted or wait.  *)
(* What the calls do to files and memory is in FileTable and Vm; here they *)
(* wait for the disk any number of times up to MaxReads and end in any     *)
(* result.  Devices raise at most MaxEvents interrupts besides the disk's. *)
(***************************************************************************)
EXTENDS SyscallArgs, FiniteSetsExt

CONSTANTS Sizes,       \* sizes of a process that exec can build
          Nums,        \* values of eax at a system call
          Exceptions,  \* vectors of exceptions a program can raise
          Stray,       \* interrupt lines without a registered handler
          MaxReads, MaxEvents

ASSUME TrapAssumption ==
  /\ Sizes \subseteq 1 .. KERNBASE /\ Sizes # {}
  /\ Nums \subseteq Int
  /\ Exceptions \subseteq 0 .. 31 /\ 14 \notin Exceptions
  /\ Stray \subseteq 0 .. 15 \ {0, 1, 2, 14}
  /\ MaxReads \in Nat /\ MaxEvents \in Nat

VARIABLES cpu,        \* registers: at, eax, esp, the segments, the interrupt flag
          kstack,     \* the trap frames on the kernel stack, innermost last
          tf,         \* curproc->tf: which of the frames it points to
          sz,         \* curproc->sz
          call,       \* the locals of the system call
          touched,    \* the addresses its last step read or wrote for the program
          irr,        \* the interrupt lines that are requested
          inService,  \* the lines accepted and not yet acknowledged
          disk,       \* "idle", "busy" or "ready", see Ide
          events      \* counts the interrupts of the other devices

pic == <<irr, inService>>
vars == <<cpu, kstack, tf, sz, call, touched, pic, disk, events>>

KDATA == "kernel data"
UDATA == "user data"
Null == "null selector"

TIMER == 0
KEYBOARD == 1
CASCADE == 2
DISK == 14
IRQ(l) == 32 + l
PGFLT == 14
T_SYSCALL == 64
ERROR == -1

\* A program computes at "run"; at "bad" it stands at an instruction that
\* touches an address it may not.
UserAt == {"run", "bad"}
InUser == cpu.at \in UserAt

NoCall == [num |-> 0, todo |-> << >>, word |-> STATSIZE, buf |-> {}, reads |-> 0,
           ret |-> [eax |-> 0, at |-> "run", esp |-> 0]]

\* registers_t: which of the four words above eax each field names.
RegistersT == [ds |-> 1, es |-> 2, fs |-> 3, gs |-> 4]

\* The frame uinit fills in for the first return to the program, whose stack
\* begins at its end.
FirstFrame ==
  [int_no |-> 0, eax |-> 0, at |-> "run", esp |-> sz, intr |-> TRUE,
   seg |-> [i \in 1 .. 4 |-> IF i \in {RegistersT.ds, RegistersT.es} THEN UDATA ELSE Null],
   was |-> [at |-> "run", eax |-> 0, esp |-> sz, intr |-> TRUE,
            seg |-> [ds |-> UDATA, es |-> UDATA, fs |-> Null, gs |-> Null]]]

\* uinit has prepared the process and installed the gates; interrupts are
\* off since the boot loader.
Init ==
  /\ cpu = [at |-> "scheduler", eax |-> 0, esp |-> 0, intr |-> FALSE,
            seg |-> [ds |-> KDATA, es |-> KDATA, fs |-> Null, gs |-> Null]]
  /\ sz \in Sizes
  /\ kstack = <<FirstFrame>>
  /\ tf = 1
  /\ call = NoCall
  /\ touched = {}
  /\ irr = {} /\ inService = {}
  /\ disk = "idle"
  /\ events = 0

-----------------------------------------------------------------------------
(***************************************************************************)
(* The interrupt controllers: two of eight lines, the second on line 2 of  *)
(* the first.  A line is requested of the processor when no line of the    *)
(* same or a higher priority of its controller is in service.              *)
(***************************************************************************)
Master == 0 .. 7
Slave == 8 .. 15

Unblocked(lines, chip) ==
  {l \in lines \cap chip : \A s \in inService \cap chip : l < s}

SlaveRequests == Unblocked(irr, Slave)
MasterRequests ==
  Unblocked(irr \cup (IF SlaveRequests = {} THEN {} ELSE {CASCADE}), Master)

\* The end-of-interrupt command acknowledges the line with the highest
\* priority that is in service.
Acknowledge(lines, chip) ==
  lines \ (IF lines \cap chip = {} THEN {} ELSE {Min(lines \cap chip)})

\* Faulty: every gate leaves interrupts on.
BadTrapGates(vec) == TRUE

\* Faulty: system calls turn interrupts off.
BadInterruptGate(vec) == FALSE

\* set_idt_gate: only the gate of system calls leaves interrupts on.
TrapGate(vec) == vec = T_SYSCALL

\* The processor takes the trap vec with registers c, and the stub saves the
\* registers and loads the kernel's segments.
Enter(c, vec) ==
  /\ kstack' = Append(kstack,
       [int_no |-> vec, eax |-> c.eax, at |-> c.at, esp |-> c.esp, intr |-> c.intr,
        seg |-> <<c.seg.gs, c.seg.fs, c.seg.es, c.seg.ds>>, was |-> c])
  /\ cpu' = [at |-> "trap_handler", eax |-> 0, esp |-> c.esp, intr |-> c.intr /\ TrapGate(vec),
             seg |-> [ds |-> KDATA, es |-> KDATA, fs |-> c.seg.fs, gs |-> c.seg.gs]]

Interrupted == cpu.intr /\ MasterRequests # {}

\* Between two instructions the processor accepts the interrupt with the
\* highest priority, if interrupts are on.
Interrupt ==
  /\ Interrupted
  /\ LET m == Min(MasterRequests)
         l == IF m = CASCADE THEN Min(SlaveRequests) ELSE m
     IN /\ irr' = irr \ {l}
        /\ inService' = inService \cup {m, l}
        /\ Enter(cpu, IRQ(l))
  /\ UNCHANGED <<tf, sz, call, touched, disk, events>>

\* The timer ticks, a key is pressed, or a line without a handler is raised.
Raise(l) ==
  /\ events < MaxEvents
  /\ events' = events + 1
  /\ irr' = irr \cup {l}
  /\ UNCHANGED <<cpu, kstack, tf, sz, call, touched, inService, disk>>

\* The disk ends a command.
DiskDone ==
  /\ disk = "busy"
  /\ disk' = "ready"
  /\ irr' = irr \cup {DISK}
  /\ UNCHANGED <<cpu, kstack, tf, sz, call, touched, inService, events>>

-----------------------------------------------------------------------------
(***************************************************************************)
(* Code.  An instruction is executed when no interrupt is accepted first.  *)
(***************************************************************************)
At(p) == cpu.at = p /\ ~Interrupted
Goto(p) == cpu' = [cpu EXCEPT !.at = p]
Frame == kstack[Len(kstack)]

\* scheduler turns interrupts on and finds the process.
scheduler ==
  /\ At("scheduler")
  /\ cpu' = [cpu EXCEPT !.at = "switchuvm", !.intr = TRUE]
  /\ UNCHANGED <<kstack, tf, sz, call, touched, pic, disk, events>>

\* switchuvm, with interrupts off on the way, then swtch to forkret.
switchuvm ==
  /\ At("switchuvm")
  /\ cpu' = [cpu EXCEPT !.at = "forkret", !.intr = TRUE]
  /\ UNCHANGED <<kstack, tf, sz, call, touched, pic, disk, events>>

\* forkret reads the superblock; iderw starts the disk and waits.
forkret ==
  /\ At("forkret")
  /\ disk' = "busy"
  /\ Goto("iderw")
  /\ UNCHANGED <<kstack, tf, sz, call, touched, pic, events>>

\* The flags of the buffer are set: iderw returns, to forkret or to a call.
iderw ==
  /\ At("iderw") /\ disk = "idle"
  /\ Goto(IF call.num = 0 THEN "trapret" ELSE "body")
  /\ UNCHANGED <<kstack, tf, sz, call, touched, pic, disk, events>>

\* Faulty: the second controller is not told.
BadTrapHandler ==
  /\ At("trap_handler")
  /\ Goto("eoi")
  /\ UNCHANGED <<kstack, tf, sz, call, touched, pic, disk, events>>

\* Faulty: every trap becomes the current frame of the process.
BadTrapHandlerFrame ==
  /\ At("trap_handler")
  /\ inService' = IF Frame.int_no >= 40 THEN Acknowledge(inService, Slave) ELSE inService
  /\ tf' = Len(kstack)
  /\ Goto("eoi")
  /\ UNCHANGED <<kstack, sz, call, touched, irr, disk, events>>

\* trap_handler acknowledges at the second controller, then at the first.
trap_handler ==
  /\ At("trap_handler")
  /\ inService' = IF Frame.int_no >= 40 THEN Acknowledge(inService, Slave) ELSE inService
  /\ Goto("eoi")
  /\ UNCHANGED <<kstack, tf, sz, call, touched, irr, disk, events>>

\* Faulty: the first controller is told of its own lines only.
BadEoi ==
  /\ At("eoi")
  /\ inService' = IF Frame.int_no < 40 THEN Acknowledge(inService, Master) ELSE inService
  /\ Goto("dispatch")
  /\ UNCHANGED <<kstack, tf, sz, call, touched, irr, disk, events>>

eoi ==
  /\ At("eoi")
  /\ inService' = Acknowledge(inService, Master)
  /\ Goto("dispatch")
  /\ UNCHANGED <<kstack, tf, sz, call, touched, irr, disk, events>>

Dispatch(vec) == At("dispatch") /\ Frame.int_no = vec

timer_callback ==
  /\ Dispatch(IRQ(TIMER))
  /\ Goto("trapret")
  /\ UNCHANGED <<kstack, tf, sz, call, touched, pic, disk, events>>

\* The handler of the keyboard returns, or spins in a command that waits for
\* the disk (Ide!KeyboardReturns).
keyboard_callback ==
  /\ Dispatch(IRQ(KEYBOARD))
  /\ \/ Goto("trapret")
     \/ Goto("spin")
  /\ UNCHANGED <<kstack, tf, sz, call, touched, pic, disk, events>>

ideint_callback ==
  /\ Dispatch(IRQ(DISK))
  /\ disk' = IF disk = "ready" THEN "idle" ELSE disk
  /\ Goto("trapret")
  /\ UNCHANGED <<kstack, tf, sz, call, touched, pic, events>>

interrupt_handlers == {IRQ(TIMER), IRQ(KEYBOARD), IRQ(DISK), T_SYSCALL}

\* irq_handler: a page fault returns at once; anything else is reported, and
\* the machine stops in a loop with interrupts off.
irq_handler ==
  /\ At("dispatch") /\ Frame.int_no \notin interrupt_handlers
  /\ Goto(IF Frame.int_no = PGFLT THEN "trapret" ELSE "spin")
  /\ UNCHANGED <<kstack, tf, sz, call, touched, pic, disk, events>>

\* trapret pops the registers in the order in which the stub pushed them.
trapret ==
  /\ At("trapret")
  /\ kstack' = SubSeq(kstack, 1, Len(kstack) - 1)
  /\ cpu' = [at |-> Frame.at, eax |-> Frame.eax, esp |-> Frame.esp, intr |-> Frame.intr,
             seg |-> [gs |-> Frame.seg[1], fs |-> Frame.seg[2],
                      es |-> Frame.seg[3], ds |-> Frame.seg[4]]]
  /\ call' = IF Frame.int_no = T_SYSCALL THEN NoCall ELSE call
  /\ UNCHANGED <<tf, sz, touched, pic, disk, events>>

-----------------------------------------------------------------------------
(***************************************************************************)
(* System calls.                                                           *)
(***************************************************************************)

\* A store into the frame curproc->tf points to; below the innermost frame
\* there is nothing that is ever popped.
SetFrame(r) ==
  kstack' = IF tf > Len(kstack) THEN kstack
            ELSE [kstack EXCEPT ![tf].eax = r.eax, ![tf].at = r.at, ![tf].esp = r.esp]

\* The call ends with r: dispatcher stores the result.
Return(r) ==
  /\ SetFrame(r)
  /\ call' = [NoCall EXCEPT !.num = call.num, !.ret = r]
  /\ Goto("trapret")

Result(eax) == [eax |-> eax, at |-> Frame.was.at, esp |-> Frame.was.esp]

\* syscall records the frame, and dispatcher looks the number up.
syscall ==
  /\ Dispatch(T_SYSCALL)
  /\ tf' = Len(kstack)
  /\ touched' = {}
  /\ LET num == Frame.eax IN
     IF num \in DOMAIN syscalls
     THEN /\ call' = [NoCall EXCEPT !.num = num, !.todo = syscalls[num]]
          /\ Goto("fetch")
          /\ UNCHANGED kstack
     ELSE /\ kstack' = [kstack EXCEPT ![Len(kstack)].eax = ERROR]
          /\ call' = [NoCall EXCEPT !.num = num, !.ret = Result(ERROR)]
          /\ Goto("trapret")
  /\ UNCHANGED <<sz, pic, disk, events>>

\* The stack pointer in the current frame.
Esp == IF tf > Len(kstack) THEN 0 ELSE kstack[tf].esp

Item == Head(call.todo)
Accept(c) ==
  /\ call' = [c EXCEPT !.todo = Tail(@)]
  /\ UNCHANGED <<cpu, kstack>>

\* getstr of the pointer v: the string ends at some address e of the process,
\* or the search comes to the end of the process.
FetchStr(v, rest) ==
  IF ~getstr(sz, v) THEN Return(Result(ERROR)) /\ touched' = {}
  ELSE \/ \E e \in v .. sz - 1 :
            /\ call' = [call EXCEPT !.todo = rest]
            /\ touched' = v .. e
            /\ UNCHANGED <<cpu, kstack>>
       \/ Return(Result(ERROR)) /\ touched' = v .. sz - 1

\* One argument is read from the stack of the program: v is the word there.
FetchArg ==
  /\ At("fetch") /\ call.todo # << >> /\ Item.kind # "argv"
  /\ LET addr == ArgAddr(Esp, Item.n) IN
     IF ~getint(sz, addr) THEN Return(Result(ERROR)) /\ touched' = {}
     ELSE \E v \in Words :
       \/ /\ Item.kind \in {"int", "word"}
          /\ touched' = Bytes(addr, INTSIZE)
          /\ Accept(IF Item.kind = "word" THEN [call EXCEPT !.word = v] ELSE call)
       \/ /\ Item.kind = "fd"
          /\ touched' = Bytes(addr, INTSIZE)
          /\ Accept(call) \/ Return(Result(ERROR))
       \/ /\ Item.kind = "ptr"
          /\ touched' = Bytes(addr, INTSIZE)
          /\ IF argptr(sz, v, Signed(call.word))
             THEN Accept([call EXCEPT !.word = STATSIZE,
                                      !.buf = {Add(v, i) : i \in Bytes(0, call.word)}])
             ELSE Return(Result(ERROR))
       \/ /\ Item.kind = "str"
          /\ FetchStr(v, Tail(call.todo))
  /\ UNCHANGED <<tf, sz, pic, disk, events>>

\* One turn of the loop of sys_exec over the pointers of argv.
FetchArgv ==
  /\ At("fetch") /\ call.todo # << >> /\ Item.kind = "argv"
  /\ LET addr == Add(call.word, INTSIZE * Item.n) IN
     IF Item.n >= NARGV \/ ~getint(sz, addr)
     THEN Return(Result(ERROR)) /\ touched' = {}
     ELSE \/ touched' = Bytes(addr, INTSIZE) /\ Accept([call EXCEPT !.word = STATSIZE])
          \/ \E v \in Words \ {0} : FetchStr(v, <<ArgArgv(Item.n + 1)>>)
  /\ UNCHANGED <<tf, sz, pic, disk, events>>

\* All arguments are read: the call copies to or from the program's buffer.
FetchDone ==
  /\ At("fetch") /\ call.todo = << >>
  /\ touched' = call.buf
  /\ call' = [call EXCEPT !.buf = {}]
  /\ Goto("body")
  /\ UNCHANGED <<kstack, tf, sz, pic, disk, events>>

\* The call needs a block that is not cached.
BodyReads ==
  /\ At("body") /\ call.reads < MaxReads
  /\ call' = [call EXCEPT !.reads = @ + 1]
  /\ disk' = "busy"
  /\ Goto("iderw")
  /\ UNCHANGED <<kstack, tf, sz, touched, pic, events>>

\* The call ends.  exec may have replaced the program: its frame then leads
\* to the entry of the new one, which may lie outside of it.
BodyEnds ==
  /\ At("body")
  /\ \/ \E eax \in {0, ERROR} : Return(Result(eax)) /\ UNCHANGED sz
     \/ /\ call.num = SYS_exec
        /\ \E s \in Sizes, at \in UserAt : \E sp \in 0 .. s - 1 :
             /\ Return([eax |-> 0, at |-> at, esp |-> sp])
             /\ sz' = s
  /\ touched' = {}
  /\ UNCHANGED <<tf, pic, disk, events>>

-----------------------------------------------------------------------------
(***************************************************************************)
(* Programs.                                                               *)
(***************************************************************************)

\* int 64 with any stack pointer.
UserCall(num, esp) ==
  /\ At("run")
  /\ Enter([cpu EXCEPT !.eax = num, !.esp = esp], T_SYSCALL)
  /\ UNCHANGED <<tf, sz, call, touched, pic, disk, events>>

UserException(vec) ==
  /\ At("run")
  /\ Enter(cpu, vec)
  /\ UNCHANGED <<tf, sz, call, touched, pic, disk, events>>

\* The program comes to an instruction that faults, and faults again every
\* time the kernel returns to it.
UserGoesBad ==
  /\ At("run")
  /\ Goto("bad")
  /\ UNCHANGED <<kstack, tf, sz, call, touched, pic, disk, events>>

UserFault ==
  /\ At("bad")
  /\ Enter(cpu, PGFLT)
  /\ UNCHANGED <<tf, sz, call, touched, pic, disk, events>>

Kernel ==
  \/ scheduler \/ switchuvm \/ forkret \/ iderw
  \/ trap_handler \/ eoi \/ timer_callback \/ keyboard_callback \/ ideint_callback
  \/ irq_handler \/ trapret
  \/ syscall \/ FetchArg \/ FetchArgv \/ FetchDone \/ BodyReads \/ BodyEnds

User ==
  \/ \E num \in Nums, esp \in Words : UserCall(num, esp)
  \/ \E vec \in Exceptions : UserException(vec)
  \/ UserGoesBad \/ UserFault

Next ==
  \/ Kernel
  \/ User
  \/ Interrupt
  \/ \E l \in {TIMER, KEYBOARD} \cup Stray : Raise(l)
  \/ DiskDone

Spec == Init /\ [][Next]_vars

\* The processor executes instructions and accepts interrupts, a program
\* that faults goes on faulting, and the disk ends its commands.  Nothing is
\* assumed of typing, of the timer or of what programs call.
Fairness == WF_vars(Kernel \/ Interrupt \/ UserFault) /\ WF_vars(DiskDone)

FairSpec == Spec /\ Fairness

-----------------------------------------------------------------------------
(***************************************************************************)
(* Properties.                                                             *)
(***************************************************************************)

\* The machine has stopped in a loop with interrupts off.
Stopped == cpu.at = "spin"

TypeOK ==
  /\ cpu.at \in UserAt \cup {"scheduler", "switchuvm", "forkret", "iderw", "trap_handler", "eoi",
                             "dispatch", "trapret", "spin", "fetch", "body"}
  /\ cpu.intr \in BOOLEAN
  /\ tf \in Nat
  /\ sz \in Sizes
  /\ irr \subseteq 0 .. 15 /\ inService \subseteq 0 .. 15
  /\ disk \in {"idle", "busy", "ready"}
  /\ events \in 0 .. MaxEvents

\* Every trap gives the interrupted code its registers back, segments and
\* interrupt flag included, whatever interrupts were nested in it; only a
\* system call changes some, those its result says (dispatcher and exec write
\* through curproc->tf, which must still be the frame of the call).
ReturnsIntact ==
  [][Len(kstack') < Len(kstack) /\ Frame.int_no # 0 =>
       cpu' = IF Frame.int_no = T_SYSCALL
              THEN [Frame.was EXCEPT !.eax = call.ret.eax, !.at = call.ret.at,
                                     !.esp = call.ret.esp]
              ELSE Frame.was]_vars

\* While interrupts are on no line is left in service: the end-of-interrupt
\* commands of trap_handler, which it sends for every trap, exceptions and
\* system calls included, acknowledge each interrupt at both controllers and
\* never one that is still to be handled.
AckedWhenEnabled ==
  /\ TypeOK
  /\ cpu.intr => inService = {}

\* The 4096 bytes of the kernel stack hold at most the frame of one call or
\* fault and that of one interrupt: handlers are not interrupted.
StackBounded == Len(kstack) <= IF InUser THEN 0 ELSE 2

\* The kernel touches only addresses of the process on its behalf, whatever
\* the stack pointer, the pointers, the sizes and the strings (getint,
\* getstr, argptr; addition wraps around the machine word).
TouchesInside == touched \subseteq 0 .. sz - 1

\* Every system call ends, also when it waits for the disk, unless an
\* interrupt stops the machine.
SyscallEnds == call.num # 0 ~> call.num = 0 \/ Stopped

\* Every interrupt that is raised is accepted, also while a program faults
\* for ever on one instruction, unless the machine has stopped.
InterruptsServed ==
  \A l \in {TIMER, KEYBOARD, DISK} : l \in irr ~> l \notin irr \/ Stopped
===============================================================================
