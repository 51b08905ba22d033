------------------------------ MODULE TrapProof -------------------------------
(***************************************************************************)
(* Traps and system calls, for every size of words, of processes and of    *)
(* arguments and any number of interrupts: the kernel touches only the     *)
(* process, every interrupt is acknowledged before interrupts are on       *)
(* again, the kernel stack holds at most two frames, and every trap gives  *)
(* the registers back.                                                     *)
(***************************************************************************)
EXTENDS Trap, WellFoundedInduction, SequenceTheorems, TLAPS

-----------------------------------------------------------------------------
(***************************************************************************)
(* What the tests of kernel/syscall.c establish.                           *)
(***************************************************************************)

\* A sum that is a machine word does not wrap.
LEMMA NoWrap ==
  ASSUME NEW a \in Nat, NEW b \in Nat, a + b < WORD
  PROVE  Add(a, b) = a + b
  BY ArgsAssumption DEF Add

\* Sums are machine words.
LEMMA AddIsWord ==
  ASSUME NEW a \in Int, NEW b \in Int
  PROVE  Add(a, b) \in Words
  BY ArgsAssumption DEF Add, Words

\* The bytes of an int that getint accepts lie in the process.
LEMMA GetintInside ==
  ASSUME NEW s \in 1 .. KERNBASE, NEW addr \in Words, getint(s, addr)
  PROVE  Bytes(addr, INTSIZE) \subseteq 0 .. s - 1
<1>1. addr < s /\ Add(addr, INTSIZE) <= s
  BY DEF getint
<1>2. Add(addr, INTSIZE) = addr + INTSIZE
  BY <1>1, NoWrap, ArgsAssumption DEF Words
<1> QED
  BY <1>1, <1>2, ArgsAssumption DEF Bytes, Words

\* The bytes of a buffer that argptr accepts lie in the process: the size is
\* not negative and the sum has not wrapped.
LEMMA ArgptrInside ==
  ASSUME NEW s \in 1 .. KERNBASE, NEW v \in Words, NEW w \in Words,
         argptr(s, v, Signed(w))
  PROVE  {Add(v, i) : i \in Bytes(0, w)} \subseteq 0 .. s - 1
<1>1. Signed(w) = w /\ 2 * w < WORD
  BY ArgsAssumption DEF argptr, Signed, Words
<1>2. v < s /\ Add(v, w) <= s
  BY <1>1 DEF argptr
<1>3. v + w <= s
  BY <1>1, <1>2, NoWrap, ArgsAssumption DEF Words
<1>4. ASSUME NEW i \in Bytes(0, w) PROVE Add(v, i) \in 0 .. s - 1
  <2>1. i \in Nat /\ i < w
    BY DEF Bytes, Words
  <2>2. Add(v, i) = v + i
    BY <1>2, <1>3, <2>1, NoWrap, ArgsAssumption DEF Words
  <2> QED
    BY <1>3, <2>1, <2>2, ArgsAssumption DEF Words
<1> QED
  BY <1>4

-----------------------------------------------------------------------------
(***************************************************************************)
(* The inductive invariant.                                                *)
(***************************************************************************)

\* Where the kernel can be.
KernelAt ==
  {"scheduler", "switchuvm", "forkret", "iderw", "trap_handler", "eoi",
   "dispatch", "trapret", "spin", "fetch", "body"}

Selectors == {KDATA, UDATA, Null}

Regs ==
  [at : UserAt \cup KernelAt, eax : Int, esp : Int, intr : BOOLEAN,
   seg : [ds : Selectors, es : Selectors, fs : Selectors, gs : Selectors]]

Frames ==
  [int_no : Int, eax : Int, at : UserAt \cup KernelAt, esp : Int, intr : BOOLEAN,
   seg : [1 .. 4 -> Selectors], was : Regs]

Items == [kind : {"str", "int", "word", "fd", "ptr", "argv"}, n : Nat]

Calls ==
  [num : Int, todo : Seq(Items), word : Words, buf : SUBSET Int, reads : Nat,
   ret : [eax : Int, at : UserAt, esp : Int]]

\* Types, with those of the registers, the frames and the call's locals.
TypeInv ==
  /\ TypeOK
  /\ cpu \in Regs
  /\ kstack \in Seq(Frames)
  /\ call \in Calls
  /\ CASCADE \notin irr

\* Where a handler can be, and where system calls and the start of the process
\* can.
HandlerAt == {"trap_handler", "eoi", "dispatch", "trapret", "spin"}

\* The frame of the program is at the bottom and leads back to it with
\* interrupts on; above it there is at most the frame of one interrupt, which
\* runs with interrupts off; and curproc->tf is the program's frame.
StackInv ==
  /\ tf = 1
  /\ InUser <=> Len(kstack) = 0
  /\ InUser => cpu.intr
  /\ Len(kstack) <= 2
  /\ Len(kstack) >= 1 => /\ kstack[1].at \in UserAt /\ kstack[1].was.at \in UserAt
                         /\ kstack[1].intr
  /\ Len(kstack) = 2 => /\ ~cpu.intr /\ cpu.at \in HandlerAt
                        /\ kstack[2].int_no \in 32 .. 47
                        /\ kstack[2].at \notin UserAt

\* The line that trap_handler works on is in service, at both controllers if
\* it is one of the second's; before eoi it is left at the first.
AckInv ==
  /\ cpu.at = "trap_handler" =>
       \/ inService = {}
       \/ ~cpu.intr /\ \E l \in 0 .. 15 : /\ Frame.int_no = IRQ(l)
                                          /\ inService = {l} \cup (IF l >= 8 THEN {CASCADE} ELSE {})
  /\ cpu.at = "eoi" =>
       \/ inService = {}
       \/ ~cpu.intr /\ \E m \in Master : inService = {m}
  /\ cpu.at \notin {"trap_handler", "eoi"} => inService = {}

\* The buffer that argptr accepted lies in the process.
ArgInv ==
  /\ call.buf \subseteq 0 .. sz - 1
  /\ TouchesInside

IInv == TypeInv /\ StackInv /\ AckInv /\ ArgInv

-----------------------------------------------------------------------------
(***************************************************************************)
(* Facts that several actions need.                                        *)
(***************************************************************************)

\* What the invariant says of the types.
LEMMA Types ==
  ASSUME IInv
  PROVE  /\ cpu \in Regs /\ kstack \in Seq(Frames) /\ call \in Calls
         /\ disk \in {"idle", "busy", "ready"} /\ sz \in Sizes /\ sz \in 1 .. KERNBASE
  BY TrapAssumption DEF IInv, TypeInv, TypeOK

\* A jump changes the place only.
LEMMA GotoRegs ==
  ASSUME cpu \in Regs, NEW p \in KernelAt, Goto(p)
  PROVE  cpu' \in Regs /\ cpu'.at = p /\ cpu'.intr = cpu.intr
  BY DEF Goto, Regs

\* sti.
LEMMA StiRegs ==
  ASSUME cpu \in Regs, NEW p \in KernelAt, cpu' = [cpu EXCEPT !.at = p, !.intr = TRUE]
  PROVE  cpu' \in Regs /\ cpu'.at = p
  BY DEF Regs

\* Code of the kernel has the frame of the program below it.
LEMMA KernelFrames ==
  ASSUME IInv, cpu.at \in KernelAt
  PROVE  /\ Len(kstack) \in {1, 2}
         /\ kstack \in [1 .. Len(kstack) -> Frames]
         /\ Frame \in Frames
<1>1. ~InUser
  BY DEF InUser, UserAt, KernelAt
<1>2. kstack \in [1 .. Len(kstack) -> Frames] /\ Len(kstack) \in Nat
  BY DEF IInv, TypeInv
<1>3. Len(kstack) \in {1, 2}
  BY <1>1, <1>2 DEF IInv, StackInv
<1> QED
  BY <1>2, <1>3 DEF Frame

\* A call, or the start of the process, runs in the frame of the program.
LEMMA CallFrame ==
  ASSUME IInv, cpu.at \in KernelAt \ HandlerAt
  PROVE  Len(kstack) = 1 /\ Frame = kstack[1]
  BY KernelFrames DEF IInv, StackInv, Frame

\* A step from one place of the kernel to another that leaves the frames
\* alone keeps the stack in order.
LEMMA Moves ==
  ASSUME IInv, cpu.at \in KernelAt,
         cpu' \in Regs, cpu'.at \in KernelAt,
         Len(kstack) = 2 => cpu'.at \in HandlerAt /\ cpu'.intr = cpu.intr,
         UNCHANGED <<kstack, tf>>
  PROVE  StackInv'
<1>1. ~InUser /\ ~InUser'
  BY DEF InUser, UserAt, KernelAt
<1>2. tf' = tf /\ kstack' = kstack
  OBVIOUS
<1> QED
  BY <1>1, <1>2 DEF IInv, StackInv

\* Such a step, with no interrupt in service, keeps the invariant when all
\* that it changes besides is the disk.
LEMMA QuietMove ==
  ASSUME IInv, cpu.at \in KernelAt \ {"trap_handler", "eoi"},
         cpu' \in Regs, cpu'.at \in KernelAt \ {"trap_handler", "eoi"},
         Len(kstack) = 2 => cpu'.at \in HandlerAt /\ cpu'.intr = cpu.intr,
         disk' \in {"idle", "busy", "ready"},
         UNCHANGED <<kstack, tf, sz, call, touched, pic, events>>
  PROVE  IInv'
<1>1. StackInv'
  BY Moves
<1>2. TypeInv'
  <2>1. cpu'.intr \in BOOLEAN
    BY DEF Regs
  <2> QED
    BY <2>1 DEF IInv, TypeInv, TypeOK, pic, KernelAt
<1>3. AckInv'
  BY DEF IInv, AckInv, pic
<1>4. ArgInv'
  BY DEF IInv, ArgInv, TouchesInside
<1> QED
  BY <1>1, <1>2, <1>3, <1>4 DEF IInv

-----------------------------------------------------------------------------
(***************************************************************************)
(* The actions.                                                            *)
(***************************************************************************)

LEMMA StartIInv ==
  ASSUME IInv, scheduler \/ switchuvm \/ forkret \/ iderw
  PROVE  IInv'
<1>1. /\ cpu.at \in {"scheduler", "switchuvm", "forkret", "iderw"}
      /\ UNCHANGED <<kstack, tf, sz, call, touched, pic, events>>
      /\ disk' \in {"busy", disk}
  BY DEF scheduler, switchuvm, forkret, iderw, At
<1>2. cpu' \in Regs /\ cpu'.at \in {"switchuvm", "forkret", "iderw", "trapret", "body"}
  <2>1. CASE scheduler \/ switchuvm
    BY <2>1, Types, StiRegs DEF scheduler, switchuvm, KernelAt
  <2>2. CASE forkret \/ iderw
    BY <2>2, Types, GotoRegs DEF forkret, iderw, KernelAt
  <2> QED
    BY <2>1, <2>2
<1>3. Len(kstack) = 1
  BY <1>1, CallFrame DEF KernelAt, HandlerAt
<1>4. disk' \in {"idle", "busy", "ready"}
  BY <1>1, Types
<1> QED
  BY <1>1, <1>2, <1>3, <1>4, QuietMove DEF KernelAt

LEMMA HandlerIInv ==
  ASSUME IInv, timer_callback \/ keyboard_callback \/ ideint_callback \/ irq_handler
  PROVE  IInv'
<1>1. /\ cpu.at = "dispatch" /\ UNCHANGED <<kstack, tf, sz, call, touched, pic, events>>
      /\ disk' \in {"idle", disk} /\ (Goto("trapret") \/ Goto("spin"))
  BY DEF timer_callback, keyboard_callback, ideint_callback, irq_handler, Dispatch, At
<1>2. cpu' \in Regs /\ cpu'.at \in {"trapret", "spin"} /\ cpu'.intr = cpu.intr
  BY <1>1, Types, GotoRegs DEF KernelAt
<1>3. disk' \in {"idle", "busy", "ready"}
  BY <1>1, Types
<1> QED
  BY <1>1, <1>2, <1>3, QuietMove DEF KernelAt, HandlerAt

\* The end-of-interrupt command for the only line of a controller.
LEMMA AcknowledgeOne ==
  ASSUME NEW lines, NEW chip, NEW l \in Int, lines \cap chip = {l}
  PROVE  Acknowledge(lines, chip) = lines \ {l}
<1>1. Min({l}) = l
  BY DEF Min
<1> QED
  BY <1>1 DEF Acknowledge

LEMMA TrapHandlerIInv ==
  ASSUME IInv, trap_handler
  PROVE  IInv'
<1>1. /\ cpu.at = "trap_handler" /\ Goto("eoi")
      /\ UNCHANGED <<kstack, tf, sz, call, touched, irr, disk, events>>
      /\ inService' = IF Frame.int_no >= 40 THEN Acknowledge(inService, Slave) ELSE inService
  BY DEF trap_handler, At
<1>2. cpu' \in Regs /\ cpu'.at = "eoi" /\ cpu'.intr = cpu.intr
  BY <1>1, Types, GotoRegs DEF KernelAt
<1>3. StackInv'
  BY <1>1, <1>2, Moves DEF KernelAt, HandlerAt
<1>4. \/ inService' = {}
      \/ ~cpu.intr /\ \E m \in Master : inService' = {m}
  <2>1. CASE inService = {}
    <3>1. Acknowledge(inService, Slave) = {}
      BY <2>1 DEF Acknowledge
    <3> QED
      BY <1>1, <2>1, <3>1
  <2>2. ASSUME ~cpu.intr, NEW l \in 0 .. 15, Frame.int_no = IRQ(l), l < 8, inService = {l}
        PROVE  ~cpu.intr /\ \E m \in Master : inService' = {m}
    BY <1>1, <2>2 DEF IRQ, Master
  <2>3. ASSUME ~cpu.intr, NEW l \in 0 .. 15, Frame.int_no = IRQ(l), l >= 8, inService = {l, CASCADE}
        PROVE  ~cpu.intr /\ \E m \in Master : inService' = {m}
    <3>1. inService \cap Slave = {l}
      <4>1. l \in Slave /\ CASCADE \notin Slave
        BY <2>3 DEF Slave, CASCADE
      <4> QED
        BY <2>3, <4>1
    <3>2. Acknowledge(inService, Slave) = inService \ {l}
      <4>1. l \in Int
        OBVIOUS
      <4> QED
        BY <3>1, <4>1, AcknowledgeOne
    <3>3. inService' = {CASCADE}
      BY <1>1, <2>3, <3>2 DEF IRQ, CASCADE
    <3> QED
      BY <2>3, <3>3 DEF CASCADE, Master
  <2>4. \/ inService = {}
        \/ ~cpu.intr /\ \E l \in 0 .. 15 : /\ Frame.int_no = IRQ(l)
                                           /\ inService = {l} \cup (IF l >= 8 THEN {CASCADE} ELSE {})
    BY <1>1 DEF IInv, AckInv
  <2> QED
    BY <2>1, <2>2, <2>3, <2>4
<1>5. AckInv'
  BY <1>2, <1>4 DEF AckInv
<1>6. inService' \subseteq 0 .. 15
  BY <1>4 DEF Master
<1>7. TypeInv'
  <2>1. cpu'.intr \in BOOLEAN
    BY <1>2 DEF Regs
  <2> QED
    BY <1>1, <1>2, <1>6, <2>1 DEF IInv, TypeInv, TypeOK
<1>8. ArgInv'
  BY <1>1 DEF IInv, ArgInv, TouchesInside
<1> QED
  BY <1>3, <1>5, <1>7, <1>8 DEF IInv

LEMMA EoiIInv ==
  ASSUME IInv, eoi
  PROVE  IInv'
<1>1. /\ cpu.at = "eoi" /\ Goto("dispatch")
      /\ UNCHANGED <<kstack, tf, sz, call, touched, irr, disk, events>>
      /\ inService' = Acknowledge(inService, Master)
  BY DEF eoi, At
<1>2. cpu' \in Regs /\ cpu'.at = "dispatch" /\ cpu'.intr = cpu.intr
  BY <1>1, Types, GotoRegs DEF KernelAt
<1>3. StackInv'
  BY <1>1, <1>2, Moves DEF KernelAt, HandlerAt
<1>4. inService' = {}
  <2>1. CASE inService = {}
    <3>1. Acknowledge(inService, Master) = {}
      BY <2>1 DEF Acknowledge
    <3> QED
      BY <1>1, <3>1
  <2>2. ASSUME NEW m \in Master, inService = {m} PROVE inService' = {}
    <3>1. m \in Int
      BY DEF Master
    <3>2. inService \cap Master = {m}
      BY <2>2
    <3>3. Acknowledge(inService, Master) = inService \ {m}
      BY <3>1, <3>2, AcknowledgeOne
    <3> QED
      BY <1>1, <2>2, <3>3
  <2> QED
    BY <1>1, <2>1, <2>2 DEF IInv, AckInv
<1>5. AckInv'
  BY <1>2, <1>4 DEF AckInv
<1>6. TypeInv'
  <2>1. cpu'.intr \in BOOLEAN
    BY <1>2 DEF Regs
  <2> QED
    BY <1>1, <1>2, <1>4, <2>1 DEF IInv, TypeInv, TypeOK
<1>7. ArgInv'
  BY <1>1 DEF IInv, ArgInv, TouchesInside
<1> QED
  BY <1>3, <1>5, <1>6, <1>7 DEF IInv

\* A trap pushes one frame, which remembers the registers.
LEMMA EnterFrame ==
  ASSUME NEW c \in Regs, NEW vec \in Int, kstack \in Seq(Frames), Enter(c, vec)
  PROVE  /\ cpu' \in Regs /\ cpu'.at = "trap_handler" /\ cpu'.intr = (c.intr /\ vec = T_SYSCALL)
         /\ kstack' \in Seq(Frames) /\ Len(kstack') = Len(kstack) + 1
         /\ \A i \in 1 .. Len(kstack) : kstack'[i] = kstack[i]
         /\ kstack'[Len(kstack')].int_no = vec
         /\ kstack'[Len(kstack')].at = c.at /\ kstack'[Len(kstack')].was = c
         /\ kstack'[Len(kstack')].intr = c.intr
<1> DEFINE f == [int_no |-> vec, eax |-> c.eax, at |-> c.at, esp |-> c.esp, intr |-> c.intr,
                 seg |-> <<c.seg.gs, c.seg.fs, c.seg.es, c.seg.ds>>, was |-> c]
<1>1. /\ c.at \in UserAt \cup KernelAt /\ c.eax \in Int /\ c.esp \in Int /\ c.intr \in BOOLEAN
      /\ c.seg \in [ds : Selectors, es : Selectors, fs : Selectors, gs : Selectors]
  BY DEF Regs
<1>2. f \in Frames
  <2>1. c.seg.gs \in Selectors /\ c.seg.fs \in Selectors /\ c.seg.es \in Selectors /\ c.seg.ds \in Selectors
    BY <1>1
  <2>2. <<c.seg.gs, c.seg.fs, c.seg.es, c.seg.ds>> \in [1 .. 4 -> Selectors]
    BY <2>1
  <2> QED
    BY <1>1, <2>2 DEF Frames
<1>3. kstack' = Append(kstack, f)
  BY DEF Enter
<1>4. cpu' = [at |-> "trap_handler", eax |-> 0, esp |-> c.esp, intr |-> c.intr /\ TrapGate(vec),
             seg |-> [ds |-> KDATA, es |-> KDATA, fs |-> c.seg.fs, gs |-> c.seg.gs]]
  BY DEF Enter
<1>5. cpu' \in Regs /\ cpu'.at = "trap_handler"
  <2> DEFINE b == c.intr /\ TrapGate(vec)
             s == [ds |-> KDATA, es |-> KDATA, fs |-> c.seg.fs, gs |-> c.seg.gs]
  <2>1. b \in BOOLEAN
    BY DEF TrapGate
  <2>2. s \in [ds : Selectors, es : Selectors, fs : Selectors, gs : Selectors]
    <3>1. KDATA \in Selectors
      BY DEF Selectors
    <3>2. c.seg.fs \in Selectors /\ c.seg.gs \in Selectors
      BY <1>1
    <3> QED
      BY <3>1, <3>2
  <2> HIDE DEF b, s
  <2>3. cpu' = [at |-> "trap_handler", eax |-> 0, esp |-> c.esp, intr |-> b, seg |-> s]
    BY <1>4 DEF b, s
  <2> QED
    BY <1>1, <2>1, <2>2, <2>3 DEF Regs, KernelAt
<1>6. cpu'.intr = (c.intr /\ vec = T_SYSCALL)
  BY <1>4 DEF TrapGate
<1>7. /\ f.int_no = vec /\ f.at = c.at /\ f.was = c /\ f.intr = c.intr
  OBVIOUS
<1> HIDE DEF f
<1>8. /\ kstack' \in Seq(Frames) /\ Len(kstack') = Len(kstack) + 1
      /\ \A i \in 1 .. Len(kstack) : kstack'[i] = kstack[i]
      /\ kstack'[Len(kstack')] = f
  BY <1>2, <1>3
<1> QED
  BY <1>5, <1>6, <1>7, <1>8

\* A trap of the program starts the stack of the kernel.
LEMMA UserTrap ==
  ASSUME IInv, InUser, NEW c \in Regs, c.at \in UserAt, c.intr = cpu.intr,
         NEW vec \in Int, Enter(c, vec),
         UNCHANGED <<tf, sz, call, touched, pic, disk, events>>
  PROVE  IInv'
<1>1. /\ Len(kstack) = 0 /\ kstack \in Seq(Frames) /\ cpu.intr /\ tf = 1
      /\ cpu.at \in UserAt /\ inService = {}
  <2>1. cpu.at \notin {"trap_handler", "eoi"}
    BY DEF InUser, UserAt
  <2> QED
    BY <2>1 DEF IInv, TypeInv, StackInv, AckInv, InUser
<1>2. /\ cpu' \in Regs /\ cpu'.at = "trap_handler"
      /\ kstack' \in Seq(Frames) /\ Len(kstack') = 1
      /\ kstack'[1].at = c.at /\ kstack'[1].was = c /\ kstack'[1].intr = c.intr
  <2>1. /\ cpu' \in Regs /\ cpu'.at = "trap_handler"
        /\ kstack' \in Seq(Frames) /\ Len(kstack') = Len(kstack) + 1
        /\ kstack'[Len(kstack')].at = c.at /\ kstack'[Len(kstack')].was = c
        /\ kstack'[Len(kstack')].intr = c.intr
    BY <1>1, EnterFrame, Zenon
  <2>2. Len(kstack') = 1
    BY <1>1, <2>1
  <2> QED
    BY <2>1, <2>2
<1>3. StackInv'
  <2>1. ~InUser'
    BY <1>2 DEF InUser, UserAt
  <2> QED
    BY <1>1, <1>2, <2>1 DEF StackInv
<1>4. TypeInv'
  <2>1. cpu'.intr \in BOOLEAN
    BY <1>2 DEF Regs
  <2> QED
    BY <1>2, <2>1 DEF IInv, TypeInv, TypeOK, pic
<1>5. AckInv'
  BY <1>1, <1>2 DEF AckInv, pic
<1>6. ArgInv'
  BY DEF IInv, ArgInv, TouchesInside
<1> QED
  BY <1>3, <1>4, <1>5, <1>6 DEF IInv

LEMMA UserIInv ==
  ASSUME IInv, User
  PROVE  IInv'
<1>1. cpu \in Regs
  BY Types
<1>2. ASSUME NEW num \in Nums, NEW esp \in Words, UserCall(num, esp) PROVE IInv'
  <2> DEFINE c == [cpu EXCEPT !.eax = num, !.esp = esp]
  <2>1. num \in Int /\ esp \in Int
    BY TrapAssumption DEF Words
  <2>2. cpu.at = "run" /\ Enter(c, T_SYSCALL)
        /\ UNCHANGED <<tf, sz, call, touched, pic, disk, events>>
    BY <1>2 DEF UserCall, At
  <2>3. c \in Regs /\ c.at = cpu.at /\ c.intr = cpu.intr
    BY <1>1, <2>1 DEF Regs
  <2>4. T_SYSCALL \in Int /\ InUser /\ cpu.at \in UserAt
    BY <2>2 DEF T_SYSCALL, InUser, UserAt
  <2> HIDE DEF c
  <2> QED
    BY <2>2, <2>3, <2>4, UserTrap
<1>3. ASSUME NEW vec \in Exceptions, UserException(vec) PROVE IInv'
  <2>1. vec \in Int
    BY TrapAssumption
  <2>2. cpu.at = "run" /\ Enter(cpu, vec)
        /\ UNCHANGED <<tf, sz, call, touched, pic, disk, events>>
    BY <1>3 DEF UserException, At
  <2>3. InUser /\ cpu.at \in UserAt
    BY <2>2 DEF InUser, UserAt
  <2> QED
    BY <1>1, <2>1, <2>2, <2>3, UserTrap
<1>4. CASE UserFault
  <2>1. cpu.at = "bad" /\ Enter(cpu, PGFLT)
        /\ UNCHANGED <<tf, sz, call, touched, pic, disk, events>>
    BY <1>4 DEF UserFault, At
  <2>2. PGFLT \in Int /\ InUser /\ cpu.at \in UserAt
    BY <2>1 DEF PGFLT, InUser, UserAt
  <2> QED
    BY <1>1, <2>1, <2>2, UserTrap
<1>5. CASE UserGoesBad
  <2>1. cpu.at = "run" /\ cpu' = [cpu EXCEPT !.at = "bad"]
        /\ UNCHANGED <<kstack, tf, sz, call, touched, pic, disk, events>>
    BY <1>5 DEF UserGoesBad, At, Goto
  <2>2. cpu' \in Regs /\ cpu'.at = "bad" /\ cpu'.intr = cpu.intr
    BY <1>1, <2>1 DEF Regs, UserAt
  <2>3. InUser /\ InUser'
    BY <2>1, <2>2 DEF InUser, UserAt
  <2>4. StackInv'
    BY <2>1, <2>2, <2>3 DEF IInv, StackInv, HandlerAt
  <2>5. TypeInv'
    <3>1. cpu'.intr \in BOOLEAN
      BY <2>2 DEF Regs
    <3> QED
      BY <2>1, <2>2, <3>1 DEF IInv, TypeInv, TypeOK, pic, UserAt
  <2>6. AckInv'
    BY <2>1, <2>2 DEF IInv, AckInv, pic
  <2>7. ArgInv'
    BY <2>1 DEF IInv, ArgInv, TouchesInside
  <2> QED
    BY <2>4, <2>5, <2>6, <2>7 DEF IInv
<1> QED
  BY <1>2, <1>3, <1>4, <1>5 DEF User

\* A set of lines has a first one.
LEMMA MinOfLines ==
  ASSUME NEW S \in SUBSET Nat, S # {}
  PROVE  Min(S) \in S
<1>1. PICK x \in S : \A y \in S : ~ (<<y, x>> \in OpToRel(<, Nat))
  BY NatLessThanWellFounded, WFMin
<1>2. ASSUME NEW y \in S PROVE x <= y
  <2>1. x \in Nat /\ y \in Nat
    OBVIOUS
  <2>2. ~ (<<y, x>> \in OpToRel(<, Nat))
    BY <1>1
  <2>3. <<y, x>> \in Nat \X Nat /\ <<y, x>>[1] = y /\ <<y, x>>[2] = x
    BY <2>1
  <2>4. ~ (y < x)
    BY <2>2, <2>3, Zenon DEF OpToRel
  <2> QED
    BY <2>1, <2>4
<1> QED
  BY <1>2 DEF Min

\* The line that is accepted, and what is then in service.
LEMMA AcceptedLine ==
  ASSUME IInv, Interrupt
  PROVE  /\ cpu.intr /\ inService = {}
         /\ \E l \in 0 .. 15 : /\ Enter(cpu, IRQ(l))
                               /\ irr' \subseteq irr
                               /\ inService' = {l} \cup (IF l >= 8 THEN {CASCADE} ELSE {})
<1> DEFINE m == Min(MasterRequests)
           l == IF m = CASCADE THEN Min(SlaveRequests) ELSE m
<1>1. /\ cpu.intr /\ MasterRequests # {}
      /\ irr' = irr \ {l} /\ inService' = inService \cup {m, l} /\ Enter(cpu, IRQ(l))
  BY DEF Interrupt, Interrupted
<1>2. inService = {}
  BY <1>1 DEF IInv, AckInv
<1>3. m \in MasterRequests /\ m \in Master
  <2>1. MasterRequests \subseteq Master
    BY DEF MasterRequests, Unblocked
  <2>2. MasterRequests \in SUBSET Nat
    BY <2>1 DEF Master
  <2> HIDE DEF m
  <2>3. m \in MasterRequests
    BY <1>1, <2>2, MinOfLines DEF m
  <2> QED
    BY <2>1, <2>3
<1>4. CASE m # CASCADE
  <2> HIDE DEF m
  <2>1. l = m
    BY <1>4
  <2>2. l \in 0 .. 15 /\ ~(l >= 8)
    BY <1>3, <2>1 DEF Master
  <2>3. inService' = {l}
    BY <1>1, <1>2, <2>1
  <2> HIDE DEF l
  <2> QED
    BY <1>1, <1>2, <2>2, <2>3
<1>5. CASE m = CASCADE
  <2>1. CASCADE \in irr \cup (IF SlaveRequests = {} THEN {} ELSE {CASCADE})
    BY <1>3, <1>5 DEF MasterRequests, Unblocked
  <2>2. SlaveRequests # {}
    BY <2>1 DEF IInv, TypeInv
  <2>3. SlaveRequests \subseteq Slave
    BY DEF SlaveRequests, Unblocked
  <2>4. SlaveRequests \in SUBSET Nat
    BY <2>3 DEF Slave
  <2>5. l = Min(SlaveRequests)
    BY <1>5
  <2>6. inService' = {m, l}
    BY <1>1, <1>2
  <2> HIDE DEF m, l
  <2>7. l \in Slave
    BY <2>2, <2>3, <2>4, <2>5, MinOfLines
  <2>8. l \in 0 .. 15 /\ l >= 8
    BY <2>7 DEF Slave
  <2>9. inService' = {l} \cup {CASCADE}
    BY <1>5, <2>6
  <2> QED
    BY <1>1, <1>2, <2>8, <2>9
<1> QED
  BY <1>4, <1>5

LEMMA InterruptIInv ==
  ASSUME IInv, Interrupt
  PROVE  IInv'
<1>1. PICK l \in 0 .. 15 : /\ Enter(cpu, IRQ(l)) /\ irr' \subseteq irr
                           /\ inService' = {l} \cup (IF l >= 8 THEN {CASCADE} ELSE {})
  BY AcceptedLine
<1>2. /\ cpu.intr /\ cpu \in Regs /\ kstack \in Seq(Frames) /\ tf = 1
      /\ UNCHANGED <<tf, sz, call, touched, disk, events>>
  BY AcceptedLine, Types DEF Interrupt, IInv, StackInv
<1>3. IRQ(l) \in 32 .. 47
  BY DEF IRQ
<1>4. /\ cpu' \in Regs /\ cpu'.at = "trap_handler" /\ ~cpu'.intr
      /\ kstack' \in Seq(Frames) /\ Len(kstack') = Len(kstack) + 1
      /\ \A i \in 1 .. Len(kstack) : kstack'[i] = kstack[i]
      /\ kstack'[Len(kstack')].int_no = IRQ(l)
      /\ kstack'[Len(kstack')].at = cpu.at /\ kstack'[Len(kstack')].was = cpu
      /\ kstack'[Len(kstack')].intr = cpu.intr
  <2>1. IRQ(l) \in Int /\ IRQ(l) # T_SYSCALL
    BY <1>3 DEF T_SYSCALL
  <2> QED
    BY <1>1, <1>2, <2>1, EnterFrame, Zenon
<1>5. ~InUser'
  BY <1>4 DEF InUser, UserAt
<1>6. StackInv'
  <2>1. CASE InUser
    <3>1. Len(kstack) = 0 /\ cpu.at \in UserAt
      BY <2>1 DEF IInv, StackInv, InUser
    <3>2. Len(kstack') = 1
      BY <1>4, <3>1
    <3>3. kstack'[1].at \in UserAt /\ kstack'[1].was.at \in UserAt /\ kstack'[1].intr
      BY <1>2, <1>4, <3>1, <3>2, Zenon
    <3> QED
      BY <1>2, <1>5, <3>2, <3>3 DEF StackInv
  <2>2. CASE ~InUser
    <3>1. Len(kstack) \in Nat
      BY <1>2
    <3>2. /\ Len(kstack) = 1 /\ cpu.at \notin UserAt
          /\ kstack[1].at \in UserAt /\ kstack[1].was.at \in UserAt /\ kstack[1].intr
      <4>1. Len(kstack) # 0 /\ Len(kstack) # 2 /\ Len(kstack) <= 2
        BY <1>2, <2>2 DEF IInv, StackInv
      <4>2. \A n \in Nat : n # 0 /\ n # 2 /\ n <= 2 => n = 1
        OBVIOUS
      <4>3. Len(kstack) = 1
        BY <3>1, <4>1, <4>2, Zenon
      <4> QED
        BY <2>2, <4>3 DEF IInv, StackInv, InUser
    <3>3. Len(kstack') = 2 /\ kstack'[1] = kstack[1]
      BY <1>4, <3>2
    <3> QED
      BY <1>2, <1>3, <1>4, <1>5, <3>2, <3>3 DEF StackInv, HandlerAt
  <2> QED
    BY <2>1, <2>2
<1>7. TypeInv'
  <2>1. cpu'.intr \in BOOLEAN
    BY <1>4 DEF Regs
  <2>2. irr' \subseteq 0 .. 15 /\ CASCADE \notin irr'
    BY <1>1 DEF IInv, TypeInv, TypeOK
  <2>3. inService' \subseteq 0 .. 15
    BY <1>1 DEF CASCADE
  <2> QED
    BY <1>2, <1>4, <2>1, <2>2, <2>3 DEF IInv, TypeInv, TypeOK
<1>8. AckInv'
  <2>1. Frame'.int_no = IRQ(l)
    BY <1>4 DEF Frame
  <2> QED
    BY <1>1, <1>4, <2>1 DEF AckInv, IRQ
<1>9. ArgInv'
  BY <1>2 DEF IInv, ArgInv, TouchesInside
<1> QED
  BY <1>6, <1>7, <1>8, <1>9 DEF IInv

LEMMA NoCallType == NoCall \in Calls /\ NoCall.buf = {}
<1>1. STATSIZE \in Words
  BY ArgsAssumption DEF Words
<1> DEFINE r == [eax |-> 0, at |-> "run", esp |-> 0]
           t == << >>
<1>2. r \in [eax : Int, at : UserAt, esp : Int]
  BY DEF UserAt
<1>3. t \in Seq(Items)
  OBVIOUS
<1> HIDE DEF r, t
<1>4. NoCall = [num |-> 0, todo |-> t, word |-> STATSIZE, buf |-> {}, reads |-> 0, ret |-> r]
  BY DEF NoCall, r, t
<1> QED
  BY <1>1, <1>2, <1>3, <1>4 DEF Calls

\* Popping a frame.
LEMMA Popped ==
  ASSUME kstack \in Seq(Frames), Len(kstack) \in {1, 2},
         kstack' = SubSeq(kstack, 1, Len(kstack) - 1)
  PROVE  /\ kstack' \in Seq(Frames) /\ Len(kstack') = Len(kstack) - 1
         /\ Len(kstack) = 2 => kstack'[1] = kstack[1]
<1>1. \A i \in 1 .. Len(kstack) - 1 : kstack[i] \in Frames
  OBVIOUS
<1>2. CASE Len(kstack) = 1
  <2>1. kstack' = SubSeq(kstack, 1, 0)
    BY <1>2
  <2> QED
    BY <1>1, <1>2, <2>1, SubSeqProperties
<1>3. CASE Len(kstack) = 2
  <2>1. kstack' = SubSeq(kstack, 1, 1)
    BY <1>3
  <2> QED
    BY <1>1, <1>3, <2>1, SubSeqProperties
<1> QED
  BY <1>2, <1>3

LEMMA TrapretIInv ==
  ASSUME IInv, trapret
  PROVE  IInv'
<1>1. /\ cpu.at = "trapret"
      /\ kstack' = SubSeq(kstack, 1, Len(kstack) - 1)
      /\ cpu' = [at |-> Frame.at, eax |-> Frame.eax, esp |-> Frame.esp, intr |-> Frame.intr,
                 seg |-> [gs |-> Frame.seg[1], fs |-> Frame.seg[2],
                          es |-> Frame.seg[3], ds |-> Frame.seg[4]]]
      /\ call' \in {NoCall, call}
      /\ UNCHANGED <<tf, sz, touched, pic, disk, events>>
  BY DEF trapret, At
<1>2. Len(kstack) \in {1, 2} /\ Frame \in Frames /\ kstack \in Seq(Frames) /\ call \in Calls
  BY <1>1, KernelFrames, Types DEF KernelAt
<1>3. /\ Frame.at \in UserAt \cup KernelAt /\ Frame.eax \in Int /\ Frame.esp \in Int
      /\ Frame.intr \in BOOLEAN /\ Frame.seg \in [1 .. 4 -> Selectors]
  BY <1>2 DEF Frames
<1>4. cpu' \in Regs /\ cpu'.at = Frame.at /\ cpu'.intr = Frame.intr
  <2> DEFINE s == [gs |-> Frame.seg[1], fs |-> Frame.seg[2],
                   es |-> Frame.seg[3], ds |-> Frame.seg[4]]
  <2>1. s \in [ds : Selectors, es : Selectors, fs : Selectors, gs : Selectors]
    BY <1>3
  <2>2. cpu' = [at |-> Frame.at, eax |-> Frame.eax, esp |-> Frame.esp, intr |-> Frame.intr,
                seg |-> s]
    BY <1>1
  <2> HIDE DEF s
  <2> QED
    BY <1>3, <2>1, <2>2 DEF Regs
<1>5. /\ kstack' \in Seq(Frames) /\ Len(kstack') = Len(kstack) - 1
      /\ Len(kstack) = 2 => kstack'[1] = kstack[1]
  BY <1>1, <1>2, Popped
<1>6. tf = 1 /\ tf' = 1 /\ inService' = {} /\ inService = {}
  BY <1>1 DEF IInv, StackInv, AckInv, pic
<1>7. StackInv'
  <2>1. CASE Len(kstack) = 1
    <3>1. Frame.at \in UserAt /\ Frame.intr
      BY <2>1 DEF IInv, StackInv, Frame
    <3>2. Len(kstack') = 0 /\ InUser' /\ cpu'.intr
      BY <1>4, <1>5, <2>1, <3>1 DEF InUser
    <3> QED
      BY <1>6, <3>2 DEF StackInv
  <2>2. CASE Len(kstack) = 2
    <3>1. /\ Frame.at \notin UserAt
          /\ kstack[1].at \in UserAt /\ kstack[1].was.at \in UserAt /\ kstack[1].intr
      BY <2>2 DEF IInv, StackInv, Frame
    <3>2. Len(kstack') = 1 /\ ~InUser' /\ kstack'[1] = kstack[1]
      BY <1>4, <1>5, <2>2, <3>1 DEF InUser
    <3> QED
      BY <1>6, <3>1, <3>2 DEF StackInv
  <2> QED
    BY <1>2, <2>1, <2>2
<1>8. call' \in Calls /\ call'.buf \subseteq call.buf
  BY <1>1, <1>2, NoCallType
<1>9. TypeInv'
  <2>1. cpu'.intr \in BOOLEAN /\ cpu'.at \in UserAt \cup KernelAt
    BY <1>3, <1>4
  <2> QED
    BY <1>1, <1>4, <1>5, <1>8, <2>1 DEF IInv, TypeInv, TypeOK, pic, KernelAt
<1>10. AckInv'
  BY <1>6 DEF AckInv
<1>11. ArgInv'
  BY <1>1, <1>8 DEF IInv, ArgInv, TouchesInside
<1> QED
  BY <1>7, <1>9, <1>10, <1>11 DEF IInv

-----------------------------------------------------------------------------
(***************************************************************************)
(* System calls.                                                           *)
(***************************************************************************)

\* A step of a call, in the frame of the program.
LEMMA CallStep ==
  ASSUME IInv, cpu.at \in KernelAt \ {"trap_handler", "eoi"},
         cpu' \in Regs, cpu'.at \in KernelAt \ {"trap_handler", "eoi"},
         kstack' \in Seq(Frames), Len(kstack') = 1,
         kstack'[1].at \in UserAt, kstack'[1].was.at \in UserAt, kstack'[1].intr,
         tf' = 1, sz' \in Sizes, disk' \in {"idle", "busy", "ready"},
         call' \in Calls, call'.buf \subseteq 0 .. sz' - 1, touched' \subseteq 0 .. sz' - 1,
         UNCHANGED <<pic, events>>
  PROVE  IInv'
<1>1. ~InUser'
  BY DEF InUser, UserAt, KernelAt
<1>2. StackInv'
  BY <1>1 DEF StackInv
<1>3. TypeInv'
  <2>1. cpu'.intr \in BOOLEAN /\ tf' \in Nat
    BY DEF Regs
  <2> QED
    BY <2>1 DEF IInv, TypeInv, TypeOK, pic, KernelAt
<1>4. AckInv'
  BY DEF IInv, AckInv, pic
<1>5. ArgInv'
  BY DEF ArgInv, TouchesInside
<1> QED
  BY <1>2, <1>3, <1>4, <1>5 DEF IInv

Results == [eax : Int, at : UserAt, esp : Int]

\* The frame of the program, as a call finds it.
LEMMA ProgramFrame ==
  ASSUME IInv, cpu.at \in KernelAt, Len(kstack) = 1
  PROVE  /\ Frame = kstack[1] /\ kstack[1] \in Frames
         /\ kstack[1].at \in UserAt /\ kstack[1].was.at \in UserAt /\ kstack[1].intr
         /\ tf = 1
         /\ \A eax \in Int : Result(eax) \in Results
<1>1. /\ Frame = kstack[1] /\ kstack[1] \in Frames
      /\ kstack[1].at \in UserAt /\ kstack[1].was.at \in UserAt /\ kstack[1].intr
      /\ tf = 1
  BY KernelFrames DEF IInv, StackInv, Frame
<1>2. kstack[1].was \in Regs
  BY <1>1 DEF Frames
<1>3. kstack[1].was.esp \in Int
  BY <1>2 DEF Regs
<1>4. ASSUME NEW eax \in Int PROVE Result(eax) \in Results
  BY <1>1, <1>3 DEF Result, Results
<1> QED
  BY <1>1, <1>4

\* A store into the only frame.
LEMMA FrameReplaced ==
  ASSUME kstack \in Seq(Frames), Len(kstack) = 1, NEW f \in Frames,
         kstack' = [kstack EXCEPT ![1] = f]
  PROVE  kstack' \in Seq(Frames) /\ Len(kstack') = 1 /\ kstack'[1] = f
<1>1. kstack \in [1 .. 1 -> Frames]
  OBVIOUS
<1>2. kstack' = <<f>>
  BY <1>1
<1> QED
  BY <1>2

\* The result goes to the program's frame.
LEMMA StoredResult ==
  ASSUME kstack \in Seq(Frames), Len(kstack) = 1, tf = 1, NEW r \in Results, SetFrame(r)
  PROVE  /\ kstack' \in Seq(Frames) /\ Len(kstack') = 1
         /\ kstack'[1].at \in UserAt /\ kstack'[1].was = kstack[1].was
         /\ kstack'[1].intr = kstack[1].intr
<1>1. kstack' = [kstack EXCEPT ![1].eax = r.eax, ![1].at = r.at, ![1].esp = r.esp]
  BY DEF SetFrame
<1>2. kstack[1] \in Frames /\ kstack \in [{1} -> Frames]
  OBVIOUS
<1> DEFINE f == [kstack[1] EXCEPT !.eax = r.eax, !.at = r.at, !.esp = r.esp]
<1>3. f \in Frames /\ f.at = r.at /\ f.was = kstack[1].was /\ f.intr = kstack[1].intr
  BY <1>2 DEF Frames, Results
<1>4. kstack' = [kstack EXCEPT ![1] = f]
  BY <1>1, <1>2
<1> HIDE DEF f
<1>5. kstack' \in Seq(Frames) /\ Len(kstack') = 1 /\ kstack'[1] = f
  BY <1>3, <1>4, FrameReplaced
<1> QED
  BY <1>3, <1>5 DEF Results

\* The end of a call.
LEMMA ReturnIInv ==
  ASSUME IInv, cpu.at \in {"fetch", "body"}, NEW r \in Results, Return(r),
         sz' \in Sizes, touched' \subseteq 0 .. sz' - 1,
         UNCHANGED <<tf, pic, disk, events>>
  PROVE  IInv'
<1>1. cpu.at \in KernelAt /\ Len(kstack) = 1
  BY CallFrame DEF KernelAt, HandlerAt
<1>2. kstack[1].was.at \in UserAt /\ kstack[1].intr /\ tf = 1
  BY <1>1, ProgramFrame
<1>3. SetFrame(r) /\ call' = [NoCall EXCEPT !.num = call.num, !.ret = r] /\ Goto("trapret")
  BY DEF Return
<1>4. /\ kstack' \in Seq(Frames) /\ Len(kstack') = 1
      /\ kstack'[1].at \in UserAt /\ kstack'[1].was = kstack[1].was
      /\ kstack'[1].intr = kstack[1].intr
  BY <1>1, <1>2, <1>3, Types, StoredResult
<1>5. cpu' \in Regs /\ cpu'.at = "trapret"
  BY <1>3, Types, GotoRegs DEF KernelAt
<1>6. call' \in Calls /\ call'.buf = {}
  <2>1. call.num \in Int
    BY Types DEF Calls
  <2> QED
    BY <1>3, <2>1, NoCallType DEF Calls, Results
<1>7. /\ kstack'[1].was.at \in UserAt /\ kstack'[1].intr
  BY <1>2, <1>4
<1>8. disk' \in {"idle", "busy", "ready"} /\ tf' = 1 /\ call'.buf \subseteq 0 .. sz' - 1
  BY <1>2, <1>6, Types
<1>9. cpu.at \in KernelAt \ {"trap_handler", "eoi"} /\ cpu'.at \in KernelAt \ {"trap_handler", "eoi"}
  BY <1>5 DEF KernelAt
<1> QED
  BY <1>4, <1>5, <1>6, <1>7, <1>8, <1>9, CallStep

\* An argument is accepted.
LEMMA NextArg ==
  ASSUME IInv, cpu.at = "fetch",
         call' \in Calls, call'.buf \subseteq 0 .. sz - 1, touched' \subseteq 0 .. sz - 1,
         UNCHANGED <<cpu, kstack, tf, sz, pic, disk, events>>
  PROVE  IInv'
<1>1. cpu.at \in KernelAt /\ Len(kstack) = 1
  BY CallFrame DEF KernelAt, HandlerAt
<1>2. kstack[1].at \in UserAt /\ kstack[1].was.at \in UserAt /\ kstack[1].intr /\ tf = 1
  BY <1>1, ProgramFrame
<1>3. cpu.at \in KernelAt \ {"trap_handler", "eoi"}
  BY DEF KernelAt
<1>4. cpu \in Regs /\ kstack \in Seq(Frames) /\ sz \in Sizes /\ disk \in {"idle", "busy", "ready"}
  BY Types
<1> QED
  BY <1>1, <1>2, <1>3, <1>4, CallStep

LEMMA AcceptIInv ==
  ASSUME IInv, cpu.at = "fetch", NEW c \in Calls, c.todo # << >>, c.buf \subseteq 0 .. sz - 1,
         Accept(c), touched' \subseteq 0 .. sz - 1, UNCHANGED <<tf, sz, pic, disk, events>>
  PROVE  IInv'
<1>1. c.todo \in Seq(Items)
  BY DEF Calls
<1>2. Tail(c.todo) \in Seq(Items)
  BY <1>1, HeadTailProperties
<1>3. call' = [c EXCEPT !.todo = Tail(c.todo)] /\ UNCHANGED <<cpu, kstack>>
  BY DEF Accept
<1>4. call' \in Calls /\ call'.buf = c.buf
  BY <1>2, <1>3 DEF Calls
<1> QED
  BY <1>3, <1>4, NextArg

\* A string stays in the process, also when its end is not found.
LEMMA FetchStrIInv ==
  ASSUME IInv, cpu.at = "fetch", NEW v \in Words, NEW rest \in Seq(Items), FetchStr(v, rest),
         UNCHANGED <<tf, sz, pic, disk, events>>
  PROVE  IInv'
<1>1. sz \in Sizes /\ sz \in 1 .. KERNBASE /\ v \in Nat /\ call \in Calls
  BY Types, ArgsAssumption DEF Words
<1>2. Result(ERROR) \in Results
  <2>1. cpu.at \in KernelAt /\ Len(kstack) = 1
    BY CallFrame DEF KernelAt, HandlerAt
  <2> QED
    BY <2>1, ProgramFrame DEF ERROR
<1>3. ASSUME Return(Result(ERROR)), touched' \subseteq 0 .. sz - 1
      PROVE  IInv'
  <2>1. sz' \in Sizes /\ touched' \subseteq 0 .. sz' - 1
    BY <1>1, <1>3
  <2> QED
    BY <1>2, <1>3, <2>1, ReturnIInv
<1>4. v .. sz - 1 \subseteq 0 .. sz - 1
  BY <1>1, ArgsAssumption
<1>5. ASSUME NEW e \in v .. sz - 1, call' = [call EXCEPT !.todo = rest], touched' = v .. e,
             UNCHANGED <<cpu, kstack>>
      PROVE  IInv'
  <2>1. call' \in Calls /\ call'.buf = call.buf
    BY <1>1, <1>5 DEF Calls
  <2>2. touched' \subseteq 0 .. sz - 1
    BY <1>1, <1>5, ArgsAssumption
  <2>3. call'.buf \subseteq 0 .. sz - 1
    BY <2>1 DEF IInv, ArgInv
  <2> QED
    BY <1>5, <2>1, <2>2, <2>3, NextArg
<1> QED
  BY <1>3, <1>4, <1>5 DEF FetchStr

\* What is known while arguments are read.
LEMMA Fetching ==
  ASSUME IInv, cpu.at = "fetch"
  PROVE  /\ cpu.at \in KernelAt /\ Len(kstack) = 1 /\ tf = 1 /\ Esp \in Int
         /\ sz \in Sizes /\ sz \in 1 .. KERNBASE /\ call \in Calls /\ call.word \in Words
         /\ call.buf \subseteq 0 .. sz - 1 /\ Result(ERROR) \in Results
         /\ call.todo # << >> => Item \in Items /\ Tail(call.todo) \in Seq(Items)
<1>1. cpu.at \in KernelAt /\ Len(kstack) = 1
  BY CallFrame DEF KernelAt, HandlerAt
<1>2. tf = 1 /\ kstack[1] \in Frames /\ Result(ERROR) \in Results
  BY <1>1, ProgramFrame DEF ERROR
<1>3. Esp \in Int
  BY <1>1, <1>2 DEF Esp, Frames
<1>4. sz \in Sizes /\ sz \in 1 .. KERNBASE /\ call \in Calls /\ call.buf \subseteq 0 .. sz - 1
  BY Types DEF IInv, ArgInv
<1>5. call.word \in Words /\ call.todo \in Seq(Items)
  BY <1>4 DEF Calls
<1>6. call.todo # << >> => Item \in Items /\ Tail(call.todo) \in Seq(Items)
  BY <1>5, HeadTailProperties DEF Item
<1> QED
  BY <1>1, <1>2, <1>3, <1>4, <1>5, <1>6

LEMMA FetchArgIInv ==
  ASSUME IInv, FetchArg
  PROVE  IInv'
<1> DEFINE addr == ArgAddr(Esp, Item.n)
<1>1. /\ cpu.at = "fetch" /\ call.todo # << >>
      /\ UNCHANGED <<tf, sz, pic, disk, events>>
  BY DEF FetchArg, At
<1>2. /\ sz \in Sizes /\ sz \in 1 .. KERNBASE /\ call \in Calls /\ call.word \in Words
      /\ call.buf \subseteq 0 .. sz - 1 /\ Result(ERROR) \in Results
      /\ Item \in Items /\ Tail(call.todo) \in Seq(Items) /\ Esp \in Int
  BY <1>1, Fetching
<1>3. addr \in Words
  <2>1. Item.n \in Int /\ INTSIZE \in Int
    BY <1>2, ArgsAssumption DEF Items
  <2>2. INTSIZE + INTSIZE * Item.n \in Int
    BY <2>1
  <2> QED
    BY <1>2, <2>2, AddIsWord DEF ArgAddr
<1>4. ASSUME Return(Result(ERROR)), touched' \subseteq 0 .. sz - 1
      PROVE  IInv'
  <2>1. sz' \in Sizes /\ touched' \subseteq 0 .. sz' - 1
    BY <1>1, <1>2, <1>4
  <2> QED
    BY <1>1, <1>2, <1>4, <2>1, ReturnIInv
<1>5. CASE ~getint(sz, addr)
  <2>1. Return(Result(ERROR)) /\ touched' = {}
    BY <1>5 DEF FetchArg
  <2> QED
    BY <1>4, <2>1
<1>6. CASE getint(sz, addr)
  <2>1. Bytes(addr, INTSIZE) \subseteq 0 .. sz - 1
    BY <1>2, <1>3, <1>6, GetintInside
  <2> HIDE DEF addr
  <2>2. ASSUME NEW c \in Calls, c.todo = call.todo, c.buf \subseteq 0 .. sz - 1,
               Accept(c), touched' = Bytes(addr, INTSIZE)
        PROVE  IInv'
    BY <1>1, <2>1, <2>2, AcceptIInv
  <2>3. PICK v \in Words :
          \/ /\ Item.kind \in {"int", "word"}
             /\ touched' = Bytes(addr, INTSIZE)
             /\ Accept(IF Item.kind = "word" THEN [call EXCEPT !.word = v] ELSE call)
          \/ /\ Item.kind = "fd"
             /\ touched' = Bytes(addr, INTSIZE)
             /\ Accept(call) \/ Return(Result(ERROR))
          \/ /\ Item.kind = "ptr"
             /\ touched' = Bytes(addr, INTSIZE)
             /\ IF argptr(sz, v, Signed(call.word))
                THEN Accept([call EXCEPT !.word = STATSIZE,
                                         !.buf = {Add(v, i) : i \in Bytes(0, call.word)}])
                ELSE Return(Result(ERROR))
          \/ /\ Item.kind = "str"
             /\ FetchStr(v, Tail(call.todo))
    BY <1>6, Zenon DEF FetchArg, addr
  <2>4. ASSUME touched' = Bytes(addr, INTSIZE),
               Accept(IF Item.kind = "word" THEN [call EXCEPT !.word = v] ELSE call)
        PROVE  IInv'
    <3> DEFINE c == IF Item.kind = "word" THEN [call EXCEPT !.word = v] ELSE call
    <3>1. c \in Calls /\ c.todo = call.todo /\ c.buf = call.buf
      BY <1>2 DEF Calls
    <3>2. Accept(c)
      BY <2>4
    <3> HIDE DEF c
    <3> QED
      BY <1>2, <2>2, <2>4, <3>1, <3>2
  <2>5. ASSUME touched' = Bytes(addr, INTSIZE), Accept(call) PROVE IInv'
    BY <1>2, <2>2, <2>5
  <2>6. ASSUME touched' = Bytes(addr, INTSIZE), Return(Result(ERROR)) PROVE IInv'
    BY <1>4, <2>1, <2>6
  <2>7. ASSUME touched' = Bytes(addr, INTSIZE), argptr(sz, v, Signed(call.word)),
               Accept([call EXCEPT !.word = STATSIZE,
                                   !.buf = {Add(v, i) : i \in Bytes(0, call.word)}])
        PROVE  IInv'
    <3> DEFINE b == {Add(v, i) : i \in Bytes(0, call.word)}
               c == [call EXCEPT !.word = STATSIZE, !.buf = b]
    <3>1. b \subseteq 0 .. sz - 1
      BY <1>2, <2>7, ArgptrInside
    <3>2. b \in SUBSET Int /\ STATSIZE \in Words
      BY <3>1, ArgsAssumption DEF Words
    <3>3. Accept(c)
      BY <2>7
    <3> HIDE DEF b
    <3>4. c \in Calls /\ c.todo = call.todo /\ c.buf = b
      BY <1>2, <3>2 DEF Calls
    <3> HIDE DEF c
    <3> QED
      BY <2>2, <2>7, <3>1, <3>3, <3>4
  <2>8. ASSUME FetchStr(v, Tail(call.todo)) PROVE IInv'
    BY <1>1, <1>2, <2>8, FetchStrIInv
  <2> QED
    BY <2>3, <2>4, <2>5, <2>6, <2>7, <2>8, Zenon
<1> QED
  BY <1>5, <1>6

LEMMA FetchArgvIInv ==
  ASSUME IInv, FetchArgv
  PROVE  IInv'
<1> DEFINE addr == Add(call.word, INTSIZE * Item.n)
<1>1. /\ cpu.at = "fetch" /\ call.todo # << >>
      /\ UNCHANGED <<tf, sz, pic, disk, events>>
  BY DEF FetchArgv, At
<1>2. /\ sz \in Sizes /\ sz \in 1 .. KERNBASE /\ call \in Calls /\ call.word \in Words
      /\ call.buf \subseteq 0 .. sz - 1 /\ Result(ERROR) \in Results
      /\ Item \in Items /\ Item.n \in Nat
  BY <1>1, Fetching DEF Items
<1>3. addr \in Words
  <2>1. INTSIZE * Item.n \in Int /\ call.word \in Int
    BY <1>2, ArgsAssumption DEF Words
  <2> QED
    BY <2>1, AddIsWord
<1>4. CASE Item.n >= NARGV \/ ~getint(sz, addr)
  <2>1. Return(Result(ERROR)) /\ touched' = {}
    BY <1>4 DEF FetchArgv
  <2>2. sz' \in Sizes /\ touched' \subseteq 0 .. sz' - 1
    BY <1>1, <1>2, <2>1
  <2> QED
    BY <1>1, <1>2, <2>1, <2>2, ReturnIInv
<1>5. CASE ~(Item.n >= NARGV \/ ~getint(sz, addr))
  <2>1. Bytes(addr, INTSIZE) \subseteq 0 .. sz - 1
    BY <1>2, <1>3, <1>5, GetintInside
  <2> HIDE DEF addr
  <2>2. \/ touched' = Bytes(addr, INTSIZE) /\ Accept([call EXCEPT !.word = STATSIZE])
        \/ \E v \in Words \ {0} : FetchStr(v, <<ArgArgv(Item.n + 1)>>)
    BY <1>5, Zenon DEF FetchArgv, addr
  <2>3. ASSUME touched' = Bytes(addr, INTSIZE), Accept([call EXCEPT !.word = STATSIZE])
        PROVE  IInv'
    <3> DEFINE c == [call EXCEPT !.word = STATSIZE]
    <3>1. STATSIZE \in Words
      BY ArgsAssumption DEF Words
    <3>2. c \in Calls /\ c.todo = call.todo /\ c.buf = call.buf
      BY <1>2, <3>1 DEF Calls
    <3>3. Accept(c)
      BY <2>3
    <3> HIDE DEF c
    <3> QED
      BY <1>1, <1>2, <2>1, <2>3, <3>2, <3>3, AcceptIInv
  <2>4. ASSUME NEW v \in Words, FetchStr(v, <<ArgArgv(Item.n + 1)>>) PROVE IInv'
    <3>1. ArgArgv(Item.n + 1) \in Items
      BY <1>2 DEF ArgArgv, Items
    <3>2. <<ArgArgv(Item.n + 1)>> \in Seq(Items)
      BY <3>1
    <3> QED
      BY <1>1, <2>4, <3>2, FetchStrIInv
  <2> QED
    BY <2>2, <2>3, <2>4
<1> QED
  BY <1>4, <1>5

\* A step of a call that leaves the frame and the size of the process alone.
LEMMA BodyStep ==
  ASSUME IInv, cpu.at \in {"fetch", "body"}, NEW p \in {"body", "iderw"}, Goto(p),
         call' \in Calls, call'.buf \subseteq 0 .. sz - 1, touched' \subseteq 0 .. sz - 1,
         disk' \in {"idle", "busy", "ready"},
         UNCHANGED <<kstack, tf, sz, pic, events>>
  PROVE  IInv'
<1>1. cpu.at \in KernelAt \ {"trap_handler", "eoi"} /\ Len(kstack) = 1 /\ p \in KernelAt
  BY CallFrame DEF KernelAt, HandlerAt
<1>2. kstack[1].at \in UserAt /\ kstack[1].was.at \in UserAt /\ kstack[1].intr /\ tf = 1
  BY <1>1, ProgramFrame
<1>3. cpu \in Regs /\ kstack \in Seq(Frames) /\ sz \in Sizes
  BY Types
<1>4. cpu' \in Regs /\ cpu'.at = p
  BY <1>1, <1>3, GotoRegs
<1>5. cpu'.at \in KernelAt \ {"trap_handler", "eoi"}
  BY <1>4 DEF KernelAt
<1> QED
  BY <1>1, <1>2, <1>3, <1>4, <1>5, CallStep

LEMMA FetchDoneIInv ==
  ASSUME IInv, FetchDone
  PROVE  IInv'
<1>1. /\ cpu.at = "fetch" /\ touched' = call.buf /\ call' = [call EXCEPT !.buf = {}]
      /\ Goto("body") /\ UNCHANGED <<kstack, tf, sz, pic, disk, events>>
  BY DEF FetchDone, At
<1>2. call \in Calls /\ call.buf \subseteq 0 .. sz - 1 /\ disk \in {"idle", "busy", "ready"}
  BY <1>1, Fetching, Types
<1>3. call' \in Calls /\ call'.buf = {}
  BY <1>1, <1>2 DEF Calls
<1> QED
  BY <1>1, <1>2, <1>3, BodyStep

LEMMA BodyReadsIInv ==
  ASSUME IInv, BodyReads
  PROVE  IInv'
<1>1. /\ cpu.at = "body" /\ call' = [call EXCEPT !.reads = call.reads + 1]
      /\ disk' = "busy" /\ Goto("iderw") /\ UNCHANGED <<kstack, tf, sz, touched, pic, events>>
  BY DEF BodyReads, At
<1>2. call \in Calls /\ call.buf \subseteq 0 .. sz - 1 /\ touched \subseteq 0 .. sz - 1
  BY Types DEF IInv, ArgInv, TouchesInside
<1>3. call' \in Calls /\ call'.buf = call.buf
  BY <1>1, <1>2 DEF Calls
<1> QED
  BY <1>1, <1>2, <1>3, BodyStep

LEMMA BodyEndsIInv ==
  ASSUME IInv, BodyEnds
  PROVE  IInv'
<1>1. cpu.at = "body" /\ touched' = {} /\ UNCHANGED <<tf, pic, disk, events>>
  BY DEF BodyEnds, At
<1>2. cpu.at \in KernelAt /\ Len(kstack) = 1 /\ sz \in Sizes
  BY <1>1, CallFrame, Types DEF KernelAt, HandlerAt
<1>3. ASSUME NEW eax \in {0, ERROR}, Return(Result(eax)), UNCHANGED sz PROVE IInv'
  <2>1. eax \in Int
    BY DEF ERROR
  <2>2. Result(eax) \in Results
    BY <1>2, <2>1, ProgramFrame
  <2> QED
    BY <1>1, <1>2, <1>3, <2>2, ReturnIInv
<1>4. ASSUME NEW s \in Sizes, NEW at \in UserAt, NEW sp \in 0 .. s - 1,
             Return([eax |-> 0, at |-> at, esp |-> sp]), sz' = s
      PROVE  IInv'
  <2>1. [eax |-> 0, at |-> at, esp |-> sp] \in Results
    BY DEF Results
  <2> QED
    BY <1>1, <1>4, <2>1, ReturnIInv
<1> QED
  BY <1>3, <1>4 DEF BodyEnds

\* The table of system calls.
LEMMA SyscallsType == \A num \in DOMAIN syscalls : syscalls[num] \in Seq(Items)
<1>1. /\ ArgStr(0) \in Items /\ ArgWord(1) \in Items /\ ArgArgv(0) \in Items /\ ArgInt(1) \in Items
      /\ ArgInt(2) \in Items /\ ArgFd(0) \in Items /\ ArgWord(2) \in Items /\ ArgPtr(1) \in Items
  BY DEF ArgStr, ArgWord, ArgArgv, ArgInt, ArgFd, ArgPtr, Items
<1>2. /\ <<ArgStr(0), ArgWord(1), ArgArgv(0)>> \in Seq(Items)
      /\ << >> \in Seq(Items)
      /\ <<ArgStr(0), ArgInt(1)>> \in Seq(Items)
      /\ <<ArgStr(0), ArgInt(1), ArgInt(2)>> \in Seq(Items)
      /\ <<ArgFd(0), ArgWord(2), ArgPtr(1)>> \in Seq(Items)
      /\ <<ArgFd(0)>> \in Seq(Items)
      /\ <<ArgFd(0), ArgPtr(1)>> \in Seq(Items)
  BY <1>1
<1>3. syscalls \in Seq(Seq(Items))
  BY <1>2 DEF syscalls
<1> QED
  BY <1>3

LEMMA SyscallIInv ==
  ASSUME IInv, syscall
  PROVE  IInv'
<1>1. /\ cpu.at = "dispatch" /\ Frame.int_no = T_SYSCALL
      /\ tf' = Len(kstack) /\ touched' = {} /\ UNCHANGED <<sz, pic, disk, events>>
  BY DEF syscall, Dispatch, At
<1>2. /\ cpu.at \in KernelAt \ {"trap_handler", "eoi"} /\ Len(kstack) \in {1, 2}
      /\ cpu \in Regs /\ kstack \in Seq(Frames) /\ sz \in Sizes /\ disk \in {"idle", "busy", "ready"}
  BY <1>1, KernelFrames, Types DEF KernelAt
<1>3. Len(kstack) = 1
  BY <1>1, <1>2 DEF IInv, StackInv, Frame, T_SYSCALL
<1>4. /\ Frame = kstack[1] /\ kstack[1] \in Frames
      /\ kstack[1].at \in UserAt /\ kstack[1].was.at \in UserAt /\ kstack[1].intr
      /\ Result(ERROR) \in Results /\ Frame.eax \in Int
  <2>1. Result(ERROR) \in Results
    BY <1>2, <1>3, ProgramFrame DEF ERROR
  <2>2. Frame \in Frames
    BY <1>2, KernelFrames
  <2>3. Frame.eax \in Int
    BY <2>2 DEF Frames
  <2> QED
    BY <1>2, <1>3, <2>1, <2>3, ProgramFrame
<1>5. CASE Frame.eax \in DOMAIN syscalls
  <2>1. /\ call' = [NoCall EXCEPT !.num = Frame.eax, !.todo = syscalls[Frame.eax]]
        /\ Goto("fetch") /\ UNCHANGED kstack
    BY <1>5 DEF syscall
  <2>2. cpu' \in Regs /\ cpu'.at = "fetch"
    BY <1>2, <2>1, GotoRegs DEF KernelAt
  <2>3. call' \in Calls /\ call'.buf = {}
    <3>1. syscalls[Frame.eax] \in Seq(Items)
      BY <1>5, SyscallsType
    <3> QED
      BY <1>4, <2>1, <3>1, NoCallType DEF Calls
  <2>4. cpu'.at \in KernelAt \ {"trap_handler", "eoi"}
    BY <2>2 DEF KernelAt
  <2> QED
    BY <1>1, <1>2, <1>3, <1>4, <2>1, <2>2, <2>3, <2>4, CallStep
<1>6. CASE Frame.eax \notin DOMAIN syscalls
  <2>1. /\ kstack' = [kstack EXCEPT ![Len(kstack)].eax = ERROR]
        /\ call' = [NoCall EXCEPT !.num = Frame.eax, !.ret = Result(ERROR)]
        /\ Goto("trapret")
    BY <1>6 DEF syscall
  <2>2. cpu' \in Regs /\ cpu'.at = "trapret"
    BY <1>2, <2>1, GotoRegs DEF KernelAt
  <2>3. call' \in Calls /\ call'.buf = {}
    BY <1>4, <2>1, NoCallType DEF Calls, Results
  <2>4. /\ kstack' \in Seq(Frames) /\ Len(kstack') = 1
        /\ kstack'[1].at = kstack[1].at /\ kstack'[1].was = kstack[1].was
        /\ kstack'[1].intr = kstack[1].intr
    <3> DEFINE f == [kstack[1] EXCEPT !.eax = ERROR]
    <3>1. kstack[1] \in Frames /\ kstack \in Seq(Frames) /\ ERROR \in Int
      BY <1>2, <1>4 DEF ERROR
    <3>2. f \in Frames /\ f.at = kstack[1].at /\ f.was = kstack[1].was /\ f.intr = kstack[1].intr
      BY <3>1 DEF Frames
    <3>3. kstack' = [kstack EXCEPT ![1] = f]
      BY <1>3, <2>1, <3>1
    <3> HIDE DEF f
    <3>4. kstack' \in Seq(Frames) /\ Len(kstack') = 1 /\ kstack'[1] = f
      BY <1>3, <3>1, <3>2, <3>3, FrameReplaced
    <3> QED
      BY <3>2, <3>4
  <2>5. cpu'.at \in KernelAt \ {"trap_handler", "eoi"}
    BY <2>2 DEF KernelAt
  <2>6. kstack'[1].at \in UserAt /\ kstack'[1].was.at \in UserAt /\ kstack'[1].intr
    BY <1>4, <2>4
  <2> QED
    BY <1>1, <1>2, <1>3, <2>2, <2>3, <2>4, <2>5, <2>6, CallStep
<1> QED
  BY <1>5, <1>6

-----------------------------------------------------------------------------
(***************************************************************************)
(* The theorems.                                                           *)
(***************************************************************************)

LEMMA DeviceIInv ==
  ASSUME IInv, (\E l \in {TIMER, KEYBOARD} \cup Stray : Raise(l)) \/ DiskDone
  PROVE  IInv'
<1>1. /\ UNCHANGED <<cpu, kstack, tf, sz, call, touched, inService>>
      /\ irr' \subseteq 0 .. 15 /\ CASCADE \notin irr' /\ events' \in 0 .. MaxEvents
      /\ disk' \in {"idle", "busy", "ready"}
  <2>1. /\ irr \subseteq 0 .. 15 /\ CASCADE \notin irr /\ events \in 0 .. MaxEvents
        /\ disk \in {"idle", "busy", "ready"}
    BY DEF IInv, TypeInv, TypeOK
  <2>2. ASSUME NEW l \in {TIMER, KEYBOARD} \cup Stray, Raise(l)
        PROVE  /\ UNCHANGED <<cpu, kstack, tf, sz, call, touched, inService, disk>>
               /\ irr' \subseteq 0 .. 15 /\ CASCADE \notin irr' /\ events' \in 0 .. MaxEvents
    <3>1. l \in 0 .. 15 /\ l # CASCADE
      BY TrapAssumption DEF TIMER, KEYBOARD, CASCADE
    <3> QED
      BY <2>1, <2>2, <3>1, TrapAssumption DEF Raise
  <2>3. CASE DiskDone
    BY <2>1, <2>3 DEF DiskDone, DISK, CASCADE
  <2> QED
    BY <2>1, <2>2, <2>3
<1>2. TypeInv'
  BY <1>1 DEF IInv, TypeInv, TypeOK
<1>3. StackInv'
  BY <1>1 DEF IInv, StackInv, InUser
<1>4. AckInv'
  BY <1>1 DEF IInv, AckInv, Frame
<1>5. ArgInv'
  BY <1>1 DEF IInv, ArgInv, TouchesInside
<1> QED
  BY <1>2, <1>3, <1>4, <1>5 DEF IInv

LEMMA StutterIInv ==
  ASSUME IInv, UNCHANGED vars
  PROVE  IInv'
<1>1. UNCHANGED <<cpu, kstack, tf, sz, call, touched, irr, inService, disk, events>>
  BY DEF vars, pic
<1>2. TypeInv'
  BY <1>1 DEF IInv, TypeInv, TypeOK
<1>3. StackInv'
  BY <1>1 DEF IInv, StackInv, InUser
<1>4. AckInv'
  BY <1>1 DEF IInv, AckInv, Frame
<1>5. ArgInv'
  BY <1>1 DEF IInv, ArgInv, TouchesInside
<1> QED
  BY <1>2, <1>3, <1>4, <1>5 DEF IInv

LEMMA InitIInv ==
  ASSUME Init
  PROVE  IInv
<1>1. /\ cpu.at = "scheduler" /\ cpu.intr = FALSE /\ sz \in Sizes /\ kstack = <<FirstFrame>>
      /\ tf = 1 /\ call = NoCall /\ touched = {} /\ irr = {} /\ inService = {}
      /\ disk = "idle" /\ events = 0
  BY DEF Init
<1> DEFINE k == [ds |-> KDATA, es |-> KDATA, fs |-> Null, gs |-> Null]
           u == [ds |-> UDATA, es |-> UDATA, fs |-> Null, gs |-> Null]
           w == [at |-> "run", eax |-> 0, esp |-> sz, intr |-> TRUE, seg |-> u]
           s == [i \in 1 .. 4 |-> IF i \in {RegistersT.ds, RegistersT.es} THEN UDATA ELSE Null]
<1>2. /\ k \in [ds : Selectors, es : Selectors, fs : Selectors, gs : Selectors]
      /\ u \in [ds : Selectors, es : Selectors, fs : Selectors, gs : Selectors]
  BY DEF Selectors
<1>3. s \in [1 .. 4 -> Selectors]
  BY DEF Selectors
<1>4. sz \in Int
  BY <1>1, TrapAssumption, ArgsAssumption
<1> HIDE DEF k, u, s
<1>5. w \in Regs /\ w.at = "run"
  BY <1>2, <1>4 DEF Regs, UserAt
<1>6. cpu \in Regs
  <2>1. cpu = [at |-> "scheduler", eax |-> 0, esp |-> 0, intr |-> FALSE, seg |-> k]
    BY DEF Init, k
  <2> QED
    BY <1>2, <2>1 DEF Regs, KernelAt
<1>7. /\ FirstFrame \in Frames /\ FirstFrame.at \in UserAt /\ FirstFrame.was.at \in UserAt
      /\ FirstFrame.intr
  <2>1. FirstFrame = [int_no |-> 0, eax |-> 0, at |-> "run", esp |-> sz, intr |-> TRUE,
                      seg |-> s, was |-> w]
    BY DEF FirstFrame, s, w, u
  <2> HIDE DEF w
  <2> QED
    BY <1>3, <1>4, <1>5, <2>1 DEF Frames, UserAt
<1>8. kstack \in Seq(Frames) /\ Len(kstack) = 1 /\ kstack[1] = FirstFrame
  BY <1>1, <1>7
<1>9. TypeInv
  <2>1. TypeOK
    <3>1. 0 \in 0 .. MaxEvents /\ 1 \in Nat
      BY TrapAssumption
    <3> QED
      BY <1>1, <3>1 DEF TypeOK
  <2> QED
    BY <1>1, <1>6, <1>8, <2>1, NoCallType DEF TypeInv
<1>10. StackInv
  <2>1. ~InUser
    BY <1>1 DEF InUser, UserAt
  <2> QED
    BY <1>1, <1>7, <1>8, <2>1 DEF StackInv
<1>11. AckInv
  BY <1>1 DEF AckInv
<1>12. ArgInv
  BY <1>1, NoCallType DEF ArgInv, TouchesInside
<1> QED
  BY <1>9, <1>10, <1>11, <1>12 DEF IInv

LEMMA NextIInv ==
  ASSUME IInv, [Next]_vars
  PROVE  IInv'
<1>1. CASE Kernel
  BY <1>1, StartIInv, HandlerIInv, TrapHandlerIInv, EoiIInv, TrapretIInv, SyscallIInv,
     FetchArgIInv, FetchArgvIInv, FetchDoneIInv, BodyReadsIInv, BodyEndsIInv DEF Kernel
<1> QED
  BY <1>1, UserIInv, InterruptIInv, DeviceIInv, StutterIInv DEF Next

\* Whatever interrupts, faults and calls happen, and in whatever order: one
\* program frame is at the bottom of the kernel stack, at most one interrupt
\* runs above it, the line it serves is acknowledged by the two commands of
\* trap_handler, and the buffers the kernel has accepted lie in the process.
THEOREM TrapInvariant == Spec => []IInv
<1>1. Init => IInv
  BY InitIInv
<1>2. IInv /\ [Next]_vars => IInv'
  BY NextIInv
<1> QED
  BY <1>1, <1>2, PTL DEF Spec

\* While interrupts are on no line is left in service at either controller
\* (the end-of-interrupt commands of trap_handler).
THEOREM Acknowledged == Spec => []AckedWhenEnabled
<1>1. IInv => AckedWhenEnabled
  BY DEF IInv, TypeInv, AckInv, AckedWhenEnabled
<1> QED
  BY <1>1, TrapInvariant, PTL

\* The kernel stack never holds more than the frame of the program and that
\* of one interrupt, and holds none while the program runs.
THEOREM StackFits == Spec => []StackBounded
<1>1. IInv => StackBounded
  BY DEF IInv, StackInv, StackBounded
<1> QED
  BY <1>1, TrapInvariant, PTL

\* For every size of the machine word, of ints, of processes and of buffers,
\* and every word a program passes: the checks of kernel/syscall.c keep the
\* kernel inside the process.
THEOREM ArgumentsInside == Spec => []TouchesInside
<1>1. IInv => TouchesInside
  BY DEF IInv, ArgInv
<1> QED
  BY <1>1, TrapInvariant, PTL
-----------------------------------------------------------------------------
(***************************************************************************)
(* Registers come back.  ReturnsIntact needs to know what is in the frames *)
(* while the code above them runs.                                         *)
(***************************************************************************)

\* What a frame has of the registers it was made from.
SegmentsSaved(f) ==
  f.intr = f.was.intr /\ f.seg = <<f.was.seg.gs, f.was.seg.fs, f.was.seg.es, f.was.seg.ds>>
Untouched(f) == f.eax = f.was.eax /\ f.at = f.was.at /\ f.esp = f.was.esp
FrameSaved(f) ==
  /\ f.int_no # 0 => SegmentsSaved(f)
  /\ f.int_no \notin {0, T_SYSCALL} => Untouched(f)

\* The program's frame f, when the code that runs in it stands at p and the
\* locals of the call are c: a system call changes its own frame only, and at
\* its end only; the start of the process is no call.
CallAt(f, p, c) ==
  /\ f.int_no = T_SYSCALL =>
       IF p = "trapret" THEN f.eax = c.ret.eax /\ f.at = c.ret.at /\ f.esp = c.ret.esp
       ELSE Untouched(f)
  /\ p \in {"scheduler", "switchuvm", "forkret"} => f.int_no = 0 /\ c.num = 0
  /\ p = "iderw" => f.int_no = IF c.num = 0 THEN 0 ELSE T_SYSCALL
  /\ p \in {"fetch", "body"} => f.int_no = T_SYSCALL /\ c.num # 0

\* Where the code above the program's frame stands, or was interrupted.
Place == IF Len(kstack) = 2 THEN kstack[2].at ELSE cpu.at

FrameInv ==
  /\ \A i \in 1 .. Len(kstack) : FrameSaved(kstack[i])
  /\ Len(kstack) >= 1 => CallAt(kstack[1], Place, call)

\* A step that leaves the only frame with the code at another place, or with
\* other contents.
LEMMA OneFrame ==
  ASSUME Len(kstack') = 1, FrameSaved(kstack'[1]), CallAt(kstack'[1], cpu'.at, call')
  PROVE  FrameInv'
<1>1. Place' = cpu'.at
  BY DEF Place
<1>2. \A i \in 1 .. Len(kstack') : FrameSaved(kstack'[i])
  BY DEF FrameSaved, SegmentsSaved, Untouched
<1> QED
  BY <1>1, <1>2 DEF FrameInv

\* The invariant, in the code of a call or of the start of the process.
LEMMA InCall ==
  ASSUME IInv, FrameInv, cpu.at \in KernelAt, Len(kstack) = 1
  PROVE  /\ Frame = kstack[1] /\ kstack[1] \in Frames /\ FrameSaved(kstack[1])
         /\ CallAt(kstack[1], cpu.at, call)
<1>1. Frame = kstack[1] /\ kstack[1] \in Frames
  BY ProgramFrame
<1>2. FrameSaved(kstack[1])
  BY DEF FrameInv
<1>3. Place = cpu.at
  BY DEF Place
<1> QED
  BY <1>1, <1>2, <1>3 DEF FrameInv

\* A step of a handler.
LEMMA HandlerFrames ==
  ASSUME IInv, FrameInv,
         trap_handler \/ eoi \/ timer_callback \/ keyboard_callback \/ ideint_callback \/ irq_handler
  PROVE  FrameInv' /\ Len(kstack') = Len(kstack)
<1>1. /\ cpu.at \in {"trap_handler", "eoi", "dispatch"} /\ kstack' = kstack /\ call' = call
      /\ \E p \in {"eoi", "dispatch", "trapret", "spin"} :
           Goto(p) /\ (p = "trapret" => Frame.int_no # T_SYSCALL)
  BY DEF trap_handler, eoi, timer_callback, keyboard_callback, ideint_callback, irq_handler,
         Dispatch, At, IRQ, TIMER, KEYBOARD, DISK, T_SYSCALL, PGFLT
<1>2. PICK p \in {"eoi", "dispatch", "trapret", "spin"} :
        Goto(p) /\ (p = "trapret" => Frame.int_no # T_SYSCALL)
  BY <1>1
<1>3. cpu'.at = p
  BY <1>2, Types, GotoRegs DEF KernelAt
<1>4. Len(kstack) \in {1, 2}
  BY <1>1, KernelFrames DEF KernelAt
<1>5. CASE Len(kstack) = 2
  <2>1. Place' = Place
    BY <1>1, <1>5 DEF Place
  <2> QED
    BY <1>1, <2>1 DEF FrameInv
<1>6. CASE Len(kstack) = 1
  <2>1. /\ Frame = kstack[1] /\ FrameSaved(kstack[1])
        /\ CallAt(kstack[1], cpu.at, call)
    BY <1>1, <1>6, InCall DEF KernelAt
  <2>2. CallAt(kstack[1], p, call)
    BY <1>1, <1>2, <2>1 DEF CallAt
  <2> QED
    BY <1>1, <1>3, <1>6, <2>1, <2>2, OneFrame
<1> QED
  BY <1>4, <1>5, <1>6

\* The start of the process, and the end of a wait.
LEMMA StartFrames ==
  ASSUME IInv, FrameInv, scheduler \/ switchuvm \/ forkret \/ iderw
  PROVE  FrameInv' /\ Len(kstack') = Len(kstack)
<1>1. /\ cpu.at \in {"scheduler", "switchuvm", "forkret", "iderw"} /\ kstack' = kstack /\ call' = call
  BY DEF scheduler, switchuvm, forkret, iderw, At
<1>2. Len(kstack) = 1 /\ cpu.at \in KernelAt
  BY <1>1, CallFrame DEF KernelAt, HandlerAt
<1>3. FrameSaved(kstack[1]) /\ CallAt(kstack[1], cpu.at, call)
  BY <1>2, InCall
<1>4. CallAt(kstack[1], cpu'.at, call)
  <2>1. CASE scheduler
    <3>1. cpu.at = "scheduler" /\ cpu'.at = "switchuvm"
      BY <2>1, Types, StiRegs DEF scheduler, At, KernelAt
    <3> QED
      BY <1>3, <3>1 DEF CallAt, T_SYSCALL
  <2>2. CASE switchuvm
    <3>1. cpu.at = "switchuvm" /\ cpu'.at = "forkret"
      BY <2>2, Types, StiRegs DEF switchuvm, At, KernelAt
    <3> QED
      BY <1>3, <3>1 DEF CallAt, T_SYSCALL
  <2>3. CASE forkret
    <3>1. cpu.at = "forkret" /\ cpu'.at = "iderw"
      BY <2>3, Types, GotoRegs DEF forkret, At, KernelAt
    <3> QED
      BY <1>3, <3>1 DEF CallAt, T_SYSCALL
  <2>4. CASE iderw
    <3>1. cpu.at = "iderw" /\ cpu'.at = IF call.num = 0 THEN "trapret" ELSE "body"
      BY <2>4, Types, GotoRegs DEF iderw, At, KernelAt
    <3> QED
      BY <1>3, <3>1 DEF CallAt, T_SYSCALL
  <2> QED
    BY <2>1, <2>2, <2>3, <2>4
<1> QED
  BY <1>1, <1>2, <1>3, <1>4, OneFrame

\* The stub saves what the trap interrupts.
LEMMA EnterSaves ==
  ASSUME NEW c \in Regs, NEW vec \in Int, kstack \in Seq(Frames), Enter(c, vec)
  PROVE  LET f == kstack'[Len(kstack) + 1]
         IN f.int_no = vec /\ f.at = c.at /\ SegmentsSaved(f) /\ Untouched(f)
<1> DEFINE f == [int_no |-> vec, eax |-> c.eax, at |-> c.at, esp |-> c.esp, intr |-> c.intr,
                 seg |-> <<c.seg.gs, c.seg.fs, c.seg.es, c.seg.ds>>, was |-> c]
<1>1. kstack' = Append(kstack, f)
  BY DEF Enter
<1>2. f.int_no = vec /\ f.at = c.at /\ SegmentsSaved(f) /\ Untouched(f)
  BY DEF SegmentsSaved, Untouched
<1> HIDE DEF f
<1>3. kstack'[Len(kstack) + 1] = f
  BY <1>1
<1> QED
  BY <1>2, <1>3

\* A trap of the program, or an interrupt that it is interrupted by.
LEMMA UserTrapFrames ==
  ASSUME IInv, InUser, NEW c \in Regs, NEW vec \in Int, Enter(c, vec), call' = call
  PROVE  FrameInv' /\ Len(kstack') = 1
<1>1. Len(kstack) = 0 /\ kstack \in Seq(Frames)
  BY DEF IInv, TypeInv, StackInv
<1>2. cpu'.at = "trap_handler" /\ Len(kstack') = Len(kstack) + 1
  BY <1>1, EnterFrame, Zenon
<1>3. Len(kstack) + 1 = 1
  BY <1>1
<1>4. SegmentsSaved(kstack'[1]) /\ Untouched(kstack'[1])
  BY <1>1, <1>3, EnterSaves
<1>5. FrameSaved(kstack'[1]) /\ CallAt(kstack'[1], "trap_handler", call')
  BY <1>4 DEF FrameSaved, CallAt
<1> QED
  BY <1>2, <1>3, <1>5, OneFrame

LEMMA UserFrames ==
  ASSUME IInv, FrameInv, User
  PROVE  FrameInv' /\ Len(kstack') >= Len(kstack)
<1>1. cpu \in Regs /\ kstack \in Seq(Frames) /\ InUser /\ Len(kstack) = 0
  <2>1. cpu.at \in UserAt
    BY DEF User, UserCall, UserException, UserGoesBad, UserFault, At, UserAt
  <2> QED
    BY <2>1, Types DEF InUser, IInv, StackInv
<1>2. ASSUME NEW c \in Regs, NEW vec \in Int, Enter(c, vec), call' = call
      PROVE  FrameInv' /\ Len(kstack') >= Len(kstack)
  BY <1>1, <1>2, UserTrapFrames
<1>3. ASSUME NEW num \in Nums, NEW esp \in Words, UserCall(num, esp)
      PROVE  FrameInv' /\ Len(kstack') >= Len(kstack)
  <2> DEFINE c == [cpu EXCEPT !.eax = num, !.esp = esp]
  <2>1. num \in Int /\ esp \in Int
    BY TrapAssumption, ArgsAssumption DEF Words
  <2>2. c \in Regs
    BY <1>1, <2>1 DEF Regs
  <2>3. Enter(c, T_SYSCALL) /\ call' = call /\ T_SYSCALL \in Int
    BY <1>3 DEF UserCall, T_SYSCALL
  <2> HIDE DEF c
  <2> QED
    BY <1>2, <2>2, <2>3
<1>4. ASSUME NEW vec \in Exceptions, UserException(vec)
      PROVE  FrameInv' /\ Len(kstack') >= Len(kstack)
  <2>1. vec \in Int /\ Enter(cpu, vec) /\ call' = call
    BY <1>4, TrapAssumption DEF UserException
  <2> QED
    BY <1>1, <1>2, <2>1
<1>5. CASE UserGoesBad
  <2>1. kstack' = kstack
    BY <1>5 DEF UserGoesBad
  <2> QED
    BY <1>1, <2>1 DEF FrameInv
<1>6. CASE UserFault
  <2>1. PGFLT \in Int /\ Enter(cpu, PGFLT) /\ call' = call
    BY <1>6 DEF UserFault, PGFLT
  <2> QED
    BY <1>1, <1>2, <2>1
<1> QED
  BY <1>3, <1>4, <1>5, <1>6 DEF User

LEMMA InterruptFrames ==
  ASSUME IInv, FrameInv, Interrupt
  PROVE  FrameInv' /\ Len(kstack') >= Len(kstack)
<1>1. PICK l \in 0 .. 15 : Enter(cpu, IRQ(l))
  BY AcceptedLine
<1>2. cpu.intr /\ cpu \in Regs /\ kstack \in Seq(Frames) /\ call' = call /\ IRQ(l) \in Int /\ IRQ(l) # T_SYSCALL
  BY Types DEF Interrupt, Interrupted, IRQ, T_SYSCALL
<1>3. CASE InUser
  <2>1. Len(kstack) = 0
    BY <1>3 DEF IInv, StackInv
  <2>2. FrameInv' /\ Len(kstack') = 1
    BY <1>1, <1>2, <1>3, UserTrapFrames
  <2> QED
    BY <2>1, <2>2
<1>4. CASE ~InUser
  <2>1. Len(kstack) = 1 /\ cpu.at \in KernelAt
    <3>1. cpu.at \in KernelAt
      BY <1>2, <1>4 DEF InUser, Regs
    <3> QED
      BY <1>2, <3>1, KernelFrames DEF IInv, StackInv
  <2>2. /\ Len(kstack') = Len(kstack) + 1
        /\ \A i \in 1 .. Len(kstack) : kstack'[i] = kstack[i]
    BY <1>1, <1>2, EnterFrame, Zenon
  <2>3. /\ Len(kstack) + 1 = 2 /\ Len(kstack') = 2 /\ kstack'[1] = kstack[1]
    BY <2>1, <2>2
  <2>4. kstack'[2].at = cpu.at /\ FrameSaved(kstack'[2])
    <3>1. LET f == kstack'[2]
          IN f.at = cpu.at /\ SegmentsSaved(f) /\ Untouched(f)
      BY <1>1, <1>2, <2>3, EnterSaves
    <3> QED
      BY <3>1 DEF FrameSaved
  <2>5. FrameSaved(kstack[1]) /\ CallAt(kstack[1], cpu.at, call)
    BY <2>1, InCall
  <2>6. Place' = cpu.at
    BY <2>3, <2>4 DEF Place
  <2>7. \A i \in 1 .. Len(kstack') : FrameSaved(kstack'[i])
    <3>1. \A i \in 1 .. 2 : i = 1 \/ i = 2
      OBVIOUS
    <3> QED
      BY <2>3, <2>4, <2>5, <3>1, Zenon
  <2>8. CallAt(kstack'[1], Place', call')
    BY <1>2, <2>3, <2>5, <2>6, Zenon
  <2>9. FrameInv'
    BY <2>7, <2>8 DEF FrameInv
  <2> QED
    BY <2>1, <2>3, <2>9
<1> QED
  BY <1>3, <1>4

\* The end of a call.
LEMMA ReturnFrames ==
  ASSUME IInv, FrameInv, cpu.at \in {"fetch", "body"}, NEW r \in Results, Return(r)
  PROVE  FrameInv' /\ Len(kstack') = Len(kstack)
<1>1. cpu.at \in KernelAt /\ Len(kstack) = 1
  BY CallFrame DEF KernelAt, HandlerAt
<1>2. kstack[1] \in Frames /\ FrameSaved(kstack[1]) /\ CallAt(kstack[1], cpu.at, call)
  BY <1>1, InCall
<1>3. kstack[1].int_no = T_SYSCALL /\ SegmentsSaved(kstack[1])
  BY <1>2 DEF CallAt, FrameSaved, T_SYSCALL
<1>4. kstack \in Seq(Frames) /\ tf = 1 /\ call \in Calls
  BY Types DEF IInv, StackInv
<1> DEFINE f == [kstack[1] EXCEPT !.eax = r.eax, !.at = r.at, !.esp = r.esp]
<1>5. kstack' = [kstack EXCEPT ![1] = f]
  <2>1. kstack' = [kstack EXCEPT ![1].eax = r.eax, ![1].at = r.at, ![1].esp = r.esp]
    BY <1>1, <1>4 DEF Return, SetFrame
  <2>2. kstack \in [{1} -> Frames]
    BY <1>1, <1>4
  <2> QED
    BY <1>2, <2>1, <2>2
<1>6. /\ f \in Frames /\ f.eax = r.eax /\ f.at = r.at /\ f.esp = r.esp /\ f.int_no = kstack[1].int_no
      /\ f.intr = kstack[1].intr /\ f.seg = kstack[1].seg /\ f.was = kstack[1].was
  BY <1>2 DEF Frames, Results
<1> HIDE DEF f
<1>7. Len(kstack') = 1 /\ kstack'[1] = f
  BY <1>1, <1>4, <1>5, <1>6, FrameReplaced
<1>8. call'.ret = r
  BY NoCallType DEF Return, Calls
<1>9. cpu'.at = "trapret"
  BY <1>4, Types, GotoRegs DEF Return, KernelAt
<1>10. FrameSaved(f) /\ CallAt(f, "trapret", call')
  BY <1>3, <1>6, <1>8 DEF FrameSaved, SegmentsSaved, CallAt, T_SYSCALL
<1> QED
  BY <1>1, <1>7, <1>9, <1>10, OneFrame

\* A step of a call that leaves its frame alone.
LEMMA CallFrames ==
  ASSUME IInv, FrameInv, cpu.at \in {"fetch", "body"}, kstack' = kstack, call'.num = call.num,
         cpu'.at \in {"fetch", "body", "iderw"}
  PROVE  FrameInv' /\ Len(kstack') = Len(kstack)
<1>1. cpu.at \in KernelAt /\ Len(kstack) = 1
  BY CallFrame DEF KernelAt, HandlerAt
<1>2. FrameSaved(kstack[1]) /\ CallAt(kstack[1], cpu.at, call)
  BY <1>1, InCall
<1>3. CallAt(kstack[1], cpu'.at, call')
  BY <1>2 DEF CallAt
<1> QED
  BY <1>1, <1>2, <1>3, OneFrame

LEMMA AcceptFrames ==
  ASSUME IInv, FrameInv, cpu.at = "fetch", NEW c \in Calls, c.num = call.num, Accept(c)
  PROVE  FrameInv' /\ Len(kstack') = Len(kstack)
<1>1. call' = [c EXCEPT !.todo = Tail(c.todo)] /\ UNCHANGED <<cpu, kstack>>
  BY DEF Accept
<1>2. call'.num = call.num
  BY <1>1 DEF Calls
<1> QED
  BY <1>1, <1>2, CallFrames

LEMMA FetchStrFrames ==
  ASSUME IInv, FrameInv, cpu.at = "fetch", NEW v \in Words, NEW rest, FetchStr(v, rest)
  PROVE  FrameInv' /\ Len(kstack') = Len(kstack)
<1>1. Result(ERROR) \in Results /\ call \in Calls
  BY Fetching
<1>2. CASE Return(Result(ERROR))
  BY <1>1, <1>2, ReturnFrames
<1>3. CASE call' = [call EXCEPT !.todo = rest] /\ UNCHANGED <<cpu, kstack>>
  <2>1. call'.num = call.num
    BY <1>1, <1>3 DEF Calls
  <2> QED
    BY <1>3, <2>1, CallFrames
<1> QED
  BY <1>2, <1>3 DEF FetchStr

LEMMA FetchFrames ==
  ASSUME IInv, FrameInv, FetchArg \/ FetchArgv
  PROVE  FrameInv' /\ Len(kstack') = Len(kstack)
<1>1. cpu.at = "fetch"
  BY DEF FetchArg, FetchArgv, At
<1>2. Result(ERROR) \in Results /\ call \in Calls
  BY <1>1, Fetching
<1>3. CASE Return(Result(ERROR))
  BY <1>1, <1>2, <1>3, ReturnFrames
<1>4. ASSUME NEW c \in {call} \cup {[call EXCEPT !.word = v] : v \in Words}, Accept(c)
      PROVE  FrameInv' /\ Len(kstack') = Len(kstack)
  <2>1. c \in Calls /\ c.num = call.num
    BY <1>2 DEF Calls
  <2> QED
    BY <1>1, <1>4, <2>1, AcceptFrames
<1>5. ASSUME NEW b, Accept([call EXCEPT !.word = STATSIZE, !.buf = b])
      PROVE  FrameInv' /\ Len(kstack') = Len(kstack)
  <2>1. call' = [[call EXCEPT !.word = STATSIZE, !.buf = b] EXCEPT !.todo = Tail(@)] /\ UNCHANGED <<cpu, kstack>>
    BY <1>5 DEF Accept
  <2>2. call'.num = call.num
    BY <1>2, <2>1 DEF Calls
  <2> QED
    BY <1>1, <2>1, <2>2, CallFrames
<1>6. ASSUME NEW v \in Words, NEW rest, FetchStr(v, rest)
      PROVE  FrameInv' /\ Len(kstack') = Len(kstack)
  BY <1>1, <1>6, FetchStrFrames
<1>7. STATSIZE \in Words
  BY ArgsAssumption DEF Words
<1>8. CASE FetchArg
  <2>1. \/ Return(Result(ERROR))
        \/ \E v \in Words :
             \/ Accept(IF Item.kind = "word" THEN [call EXCEPT !.word = v] ELSE call)
             \/ Accept(call)
             \/ Accept([call EXCEPT !.word = STATSIZE,
                                    !.buf = {Add(v, i) : i \in Bytes(0, call.word)}])
             \/ FetchStr(v, Tail(call.todo))
    BY <1>8, Zenon DEF FetchArg
  <2>2. ASSUME NEW v \in Words, Accept(IF Item.kind = "word" THEN [call EXCEPT !.word = v] ELSE call)
        PROVE  FrameInv' /\ Len(kstack') = Len(kstack)
    <3> DEFINE c == IF Item.kind = "word" THEN [call EXCEPT !.word = v] ELSE call
    <3>1. c \in {call} \cup {[call EXCEPT !.word = u] : u \in Words}
      OBVIOUS
    <3>2. Accept(c)
      BY <2>2
    <3> HIDE DEF c
    <3> QED
      BY <1>4, <3>1, <3>2
  <2>3. ASSUME Accept(call) PROVE FrameInv' /\ Len(kstack') = Len(kstack)
    BY <1>4, <2>3
  <2> QED
    BY <1>3, <1>5, <1>6, <2>1, <2>2, <2>3, Zenon
<1>9. CASE FetchArgv
  <2>1. \/ Return(Result(ERROR))
        \/ Accept([call EXCEPT !.word = STATSIZE])
        \/ \E v \in Words \ {0} : FetchStr(v, <<ArgArgv(Item.n + 1)>>)
    BY <1>9, Zenon DEF FetchArgv
  <2>2. ASSUME Accept([call EXCEPT !.word = STATSIZE]) PROVE FrameInv' /\ Len(kstack') = Len(kstack)
    <3> DEFINE c == [call EXCEPT !.word = STATSIZE]
    <3>1. c \in {call} \cup {[call EXCEPT !.word = u] : u \in Words}
      BY <1>7
    <3>2. Accept(c)
      BY <2>2
    <3> HIDE DEF c
    <3> QED
      BY <1>4, <3>1, <3>2
  <2> QED
    BY <1>3, <1>6, <2>1, <2>2, Zenon
<1> QED
  BY <1>8, <1>9

LEMMA BodyFrames ==
  ASSUME IInv, FrameInv, FetchDone \/ BodyReads \/ BodyEnds
  PROVE  FrameInv' /\ Len(kstack') = Len(kstack)
<1>1. call \in Calls /\ cpu \in Regs
  BY Types
<1>2. CASE FetchDone
  <2>1. cpu.at = "fetch" /\ call' = [call EXCEPT !.buf = {}] /\ Goto("body") /\ kstack' = kstack
    BY <1>2 DEF FetchDone, At
  <2>2. call'.num = call.num /\ cpu'.at = "body"
    BY <1>1, <2>1, GotoRegs DEF Calls, KernelAt
  <2> QED
    BY <2>1, <2>2, CallFrames
<1>3. CASE BodyReads
  <2>1. /\ cpu.at = "body" /\ call' = [call EXCEPT !.reads = call.reads + 1] /\ Goto("iderw")
        /\ kstack' = kstack
    BY <1>3 DEF BodyReads, At
  <2>2. call'.num = call.num /\ cpu'.at = "iderw"
    BY <1>1, <2>1, GotoRegs DEF Calls, KernelAt
  <2> QED
    BY <2>1, <2>2, CallFrames
<1>4. CASE BodyEnds
  <2>1. cpu.at = "body"
    BY <1>4 DEF BodyEnds, At
  <2>2. cpu.at \in KernelAt /\ Len(kstack) = 1
    BY <2>1, CallFrame DEF KernelAt, HandlerAt
  <2>3. ASSUME NEW eax \in {0, ERROR}, Return(Result(eax)) PROVE FrameInv' /\ Len(kstack') = Len(kstack)
    <3>1. eax \in Int
      BY DEF ERROR
    <3>2. Result(eax) \in Results
      BY <2>2, <3>1, ProgramFrame
    <3> QED
      BY <2>1, <2>3, <3>2, ReturnFrames
  <2>4. ASSUME NEW s \in Sizes, NEW at \in UserAt, NEW sp \in 0 .. s - 1,
               Return([eax |-> 0, at |-> at, esp |-> sp])
        PROVE  FrameInv' /\ Len(kstack') = Len(kstack)
    <3>1. [eax |-> 0, at |-> at, esp |-> sp] \in Results
      BY DEF Results
    <3> QED
      BY <2>1, <2>4, <3>1, ReturnFrames
  <2> QED
    BY <1>4, <2>3, <2>4 DEF BodyEnds
<1> QED
  BY <1>2, <1>3, <1>4

LEMMA SyscallFrames ==
  ASSUME IInv, FrameInv, syscall
  PROVE  FrameInv' /\ Len(kstack') = Len(kstack)
<1>1. cpu.at = "dispatch" /\ Frame.int_no = T_SYSCALL
  BY DEF syscall, Dispatch, At
<1>2. cpu.at \in KernelAt /\ cpu \in Regs /\ kstack \in Seq(Frames) /\ Len(kstack) = 1
  <2>1. Len(kstack) \in {1, 2} /\ cpu.at \in KernelAt
    BY <1>1, KernelFrames DEF KernelAt
  <2>2. Len(kstack) = 1
    BY <1>1, <2>1 DEF IInv, StackInv, Frame, T_SYSCALL
  <2> QED
    BY <2>1, <2>2, Types
<1>3. /\ Frame = kstack[1] /\ kstack[1] \in Frames /\ FrameSaved(kstack[1])
      /\ CallAt(kstack[1], cpu.at, call)
  BY <1>2, InCall
<1>4. SegmentsSaved(kstack[1]) /\ Untouched(kstack[1]) /\ kstack[1].int_no = T_SYSCALL
  BY <1>1, <1>3 DEF FrameSaved, CallAt, T_SYSCALL
<1>5. CASE Frame.eax \in DOMAIN syscalls
  <2>1. /\ call' = [NoCall EXCEPT !.num = Frame.eax, !.todo = syscalls[Frame.eax]]
        /\ Goto("fetch") /\ kstack' = kstack
    BY <1>5 DEF syscall
  <2>2. cpu'.at = "fetch"
    BY <1>2, <2>1, GotoRegs DEF KernelAt
  <2>3. call'.num = Frame.eax
    BY <2>1, NoCallType DEF Calls
  <2>4. Frame.eax # 0
    BY <1>5 DEF syscalls
  <2>5. CallAt(kstack[1], "fetch", call')
    BY <1>4, <2>3, <2>4 DEF CallAt
  <2> QED
    BY <1>2, <1>3, <2>1, <2>2, <2>5, OneFrame
<1>6. CASE Frame.eax \notin DOMAIN syscalls
  <2>1. /\ kstack' = [kstack EXCEPT ![Len(kstack)].eax = ERROR]
        /\ call' = [NoCall EXCEPT !.num = Frame.eax, !.ret = Result(ERROR)]
        /\ Goto("trapret")
    BY <1>6 DEF syscall
  <2>2. cpu'.at = "trapret"
    BY <1>2, <2>1, GotoRegs DEF KernelAt
  <2>3. call'.ret = [eax |-> ERROR, at |-> kstack[1].was.at, esp |-> kstack[1].was.esp]
    BY <1>3, <2>1, NoCallType DEF Calls, Result
  <2> DEFINE f == [kstack[1] EXCEPT !.eax = ERROR]
  <2>4. kstack' = [kstack EXCEPT ![1] = f]
    BY <1>2, <2>1
  <2>5. /\ f \in Frames /\ f.eax = ERROR /\ f.at = kstack[1].at /\ f.esp = kstack[1].esp
        /\ f.int_no = kstack[1].int_no /\ f.was = kstack[1].was /\ f.intr = kstack[1].intr
        /\ f.seg = kstack[1].seg
    BY <1>3 DEF Frames, ERROR
  <2> HIDE DEF f
  <2>6. Len(kstack') = 1 /\ kstack'[1] = f
    BY <1>2, <2>4, <2>5, FrameReplaced
  <2>7. FrameSaved(f) /\ CallAt(f, "trapret", call')
    BY <1>4, <2>3, <2>5 DEF FrameSaved, SegmentsSaved, Untouched, CallAt, T_SYSCALL
  <2> QED
    BY <1>2, <2>2, <2>6, <2>7, OneFrame
<1> QED
  BY <1>5, <1>6

\* After an interrupt the code goes on where it was.
LEMMA TrapretFrames ==
  ASSUME IInv, FrameInv, trapret
  PROVE  FrameInv'
<1>1. /\ cpu.at = "trapret" /\ kstack' = SubSeq(kstack, 1, Len(kstack) - 1)
      /\ cpu'.at = Frame.at /\ call' = IF Frame.int_no = T_SYSCALL THEN NoCall ELSE call
  BY DEF trapret, At
<1>2. Len(kstack) \in {1, 2} /\ kstack \in Seq(Frames)
  BY <1>1, KernelFrames, Types DEF KernelAt
<1>3. /\ Len(kstack') = Len(kstack) - 1
      /\ Len(kstack) = 2 => kstack'[1] = kstack[1]
  BY <1>1, <1>2, Popped
<1>4. CASE Len(kstack) = 1
  <2>1. Len(kstack') = 0
    BY <1>3, <1>4
  <2> QED
    BY <2>1 DEF FrameInv
<1>5. CASE Len(kstack) = 2
  <2>1. Frame = kstack[2] /\ kstack[2].int_no \in 32 .. 47
    BY <1>5 DEF IInv, StackInv, Frame
  <2>2. call' = call /\ cpu'.at = kstack[2].at
    BY <1>1, <2>1 DEF T_SYSCALL
  <2>3. Len(kstack') = 1 /\ kstack'[1] = kstack[1]
    BY <1>3, <1>5
  <2>4. FrameSaved(kstack[1]) /\ CallAt(kstack[1], kstack[2].at, call)
    BY <1>5 DEF FrameInv, Place
  <2> QED
    BY <2>2, <2>3, <2>4, OneFrame
<1> QED
  BY <1>2, <1>4, <1>5

LEMMA SameFrames ==
  ASSUME FrameInv, UNCHANGED <<cpu, kstack, call>>
  PROVE  FrameInv' /\ Len(kstack') = Len(kstack)
<1>1. Place' = Place
  BY DEF Place
<1> QED
  BY <1>1 DEF FrameInv

LEMMA InitFrames ==
  ASSUME Init
  PROVE  FrameInv
<1>1. kstack = <<FirstFrame>> /\ cpu.at = "scheduler" /\ call.num = 0
  BY DEF Init, NoCall
<1>2. FirstFrame.int_no = 0
  BY DEF FirstFrame
<1>3. Len(kstack) = 1 /\ kstack[1] = FirstFrame
  BY <1>1
<1>4. Place = "scheduler"
  BY <1>1, <1>3 DEF Place
<1>5. FrameSaved(kstack[1]) /\ CallAt(kstack[1], "scheduler", call)
  BY <1>1, <1>2, <1>3 DEF FrameSaved, CallAt, T_SYSCALL
<1>6. \A i \in 1 .. Len(kstack) : FrameSaved(kstack[i])
  BY <1>3, <1>5
<1> QED
  BY <1>4, <1>5, <1>6 DEF FrameInv

\* Only trapret takes a frame off the stack.
LEMMA NextFrames ==
  ASSUME IInv, FrameInv, [Next]_vars
  PROVE  FrameInv' /\ (trapret \/ Len(kstack') >= Len(kstack))
<1>1. Len(kstack) \in Nat
  BY Types
<1>2. Len(kstack') = Len(kstack) => Len(kstack') >= Len(kstack)
  BY <1>1
<1>3. CASE Kernel
  BY <1>2, <1>3, StartFrames, HandlerFrames, TrapretFrames, SyscallFrames, FetchFrames, BodyFrames DEF Kernel
<1>4. CASE \E l \in {TIMER, KEYBOARD} \cup Stray : Raise(l)
  BY <1>2, <1>4, SameFrames DEF Raise
<1>5. CASE DiskDone
  BY <1>2, <1>5, SameFrames DEF DiskDone
<1>6. CASE UNCHANGED vars
  BY <1>2, <1>6, SameFrames DEF vars
<1> QED
  BY <1>3, <1>4, <1>5, <1>6, UserFrames, InterruptFrames DEF Next

\* trapret restores what the stub saved, but for the result of a call.
LEMMA TrapretRestores ==
  ASSUME IInv, FrameInv, trapret, Frame.int_no # 0
  PROVE  cpu' = IF Frame.int_no = T_SYSCALL
                THEN [Frame.was EXCEPT !.eax = call.ret.eax, !.at = call.ret.at, !.esp = call.ret.esp]
                ELSE Frame.was
<1>1. /\ cpu.at = "trapret"
      /\ cpu' = [at |-> Frame.at, eax |-> Frame.eax, esp |-> Frame.esp, intr |-> Frame.intr,
                 seg |-> [gs |-> Frame.seg[1], fs |-> Frame.seg[2],
                          es |-> Frame.seg[3], ds |-> Frame.seg[4]]]
  BY DEF trapret, At
<1>2. /\ cpu.at \in KernelAt /\ Len(kstack) \in {1, 2} /\ Frame \in Frames
      /\ Frame = kstack[Len(kstack)]
  BY <1>1, KernelFrames DEF KernelAt, Frame
<1>3. FrameSaved(Frame)
  BY <1>2 DEF FrameInv
<1>4. PICK w \in Regs : w = Frame.was
  BY <1>2 DEF Frames
<1>5. /\ Frame.intr = w.intr /\ Frame.seg = <<w.seg.gs, w.seg.fs, w.seg.es, w.seg.ds>>
  BY <1>3, <1>4 DEF FrameSaved, SegmentsSaved
<1>6. PICK s : s = w.seg /\ s \in [ds : Selectors, es : Selectors, fs : Selectors, gs : Selectors]
  BY DEF Regs
<1>7. [gs |-> Frame.seg[1], fs |-> Frame.seg[2], es |-> Frame.seg[3], ds |-> Frame.seg[4]] = s
  <2>1. Frame.seg[1] = s.gs /\ Frame.seg[2] = s.fs /\ Frame.seg[3] = s.es /\ Frame.seg[4] = s.ds
    BY <1>5, <1>6
  <2>2. s = [gs |-> s.gs, fs |-> s.fs, es |-> s.es, ds |-> s.ds]
    BY <1>6
  <2> QED
    BY <2>1, <2>2
<1>8. cpu' = [at |-> Frame.at, eax |-> Frame.eax, esp |-> Frame.esp, intr |-> w.intr, seg |-> w.seg]
  BY <1>1, <1>5, <1>6, <1>7
<1>9. CASE Frame.int_no # T_SYSCALL
  <2>1. Frame.at = w.at /\ Frame.eax = w.eax /\ Frame.esp = w.esp
    BY <1>3, <1>4, <1>9 DEF FrameSaved, Untouched
  <2>2. cpu' = w
    BY <1>8, <2>1 DEF Regs
  <2> QED
    BY <1>4, <1>9, <2>2
<1>10. CASE Frame.int_no = T_SYSCALL
  <2>1. Len(kstack) = 1
    BY <1>2, <1>10 DEF IInv, StackInv, T_SYSCALL
  <2>2. CallAt(Frame, "trapret", call)
    BY <1>1, <1>2, <2>1, InCall
  <2>3. Frame.eax = call.ret.eax /\ Frame.at = call.ret.at /\ Frame.esp = call.ret.esp
    BY <1>10, <2>2 DEF CallAt
  <2>4. PICK e \in Int, a \in UserAt, p \in Int : e = call.ret.eax /\ a = call.ret.at /\ p = call.ret.esp
    BY Types DEF Calls
  <2>5. cpu' = [at |-> a, eax |-> e, esp |-> p, intr |-> w.intr, seg |-> w.seg]
    BY <1>8, <2>3, <2>4
  <2>6. cpu' = [w EXCEPT !.eax = e, !.at = a, !.esp = p]
    <3>1. PICK x \in Regs : x = [w EXCEPT !.eax = e, !.at = a, !.esp = p]
      BY DEF Regs
    <3>2. x.at = a /\ x.eax = e /\ x.esp = p /\ x.intr = w.intr /\ x.seg = w.seg
      BY <3>1 DEF Regs
    <3>3. cpu' = x
      BY <2>5, <3>2 DEF Regs
    <3> QED
      BY <3>1, <3>3
  <2>7. cpu' = [w EXCEPT !.eax = call.ret.eax, !.at = call.ret.at, !.esp = call.ret.esp]
    BY <2>4, <2>6
  <2> QED
    BY <1>4, <1>10, <2>7
<1> QED
  BY <1>9, <1>10

\* Every trap gives the interrupted code its registers back (the stubs of
\* interrupt.asm and trapret), for any number and nesting of interrupts, and
\* what a system call changes is its own result: dispatcher and exec store
\* through curproc->tf into the frame of the call that runs.
THEOREM RegistersComeBack == Spec => ReturnsIntact
<1>1. Init => IInv /\ FrameInv
  BY InitIInv, InitFrames
<1>2. IInv /\ FrameInv /\ [Next]_vars => (IInv /\ FrameInv)'
  BY NextIInv, NextFrames
<1>3. IInv /\ FrameInv /\ [Next]_vars =>
        [Len(kstack') < Len(kstack) /\ Frame.int_no # 0 =>
           cpu' = IF Frame.int_no = T_SYSCALL
                  THEN [Frame.was EXCEPT !.eax = call.ret.eax, !.at = call.ret.at,
                                         !.esp = call.ret.esp]
                  ELSE Frame.was]_vars
  <2> SUFFICES ASSUME IInv, FrameInv, [Next]_vars,
                      Len(kstack') < Len(kstack), Frame.int_no # 0
               PROVE  cpu' = IF Frame.int_no = T_SYSCALL
                             THEN [Frame.was EXCEPT !.eax = call.ret.eax, !.at = call.ret.at,
                                                    !.esp = call.ret.esp]
                             ELSE Frame.was
    OBVIOUS
  <2>1. Len(kstack) \in Nat /\ Len(kstack') \in Nat
    <3>1. IInv'
      BY NextIInv
    <3>2. kstack \in Seq(Frames) /\ kstack' \in Seq(Frames)
      BY <3>1 DEF IInv, TypeInv
    <3> QED
      BY <3>2
  <2>2. trapret
    BY <2>1, NextFrames
  <2> QED
    BY <2>2, TrapretRestores
<1> QED
  BY <1>1, <1>2, <1>3, PTL DEF Spec, ReturnsIntact

===============================================================================
