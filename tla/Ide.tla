---------------------------------- MODULE Ide ---------------------------------
(***************************************************************************)
(* The disk driver of drivers/ide.c with the two callers it has: the       *)
(* kernel thread, through bread and bwrite, and the keyboard handler,      *)
(* through the commands TESTIDEW and TESTIDER of kernel/sh.c.              *)
(*                                                                         *)
(* System calls enter the kernel through a trap gate and stay              *)
(* interruptible; the keyboard and the disk interrupt through interrupt    *)
(* gates (cpu/idt.c), so their handlers run with interrupts off: while the *)
(* keyboard handler is in iderw neither the kernel thread nor the disk     *)
(* handler runs.  The disk handler does not wait and is one step.          *)
(***************************************************************************)
EXTENDS Integers, Sequences, FiniteSets

CONSTANTS Blocks,       \* blocks of the disk
          Super,        \* block 1, the superblock
          Data,         \* contents of a block
          Eeee,         \* the content TESTIDEW writes
          Typed,        \* the commands typed at the keyboard
          ReadErrors,   \* whether the disk may fail to read
          nil           \* the null pointer

\* A caller and the struct buf it passes to iderw: the kernel thread waits
\* for one request before it makes another, and so does the handler.
Ctx == {"main", "kbd"}
QHead == "idequeue"

ASSUME IdeAssumption ==
  /\ Super \in Blocks /\ Eeee \in Data
  /\ Typed \subseteq {"TESTIDEW", "TESTIDER"}
  /\ ReadErrors \in BOOLEAN
  /\ nil \notin Ctx \cup {QHead}

B_VALID == "B_VALID"
B_DIRTY == "B_DIRTY"

VARIABLES flags, blockno, data, qnext,   \* the fields of each struct buf
          idequeue,                      \* the first buffer of the queue
          pc,                            \* where each caller is in iderw
          pp,                            \* the pointer that walks the queue
          dev,                           \* the controller's command
          irq14,                         \* its interrupt is pending
          disk

buf == <<flags, blockno, data, qnext>>
vars == <<buf, idequeue, pc, pp, dev, irq14, disk>>

Init ==
  /\ flags = [c \in Ctx |-> {}]
  /\ blockno \in [Ctx -> Blocks]
  /\ data \in [Ctx -> Data]
  /\ qnext = [c \in Ctx |-> nil]
  /\ idequeue = nil
  /\ pc = [c \in Ctx |-> "idle"]
  /\ pp = [c \in Ctx |-> QHead]
  /\ dev = [busy |-> FALSE, write |-> FALSE, blockno |-> Super, sector |-> Eeee, err |-> FALSE]
  /\ irq14 = FALSE
  /\ disk \in [Blocks -> Data]

\* Interrupts are on, and the kernel thread runs, unless the keyboard handler
\* is active.
Interruptible == pc["kbd"] = "idle"
Runs(c) == c = "main" => Interruptible

-----------------------------------------------------------------------------
(***************************************************************************)
(* The controller.                                                         *)
(***************************************************************************)

\* idestart: wait for the disk, give it the command and, to write, the data.
idestart(b) ==
  /\ ~dev.busy
  /\ dev' = [busy |-> TRUE, write |-> B_DIRTY \in flags[b], blockno |-> blockno[b],
             sector |-> IF B_DIRTY \in flags[b] THEN data[b] ELSE dev.sector,
             err |-> FALSE]

\* The disk finishes the command and raises its interrupt.
Complete ==
  /\ dev.busy
  /\ irq14' = TRUE
  /\ IF dev.write
     THEN /\ disk' = [disk EXCEPT ![dev.blockno] = dev.sector]
          /\ dev' = [dev EXCEPT !.busy = FALSE]
     ELSE /\ UNCHANGED disk
          /\ \/ dev' = [dev EXCEPT !.busy = FALSE, !.sector = disk[dev.blockno]]
             \/ /\ ReadErrors
                /\ dev' = [dev EXCEPT !.busy = FALSE, !.err = TRUE]
  /\ UNCHANGED <<buf, idequeue, pc, pp>>

\* Faulty variants, whose names start with Bad, stand before the definitions
\* they replace when the properties are tested for their teeth.

\* Faulty: the data is not read.
BadIdeintNoRead ==
  /\ irq14 /\ Interruptible
  /\ irq14' = FALSE
  /\ IF idequeue = nil THEN UNCHANGED <<flags, data, idequeue, dev>>
     ELSE LET b == idequeue IN
          /\ idequeue' = qnext[b]
          /\ flags' = [flags EXCEPT ![b] = (@ \cup {B_VALID}) \ {B_DIRTY}]
          /\ UNCHANGED data
          /\ IF qnext[b] = nil THEN UNCHANGED dev ELSE idestart(qnext[b])
  /\ UNCHANGED <<blockno, qnext, pc, pp, disk>>

\* Faulty: B_DIRTY stays set, and a request that is still dirty is repeated.
BadIdeintDirty ==
  /\ irq14 /\ Interruptible
  /\ irq14' = FALSE
  /\ IF idequeue = nil THEN UNCHANGED <<flags, data, idequeue, dev>>
     ELSE LET b == idequeue
              n == IF B_DIRTY \in flags[b] THEN b ELSE qnext[b] IN
          /\ idequeue' = n
          /\ flags' = [flags EXCEPT ![b] = @ \cup {B_VALID}]
          /\ data' = IF B_DIRTY \in flags[b] \/ dev.err THEN data
                     ELSE [data EXCEPT ![b] = dev.sector]
          /\ IF n = nil THEN UNCHANGED dev ELSE idestart(n)
  /\ UNCHANGED <<blockno, qnext, pc, pp, disk>>

\* The interrupt handler takes the first buffer off the queue, reads into it
\* unless it was written or the read failed, marks it valid and starts the
\* next request.
ideint_callback ==
  /\ irq14 /\ Interruptible
  /\ irq14' = FALSE
  /\ IF idequeue = nil THEN UNCHANGED <<flags, data, idequeue, dev>>
     ELSE LET b == idequeue IN
          /\ idequeue' = qnext[b]
          /\ flags' = [flags EXCEPT ![b] = (@ \cup {B_VALID}) \ {B_DIRTY}]
          /\ data' = IF B_DIRTY \in flags[b] \/ dev.err THEN data
                     ELSE [data EXCEPT ![b] = dev.sector]
          /\ IF qnext[b] = nil THEN UNCHANGED dev ELSE idestart(qnext[b])
  /\ UNCHANGED <<blockno, qnext, pc, pp, disk>>

-----------------------------------------------------------------------------
(***************************************************************************)
(* iderw.                                                                  *)
(***************************************************************************)

Enter(c) ==
  /\ qnext' = [qnext EXCEPT ![c] = nil]
  /\ pp' = [pp EXCEPT ![c] = QHead]
  /\ pc' = [pc EXCEPT ![c] = "walk"]

\* The pointer that pp points to.
Deref(p) == IF p = QHead THEN idequeue ELSE qnext[p]

\* One turn of the loop that looks for the end of the queue.
walk(c) ==
  /\ Runs(c) /\ pc[c] = "walk"
  /\ IF Deref(pp[c]) = nil
     THEN pc' = [pc EXCEPT ![c] = "link"] /\ UNCHANGED pp
     ELSE pp' = [pp EXCEPT ![c] = Deref(@)] /\ UNCHANGED pc
  /\ UNCHANGED <<buf, idequeue, dev, irq14, disk>>

\* Faulty: the buffer replaces the queue.
BadLink(c) ==
  /\ Runs(c) /\ pc[c] = "link"
  /\ idequeue' = c
  /\ pc' = [pc EXCEPT ![c] = "kick"]
  /\ UNCHANGED <<buf, pp, dev, irq14, disk>>

\* *pp = b.
link(c) ==
  /\ Runs(c) /\ pc[c] = "link"
  /\ IF pp[c] = QHead THEN idequeue' = c /\ UNCHANGED qnext
     ELSE qnext' = [qnext EXCEPT ![pp[c]] = c] /\ UNCHANGED idequeue
  /\ pc' = [pc EXCEPT ![c] = "kick"]
  /\ UNCHANGED <<flags, blockno, data, pp, dev, irq14, disk>>

\* Faulty: the disk is started even when others wait in front.
BadKick(c) ==
  /\ Runs(c) /\ pc[c] = "kick"
  /\ idestart(c)
  /\ pc' = [pc EXCEPT ![c] = "wait"]
  /\ UNCHANGED <<buf, idequeue, pp, irq14, disk>>

\* The first buffer of the queue starts the disk.
kick(c) ==
  /\ Runs(c) /\ pc[c] = "kick"
  /\ IF idequeue = c THEN idestart(c) ELSE UNCHANGED dev
  /\ pc' = [pc EXCEPT ![c] = "wait"]
  /\ UNCHANGED <<buf, idequeue, pp, irq14, disk>>

\* The spin on the flags ends, and iderw returns.
return(c) ==
  /\ Runs(c) /\ pc[c] = "wait"
  /\ flags[c] = {B_VALID}
  /\ pc' = [pc EXCEPT ![c] = "idle"]
  /\ UNCHANGED <<buf, idequeue, pp, dev, irq14, disk>>

-----------------------------------------------------------------------------
(***************************************************************************)
(* The callers.                                                            *)
(***************************************************************************)

\* bread of a block that is not cached, into a recycled buffer.
bread(n) ==
  /\ Runs("main") /\ pc["main"] = "idle"
  /\ flags' = [flags EXCEPT !["main"] = {}]
  /\ blockno' = [blockno EXCEPT !["main"] = n]
  /\ Enter("main")
  /\ UNCHANGED <<data, idequeue, dev, irq14, disk>>

\* A store of d into a valid buffer, and its bwrite.
bwrite(d) ==
  /\ Runs("main") /\ pc["main"] = "idle"
  /\ B_VALID \in flags["main"]
  /\ flags' = [flags EXCEPT !["main"] = @ \cup {B_DIRTY}]
  /\ data' = [data EXCEPT !["main"] = d]
  /\ Enter("main")
  /\ UNCHANGED <<blockno, idequeue, dev, irq14, disk>>

\* A command line ends while interrupts are on: user_input runs in the
\* keyboard's handler.  Both commands set B_DIRTY; TESTIDER leaves the data
\* of its struct buf, on the stack, uninitialised.
user_input(cmd) ==
  /\ Interruptible
  /\ flags' = [flags EXCEPT !["kbd"] = {B_DIRTY}]
  /\ blockno' = [blockno EXCEPT !["kbd"] = Super]
  /\ \E d \in IF cmd = "TESTIDEW" THEN {Eeee} ELSE Data :
       data' = [data EXCEPT !["kbd"] = d]
  /\ Enter("kbd")
  /\ UNCHANGED <<idequeue, dev, irq14, disk>>

Steps(c) == walk(c) \/ link(c) \/ kick(c) \/ return(c)

Next ==
  \/ \E n \in Blocks : bread(n)
  \/ \E d \in Data : bwrite(d)
  \/ \E cmd \in Typed : user_input(cmd)
  \/ \E c \in Ctx : Steps(c)
  \/ Complete
  \/ ideint_callback

Spec == Init /\ [][Next]_vars

\* The processor executes the code it is in, the disk ends its commands, and
\* a pending interrupt is taken while interrupts are on.
Fairness ==
  /\ \A c \in Ctx : WF_vars(Steps(c))
  /\ WF_vars(Complete)
  /\ WF_vars(ideint_callback)

FairSpec == Spec /\ Fairness

-----------------------------------------------------------------------------
(***************************************************************************)
(* Properties.                                                             *)
(***************************************************************************)

\* The pointers of the queue point to buffers, and the walk stays on it.
TypeOK ==
  /\ flags \in [Ctx -> SUBSET {B_VALID, B_DIRTY}]
  /\ blockno \in [Ctx -> Blocks]
  /\ data \in [Ctx -> Data]
  /\ qnext \in [Ctx -> Ctx \cup {nil}]
  /\ idequeue \in Ctx \cup {nil}
  /\ pc \in [Ctx -> {"idle", "walk", "link", "kick", "wait"}]
  /\ pp \in [Ctx -> Ctx \cup {QHead}]
  /\ irq14 \in BOOLEAN
  /\ disk \in [Blocks -> Data]

Queue ==
  IF idequeue = nil THEN << >>
  ELSE IF qnext[idequeue] = nil THEN <<idequeue>>
  ELSE <<idequeue, qnext[idequeue]>>

Pending(c) == pc[c] \in {"kick", "wait"} /\ flags[c] # {B_VALID}

\* The queue holds exactly the requests that are linked and not served, each
\* once: neither caller loses the other's request, wherever the keyboard
\* interrupts the kernel thread's walk; and the fields keep their types.
QueueExact ==
  /\ TypeOK
  /\ \A c \in Ctx : Pending(c) <=> \E i \in DOMAIN Queue : Queue[i] = c
  /\ Len(Queue) = 2 => Queue[1] # Queue[2] /\ qnext[Queue[2]] = nil

\* The command the disk executes, or has finished without its interrupt
\* having been handled, is that of the first buffer of the queue: the handler
\* never completes a request the disk has not served.
DeviceServesHead ==
  dev.busy \/ irq14 =>
    /\ idequeue # nil
    /\ dev.blockno = blockno[idequeue]
    /\ dev.write = (B_DIRTY \in flags[idequeue])

\* When iderw returns to the kernel thread, the buffer and its block agree,
\* unless the disk failed to read, or the keyboard's command is writing.
ReturnsInSync ==
  pc["main"] = "idle" /\ B_VALID \in flags["main"] /\ ~dev.err /\ Interruptible =>
    data["main"] = disk[blockno["main"]]

\* iderw returns to the kernel thread, whichever buffers are queued in front,
\* unless the keyboard handler has taken the processor.
MainReturns ==
  pc["main"] # "idle" ~> pc["main"] = "idle" \/ ~Interruptible

\* iderw returns to the keyboard handler ("wait until the operation is
\* complete", the comment on the loop in iderw).
KeyboardReturns == pc["kbd"] # "idle" ~> pc["kbd"] = "idle"
===============================================================================
