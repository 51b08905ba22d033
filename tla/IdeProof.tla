------------------------------- MODULE IdeProof -------------------------------
(***************************************************************************)
(* The queue of the disk driver, for every disk, every content and every   *)
(* place at which the keyboard interrupts the kernel thread: no request is *)
(* lost, the controller works for the first one, and iderw returns to the  *)
(* kernel thread with its buffer and the disk in agreement.                *)
(***************************************************************************)
EXTENDS Ide, TLAPS

-----------------------------------------------------------------------------
(***************************************************************************)
(* The inductive invariant.                                                *)
(***************************************************************************)

\* The queue, in terms of who waits: the kernel thread's request is never
\* behind the keyboard's, and qnext is set only to put the latter behind it.
QueueInv ==
  /\ qnext["kbd"] = nil
  /\ \/ idequeue = nil /\ qnext["main"] = nil /\ ~Pending("main") /\ ~Pending("kbd")
     \/ idequeue = "main" /\ qnext["main"] = nil /\ Pending("main") /\ ~Pending("kbd")
     \/ idequeue = "main" /\ qnext["main"] = "kbd" /\ Pending("main") /\ Pending("kbd")
     \/ idequeue = "kbd" /\ qnext["main"] = nil /\ ~Pending("main") /\ Pending("kbd")

\* Where the callers are.  The keyboard's walk stays on the queue, which does
\* not change while its handler runs; the kernel thread finds it empty.
WalkInv ==
  /\ pc["main"] \in {"walk", "link", "kick"} => flags["main"] # {B_VALID}
  /\ pc["main"] \in {"walk", "link"} /\ Interruptible => pp["main"] = QHead
  /\ pc["kbd"] # "idle" => flags["kbd"] = {B_DIRTY}
  /\ pc["kbd"] \in {"walk", "link"} =>
       \/ pp["kbd"] = QHead
       \/ pp["kbd"] = "main" /\ idequeue = "main"
  /\ pc["kbd"] = "link" => Deref(pp["kbd"]) = nil

Devs == [busy : BOOLEAN, write : BOOLEAN, blockno : Blocks, sector : Data, err : BOOLEAN]

\* The controller works for a request that has passed kick.
DevInv ==
  /\ dev.busy => ~irq14
  /\ dev.busy \/ irq14 =>
       /\ idequeue # nil /\ pc[idequeue] = "wait"
       /\ dev.blockno = blockno[idequeue]
       /\ dev.write = (B_DIRTY \in flags[idequeue])
  /\ dev \in Devs

\* The kernel thread has no request, and its buffer was read or written.
Served ==
  \/ pc["main"] = "idle" /\ B_VALID \in flags["main"]
  \/ pc["main"] = "wait" /\ flags["main"] = {B_VALID}

\* What the kernel thread will find, or has found, in its buffer.
SyncInv ==
  Interruptible =>
    /\ dev.busy /\ dev.write => dev.sector = data["main"]
    /\ irq14 /\ dev.write => disk[blockno["main"]] = data["main"]
    /\ irq14 /\ ~dev.write /\ ~dev.err => dev.sector = disk[blockno["main"]]
    /\ Served /\ ~dev.err => data["main"] = disk[blockno["main"]]

IInv == TypeOK /\ QueueInv /\ WalkInv /\ DevInv /\ SyncInv

-----------------------------------------------------------------------------
(***************************************************************************)
(* One lemma for each action.                                              *)
(***************************************************************************)

LEMMA InitIInv ==
  ASSUME Init
  PROVE  IInv
<1>1. TypeOK
  BY DEF Init, TypeOK, Ctx
<1>2. QueueInv
  BY DEF Init, QueueInv, Pending, Ctx
<1>3. WalkInv
  BY DEF Init, WalkInv, Ctx
<1>4. DevInv
  BY IdeAssumption DEF Init, DevInv, Devs
<1>5. SyncInv
  BY DEF Init, SyncInv, Served, Ctx
<1> QED
  BY <1>1, <1>2, <1>3, <1>4, <1>5 DEF IInv

LEMMA CompleteDev ==
  ASSUME IInv, Complete
  PROVE  /\ dev.busy /\ dev' \in Devs /\ ~dev'.busy
         /\ dev'.write = dev.write /\ dev'.blockno = dev.blockno
         /\ dev.write => dev'.sector = dev.sector /\ disk' = [disk EXCEPT ![dev.blockno] = dev.sector]
         /\ ~dev.write => disk' = disk /\ (~dev'.err => dev'.sector = disk[dev.blockno])
<1>1. dev \in Devs /\ dev.blockno \in Blocks /\ disk[dev.blockno] \in Data
  BY DEF IInv, DevInv, TypeOK, Devs
<1>2. CASE dev.write
  BY <1>1, <1>2 DEF Complete, Devs
<1>3. CASE ~dev.write
  BY <1>1, <1>3 DEF Complete, Devs
<1> QED
  BY <1>2, <1>3

LEMMA CompleteIInv ==
  ASSUME IInv, Complete
  PROVE  IInv'
<1>1. /\ dev.busy /\ irq14' = TRUE /\ ~irq14
      /\ UNCHANGED <<flags, blockno, data, qnext, idequeue, pc, pp>>
  BY DEF Complete, IInv, DevInv, buf
<1>2. TypeOK'
  BY <1>1, CompleteDev DEF IInv, TypeOK, Devs, DevInv
<1>3. QueueInv'
  BY <1>1 DEF IInv, QueueInv, Pending
<1>4. WalkInv'
  BY <1>1 DEF IInv, WalkInv, Deref, Interruptible
<1>5. DevInv'
  BY <1>1, CompleteDev DEF IInv, DevInv, Devs
<1>6. SyncInv'
  <2>1. SUFFICES ASSUME Interruptible PROVE SyncInv'
    BY <1>1 DEF SyncInv, Interruptible
  <2>2. idequeue = "main" /\ Pending("main") /\ dev.blockno = blockno["main"]
    BY <1>1, <2>1 DEF IInv, QueueInv, DevInv, Pending, Interruptible
  <2>3. ~Served'
    BY <1>1, <2>2 DEF Served, Pending
  <2> QED
    BY <1>1, <2>1, <2>2, <2>3, CompleteDev DEF IInv, SyncInv, TypeOK, Ctx, Interruptible
<1> QED
  BY <1>2, <1>3, <1>4, <1>5, <1>6 DEF IInv

\* The handler: only the kernel thread's request can be served, since the
\* keyboard's holds the processor.
LEMMA IdeintIInv ==
  ASSUME IInv, ideint_callback
  PROVE  IInv'
<1>1. /\ irq14 /\ irq14' = FALSE /\ pc["kbd"] = "idle"
      /\ UNCHANGED <<blockno, qnext, pc, pp, disk>>
  BY DEF ideint_callback, Interruptible
<1>2. /\ idequeue = "main" /\ qnext["main"] = nil /\ ~dev.busy /\ pc["main"] = "wait"
      /\ dev.write = (B_DIRTY \in flags["main"]) /\ idequeue # nil
  BY <1>1 DEF IInv, QueueInv, DevInv, Pending
<1>3. /\ idequeue' = nil /\ UNCHANGED dev
      /\ flags' = [flags EXCEPT !["main"] = (@ \cup {B_VALID}) \ {B_DIRTY}]
      /\ data' = IF B_DIRTY \in flags["main"] \/ dev.err THEN data
                 ELSE [data EXCEPT !["main"] = dev.sector]
  BY <1>1, <1>2 DEF ideint_callback
<1>4. flags' \in [Ctx -> SUBSET {B_VALID, B_DIRTY}] /\ flags'["main"] = {B_VALID}
  BY <1>3 DEF IInv, TypeOK, Ctx, B_VALID, B_DIRTY
<1>5. dev \in Devs /\ dev.sector \in Data
  BY DEF IInv, DevInv, Devs
<1>6. TypeOK'
  BY <1>1, <1>3, <1>4, <1>5 DEF IInv, TypeOK, Ctx
<1>7. QueueInv'
  BY <1>1, <1>2, <1>3, <1>4 DEF IInv, QueueInv, Pending
<1>8. WalkInv'
  BY <1>1, <1>2 DEF WalkInv
<1>9. DevInv'
  BY <1>1, <1>2, <1>3, <1>5 DEF DevInv
<1>10. SyncInv'
  <2>1. ~dev.write /\ ~dev.err => data'["main"] = dev.sector
    BY <1>2, <1>3, <1>5 DEF IInv, TypeOK, Ctx
  <2>2. dev.write => data' = data
    BY <1>2, <1>3
  <2> QED
    BY <1>1, <1>2, <1>3, <2>1, <2>2 DEF IInv, SyncInv, Interruptible
<1> QED
  BY <1>6, <1>7, <1>8, <1>9, <1>10 DEF IInv

LEMMA WalkIInv ==
  ASSUME IInv, NEW c \in Ctx, walk(c)
  PROVE  IInv'
<1>1. /\ pc[c] = "walk" /\ Runs(c)
      /\ UNCHANGED <<flags, blockno, data, qnext, idequeue, dev, irq14, disk>>
      /\ IF Deref(pp[c]) = nil
         THEN pc' = [pc EXCEPT ![c] = "link"] /\ UNCHANGED pp
         ELSE pp' = [pp EXCEPT ![c] = Deref(pp[c])] /\ UNCHANGED pc
  BY DEF walk, buf
<1>2. Deref(pp[c]) \in Ctx \cup {nil}
  BY DEF Deref, IInv, TypeOK
<1>3. TypeOK'
  BY <1>1, <1>2 DEF IInv, TypeOK
<1>4. \A d \in Ctx : pc'[d] # pc[d] => d = c /\ pc'[d] = "link"
  BY <1>1 DEF IInv, TypeOK
<1>5. QueueInv'
  BY <1>1, <1>4 DEF IInv, QueueInv, Pending, Ctx
<1>6. DevInv'
  BY <1>1, <1>4 DEF IInv, DevInv, TypeOK
<1>7. SyncInv'
  BY <1>1, <1>4 DEF IInv, SyncInv, Served, Interruptible, Ctx
<1>8. WalkInv'
  <2>1. CASE c = "main"
    <3>1. pc["kbd"] = "idle" /\ pp["main"] = QHead
      BY <1>1, <2>1 DEF Runs, Interruptible, IInv, WalkInv
    <3>2. idequeue = nil
      BY <1>1, <2>1, <3>1 DEF IInv, QueueInv, Pending
    <3> QED
      BY <1>1, <2>1, <3>1, <3>2 DEF IInv, WalkInv, Deref, Interruptible, TypeOK, Ctx
  <2>2. CASE c = "kbd"
    <3>1. idequeue \in {nil, "main"} /\ qnext["main"] = nil
      BY <1>1, <2>2 DEF IInv, QueueInv, Pending
    <3> QED
      BY <1>1, <2>2, <3>1 DEF IInv, WalkInv, Deref, Interruptible, TypeOK, Ctx
  <2> QED
    BY <2>1, <2>2 DEF Ctx
<1> QED
  BY <1>3, <1>5, <1>6, <1>7, <1>8 DEF IInv

LEMMA LinkIInv ==
  ASSUME IInv, NEW c \in Ctx, link(c)
  PROVE  IInv'
<1>1. /\ pc[c] = "link" /\ Runs(c) /\ pc' = [pc EXCEPT ![c] = "kick"]
      /\ UNCHANGED <<flags, blockno, data, pp, dev, irq14, disk>>
      /\ IF pp[c] = QHead THEN idequeue' = c /\ UNCHANGED qnext
         ELSE qnext' = [qnext EXCEPT ![pp[c]] = c] /\ UNCHANGED idequeue
  BY DEF link
<1>2. TypeOK'
  BY <1>1 DEF IInv, TypeOK
<1>3. flags[c] # {B_VALID}
  BY <1>1 DEF IInv, WalkInv, Ctx, B_VALID, B_DIRTY
<1>4. CASE c = "main"
  <2>1. pc["kbd"] = "idle" /\ pp["main"] = QHead /\ idequeue = nil /\ qnext["main"] = nil
    BY <1>1, <1>4 DEF Runs, Interruptible, IInv, WalkInv, QueueInv, Pending
  <2>2. /\ idequeue' = "main" /\ qnext' = qnext
        /\ pc'["main"] = "kick" /\ pc'["kbd"] = "idle"
    BY <1>1, <1>4, <2>1 DEF IInv, TypeOK, Ctx
  <2>3. QueueInv'
    BY <1>1, <1>3, <1>4, <2>1, <2>2 DEF IInv, QueueInv, Pending
  <2>4. WalkInv'
    BY <1>1, <1>3, <1>4, <2>2 DEF WalkInv
  <2>5. DevInv'
    BY <1>1, <2>1 DEF IInv, DevInv
  <2>6. SyncInv'
    BY <1>1, <2>1, <2>2 DEF IInv, SyncInv, Served, Interruptible
  <2> QED
    BY <1>2, <2>3, <2>4, <2>5, <2>6 DEF IInv
<1>5. CASE c = "kbd"
  <2>1. /\ pc'["kbd"] = "kick" /\ pc'["main"] = pc["main"]
    BY <1>1, <1>5 DEF IInv, TypeOK, Ctx
  <2>2. \/ /\ pp["kbd"] = QHead /\ idequeue = nil /\ idequeue' = "kbd" /\ qnext' = qnext
        \/ /\ pp["kbd"] = "main" /\ idequeue = "main" /\ qnext["main"] = nil /\ idequeue' = idequeue
           /\ qnext'["main"] = "kbd" /\ qnext'["kbd"] = nil
    BY <1>1, <1>5 DEF IInv, WalkInv, QueueInv, Deref, QHead, TypeOK, Ctx
  <2>3. QueueInv'
    <3>1. Pending("kbd")' /\ ~Pending("kbd") /\ (Pending("main")' <=> Pending("main"))
      BY <1>1, <1>3, <1>5, <2>1 DEF Pending
    <3>2. nil # "main" /\ nil # "kbd"
      BY IdeAssumption DEF Ctx
    <3> QED
      BY <2>2, <3>1, <3>2 DEF IInv, QueueInv
  <2>4. WalkInv'
    BY <1>1, <1>5, <2>1 DEF IInv, WalkInv, Interruptible
  <2>5. DevInv'
    BY <1>1, <2>1, <2>2 DEF IInv, DevInv
  <2>6. SyncInv'
    BY <2>1 DEF SyncInv, Interruptible
  <2> QED
    BY <1>2, <2>3, <2>4, <2>5, <2>6 DEF IInv
<1> QED
  BY <1>4, <1>5 DEF Ctx
LEMMA KickIInv ==
  ASSUME IInv, NEW c \in Ctx, kick(c)
  PROVE  IInv'
<1>1. /\ pc[c] = "kick" /\ Runs(c) /\ pc' = [pc EXCEPT ![c] = "wait"]
      /\ UNCHANGED <<flags, blockno, data, qnext, idequeue, pp, irq14, disk>>
      /\ IF idequeue = c THEN idestart(c) ELSE UNCHANGED dev
  BY DEF kick, buf
<1>2. \A d \in Ctx : pc'[d] = IF d = c THEN "wait" ELSE pc[d]
  BY <1>1 DEF IInv, TypeOK
<1>3. TypeOK'
  BY <1>1 DEF IInv, TypeOK
<1>4. QueueInv'
  BY <1>1, <1>2 DEF IInv, QueueInv, Pending, Ctx
<1>5. WalkInv'
  BY <1>1, <1>2 DEF IInv, WalkInv, Deref, Interruptible, Ctx
<1>6. ASSUME idequeue = c
      PROVE  /\ ~irq14 /\ dev' \in Devs /\ dev'.busy /\ dev'.blockno = blockno[c]
             /\ dev'.write = (B_DIRTY \in flags[c])
             /\ dev'.write => dev'.sector = data[c]
  <2>1. /\ dev \in Devs /\ (irq14 => pc[idequeue] = "wait")
        /\ blockno[c] \in Blocks /\ data[c] \in Data
    BY DEF IInv, DevInv, TypeOK
  <2>2. dev' = [busy |-> TRUE, write |-> B_DIRTY \in flags[c], blockno |-> blockno[c],
                sector |-> IF B_DIRTY \in flags[c] THEN data[c] ELSE dev.sector, err |-> FALSE]
    BY <1>1, <1>6 DEF idestart
  <2>3. dev.sector \in Data /\ (B_DIRTY \in flags[c]) \in BOOLEAN
    BY <2>1 DEF Devs
  <2>4. dev' \in Devs
    BY <2>1, <2>2, <2>3 DEF Devs
  <2> QED
    BY <1>1, <1>6, <2>1, <2>2, <2>4
<1>7. DevInv'
  <2>1. CASE idequeue = c
    BY <1>1, <1>2, <1>6, <2>1, IdeAssumption DEF DevInv
  <2>2. CASE idequeue # c
    BY <1>1, <1>2, <2>2 DEF IInv, DevInv, TypeOK
  <2> QED
    BY <2>1, <2>2
<1>8. SyncInv'
  <2>1. CASE c = "kbd"
    BY <1>2, <2>1 DEF SyncInv, Interruptible
  <2>2. CASE c = "main"
    <3>1. flags["main"] # {B_VALID} /\ idequeue = "main"
      BY <1>1, <2>2 DEF IInv, WalkInv, QueueInv, Pending
    <3>2. ~Served'
      BY <1>1, <1>2, <2>2, <3>1 DEF Served
    <3> QED
      BY <1>1, <1>6, <2>2, <3>1, <3>2 DEF SyncInv
  <2> QED
    BY <2>1, <2>2 DEF Ctx
<1> QED
  BY <1>3, <1>4, <1>5, <1>7, <1>8 DEF IInv

\* iderw returns to the kernel thread only: B_DIRTY stays set for the
\* keyboard handler, which has turned off the interrupt that would clear it.
LEMMA ReturnIInv ==
  ASSUME IInv, NEW c \in Ctx, return(c)
  PROVE  IInv'
<1>1. /\ pc[c] = "wait" /\ flags[c] = {B_VALID} /\ pc' = [pc EXCEPT ![c] = "idle"]
      /\ UNCHANGED <<flags, blockno, data, qnext, idequeue, pp, dev, irq14, disk>>
  BY DEF return, buf
<1>2. c = "main"
  BY <1>1 DEF IInv, WalkInv, Ctx, B_VALID, B_DIRTY
<1>3. pc'["main"] = "idle" /\ pc'["kbd"] = pc["kbd"] /\ TypeOK'
  BY <1>1, <1>2 DEF IInv, TypeOK, Ctx
<1>4. QueueInv'
  BY <1>1, <1>2, <1>3 DEF IInv, QueueInv, Pending
<1>5. WalkInv'
  BY <1>1, <1>2, <1>3 DEF IInv, WalkInv, Deref, Interruptible
<1>6. DevInv'
  <2>1. idequeue # "main"
    BY <1>1, <1>2, IdeAssumption DEF IInv, QueueInv, Pending, Ctx
  <2> QED
    BY <1>1, <1>2, <1>3, <2>1 DEF IInv, DevInv, TypeOK, Ctx
<1>7. SyncInv'
  BY <1>1, <1>2, <1>3 DEF IInv, SyncInv, Served, Interruptible
<1> QED
  BY <1>3, <1>4, <1>5, <1>6, <1>7 DEF IInv

\* A request of the kernel thread, to read or to write, finds the queue empty
\* and the controller idle.
LEMMA MainEnters ==
  ASSUME IInv, Interruptible, pc["main"] = "idle", Enter("main"),
         NEW n \in Blocks, NEW d \in Data, NEW f \in SUBSET {B_VALID, B_DIRTY}, f # {B_VALID},
         flags' = [flags EXCEPT !["main"] = f],
         blockno' = [blockno EXCEPT !["main"] = n],
         data' = [data EXCEPT !["main"] = d],
         UNCHANGED <<idequeue, dev, irq14, disk>>
  PROVE  IInv'
<1>1. idequeue = nil /\ qnext["main"] = nil /\ qnext["kbd"] = nil /\ pc["kbd"] = "idle"
  BY DEF IInv, QueueInv, Pending, Interruptible
<1>2. ~dev.busy /\ ~irq14 /\ dev \in Devs
  BY <1>1 DEF IInv, DevInv
<1>3. /\ pc'["main"] = "walk" /\ pc'["kbd"] = "idle" /\ pp'["main"] = QHead
      /\ flags'["main"] = f /\ qnext'["main"] = nil /\ qnext'["kbd"] = nil
  BY <1>1 DEF Enter, IInv, TypeOK, Ctx
<1>4. TypeOK'
  BY DEF Enter, IInv, TypeOK, Ctx
<1>5. QueueInv'
  BY <1>1, <1>3 DEF QueueInv, Pending
<1>6. WalkInv'
  BY <1>3 DEF WalkInv
<1>7. DevInv'
  BY <1>2 DEF DevInv
<1>8. SyncInv'
  BY <1>2, <1>3 DEF SyncInv, Served
<1> QED
  BY <1>4, <1>5, <1>6, <1>7, <1>8 DEF IInv

LEMMA BreadIInv ==
  ASSUME IInv, NEW n \in Blocks, bread(n)
  PROVE  IInv'
<1>1. /\ Interruptible /\ pc["main"] = "idle" /\ Enter("main")
      /\ flags' = [flags EXCEPT !["main"] = {}]
      /\ blockno' = [blockno EXCEPT !["main"] = n]
      /\ UNCHANGED <<data, idequeue, dev, irq14, disk>>
  BY DEF bread, Runs
<1>2. data["main"] \in Data /\ data' = [data EXCEPT !["main"] = data["main"]]
  BY <1>1 DEF IInv, TypeOK, Ctx
<1>3. {} \in SUBSET {B_VALID, B_DIRTY} /\ {} # {B_VALID}
  OBVIOUS
<1> QED
  BY <1>1, <1>2, <1>3, MainEnters

LEMMA BwriteIInv ==
  ASSUME IInv, NEW d \in Data, bwrite(d)
  PROVE  IInv'
<1>1. /\ Interruptible /\ pc["main"] = "idle" /\ Enter("main")
      /\ flags' = [flags EXCEPT !["main"] = flags["main"] \cup {B_DIRTY}]
      /\ data' = [data EXCEPT !["main"] = d]
      /\ UNCHANGED <<blockno, idequeue, dev, irq14, disk>>
  BY DEF bwrite, Runs
<1>2. blockno["main"] \in Blocks /\ blockno' = [blockno EXCEPT !["main"] = blockno["main"]]
  BY <1>1 DEF IInv, TypeOK, Ctx
<1>3. PICK f \in SUBSET {B_VALID, B_DIRTY} :
        f # {B_VALID} /\ flags' = [flags EXCEPT !["main"] = f]
  <2>1. /\ flags["main"] \cup {B_DIRTY} \in SUBSET {B_VALID, B_DIRTY}
        /\ flags["main"] \cup {B_DIRTY} # {B_VALID}
    BY DEF IInv, TypeOK, Ctx, B_VALID, B_DIRTY
  <2> QED
    BY <1>1, <2>1, Zenon
<1> QED
  BY <1>1, <1>2, <1>3, MainEnters

\* The keyboard's command interrupts the kernel thread wherever it is.
LEMMA UserInputIInv ==
  ASSUME IInv, NEW cmd \in Typed, user_input(cmd)
  PROVE  IInv'
<1>1. PICK d \in Data : data' = [data EXCEPT !["kbd"] = d]
  BY IdeAssumption DEF user_input
<1>2. /\ pc["kbd"] = "idle" /\ UNCHANGED <<idequeue, dev, irq14, disk>>
      /\ flags' = [flags EXCEPT !["kbd"] = {B_DIRTY}]
      /\ blockno' = [blockno EXCEPT !["kbd"] = Super]
      /\ Enter("kbd")
  BY DEF user_input, Interruptible
<1>3. /\ flags'["kbd"] = {B_DIRTY} /\ pc'["kbd"] = "walk" /\ pp'["kbd"] = QHead /\ qnext'["kbd"] = nil
      /\ flags'["main"] = flags["main"] /\ blockno'["main"] = blockno["main"]
      /\ pc'["main"] = pc["main"] /\ pp'["main"] = pp["main"] /\ qnext'["main"] = qnext["main"]
  BY <1>2 DEF Enter, IInv, TypeOK, Ctx
<1>4. TypeOK'
  BY <1>1, <1>2, IdeAssumption DEF Enter, IInv, TypeOK, Ctx
<1>5. QueueInv'
  BY <1>2, <1>3 DEF IInv, QueueInv, Pending
<1>6. WalkInv'
  <2>1. flags'["main"] = {B_VALID} => flags["main"] = {B_VALID}
    BY <1>3
  <2> QED
    BY <1>3, <2>1 DEF IInv, WalkInv, Interruptible
<1>7. DevInv'
  <2>1. idequeue # "kbd"
    BY <1>2, IdeAssumption DEF IInv, QueueInv, Pending, Ctx
  <2> QED
    BY <1>2, <1>3, <2>1 DEF IInv, DevInv, TypeOK, Ctx
<1>8. SyncInv'
  BY <1>3 DEF SyncInv, Interruptible
<1> QED
  BY <1>4, <1>5, <1>6, <1>7, <1>8 DEF IInv

LEMMA NextIInv ==
  ASSUME IInv, [Next]_vars
  PROVE  IInv'
<1>1. ASSUME NEW c \in Ctx, Steps(c) PROVE IInv'
  BY <1>1, WalkIInv, LinkIInv, KickIInv, ReturnIInv DEF Steps
<1>2. CASE UNCHANGED vars
  <2>1. UNCHANGED <<flags, blockno, data, qnext, idequeue, pc, pp, dev, irq14, disk>>
    BY <1>2 DEF vars, buf
  <2> QED
    BY <2>1 DEF IInv, TypeOK, QueueInv, WalkInv, DevInv, SyncInv, Served, Pending, Deref, Interruptible
<1> QED
  BY <1>1, <1>2, BreadIInv, BwriteIInv, UserInputIInv, CompleteIInv, IdeintIInv DEF Next

-----------------------------------------------------------------------------
(***************************************************************************)
(* The theorems.                                                           *)
(***************************************************************************)

\* The inductive invariant of the driver: the pointers of the queue, the
\* places of the two callers in iderw, the command of the controller and the
\* contents on their way to or from the disk fit together in every reachable
\* state.
THEOREM Invariance == Spec => []IInv
<1>1. Init => IInv
  BY InitIInv
<1>2. IInv /\ [Next]_vars => IInv'
  BY NextIInv
<1> QED
  BY <1>1, <1>2, PTL DEF Spec

\* The queue of iderw holds exactly the linked and unserved requests, each
\* once, wherever the keyboard's handler interrupts the walk of the kernel
\* thread.
THEOREM QueueIsExact == Spec => []QueueExact
<1>1. IInv => QueueExact
  <2>1. SUFFICES ASSUME IInv PROVE QueueExact
    OBVIOUS
  <2>2. nil # "main" /\ nil # "kbd"
    BY IdeAssumption DEF Ctx
  <2>3. \A c \in Ctx : Pending(c) <=> \E i \in DOMAIN Queue : Queue[i] = c
    <3>1. CASE idequeue = nil
      BY <2>1, <2>2, <3>1 DEF IInv, QueueInv, Queue, Ctx
    <3>2. CASE idequeue \in Ctx /\ qnext[idequeue] = nil
      <4>1. Queue = <<idequeue>> /\ DOMAIN Queue = {1} /\ Queue[1] = idequeue
        BY <2>2, <3>2 DEF Queue, Ctx
      <4> QED
        BY <2>1, <2>2, <3>2, <4>1 DEF IInv, QueueInv, Ctx
    <3>3. CASE idequeue = "main" /\ qnext["main"] = "kbd"
      <4>1. DOMAIN Queue = {1, 2} /\ Queue[1] = "main" /\ Queue[2] = "kbd"
        BY <2>2, <3>3 DEF Queue
      <4> QED
        BY <2>1, <2>2, <3>3, <4>1 DEF IInv, QueueInv, Ctx
    <3> QED
      BY <2>1, <3>1, <3>2, <3>3 DEF IInv, QueueInv, Ctx
  <2>4. Len(Queue) = 2 => Queue[1] # Queue[2] /\ qnext[Queue[2]] = nil
    <3>1. CASE idequeue = nil
      BY <3>1 DEF Queue
    <3>2. CASE idequeue \in Ctx /\ qnext[idequeue] = nil
      BY <2>2, <3>2 DEF Queue, Ctx
    <3>3. CASE idequeue = "main" /\ qnext["main"] = "kbd"
      BY <2>1, <2>2, <3>3 DEF Queue, IInv, QueueInv
    <3> QED
      BY <2>1, <3>1, <3>2, <3>3 DEF IInv, QueueInv, Ctx
  <2> QED
    BY <2>1, <2>3, <2>4 DEF QueueExact, IInv
<1> QED
  BY <1>1, Invariance, PTL

\* The command that idestart gave to the disk, until ideint_callback has
\* handled its interrupt, is that of the first buffer of the queue.
THEOREM ServesHead == Spec => []DeviceServesHead
<1>1. IInv => DeviceServesHead
  BY DEF IInv, DevInv, DeviceServesHead
<1> QED
  BY <1>1, Invariance, PTL

\* When iderw has returned to bread or bwrite, the buffer and the block of
\* the disk agree, unless the disk could not read it or the keyboard's
\* command is writing.
THEOREM InSync == Spec => []ReturnsInSync
<1>1. IInv => ReturnsInSync
  BY DEF IInv, SyncInv, Served, ReturnsInSync
<1> QED
  BY <1>1, Invariance, PTL
===============================================================================
