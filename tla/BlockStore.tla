------------------------------ MODULE BlockStore ------------------------------
(***************************************************************************)
(* What the buffer cache of fs/bio.c promises the file system: every block *)
(* of the disk has one current content, bread hands out a handle through   *)
(* which the caller sees that content, bwrite through a handle replaces it *)
(* on the disk and in every other handle on the same block, and brelse     *)
(* gives the latest handle back.  There are no buffers, no recycling and   *)
(* no flags here, and a bread always succeeds.                             *)
(***************************************************************************)
EXTENDS Integers, Sequences

CONSTANTS Blocks,    \* the blocks of the file system's disk
          Data,      \* the contents a block can have
          MaxHeld    \* the number of handles the callers hold at once

VARIABLES store,     \* store[n]: the content of block n
          open,      \* the blocks of the handles in use, oldest first
          view       \* view[i]: the content seen through handle open[i]

vars == <<store, open, view>>

Init ==
  /\ store \in [Blocks -> Data]
  /\ open = << >>
  /\ view = << >>

Read(n) ==
  /\ Len(open) < MaxHeld
  /\ open' = Append(open, n)
  /\ view' = Append(view, store[n])
  /\ UNCHANGED store

Write(i, d) ==
  /\ store' = [store EXCEPT ![open[i]] = d]
  /\ view' = [j \in DOMAIN open |-> IF open[j] = open[i] THEN d ELSE view[j]]
  /\ UNCHANGED open

Release ==
  /\ open # << >>
  /\ open' = SubSeq(open, 1, Len(open) - 1)
  /\ view' = SubSeq(view, 1, Len(open) - 1)
  /\ UNCHANGED store

Next ==
  \/ \E n \in Blocks : Read(n)
  \/ \E i \in DOMAIN open, d \in Data : Write(i, d)
  \/ Release

Spec == Init /\ [][Next]_vars
===============================================================================
