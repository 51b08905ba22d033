------------------------------ MODULE FileStore ------------------------------
(***************************************************************************)
(* What the disk promises across crashes: files are sequences of cells, a  *)
(* write request overwrites existing cells in order and makes the file     *)
(* longer in one step, the last one, when every cell of the request is in  *)
(* place.  A crash ends a request wherever it is; it never leaves a file   *)
(* longer than what was written, nor touches another file.  On a full disk *)
(* cells of a request may be lost.  All of this ends when the store breaks *)
(* and any file may be damaged; it never breaks while there is space and   *)
(* another file can be made.  There are no blocks, no bitmap and no memory *)
(* copies here.                                                            *)
(***************************************************************************)
EXTENDS Integers, Sequences

CONSTANTS Inums, Cell, NoFile, NoReq, Lost

VARIABLES file,   \* file[i]: the cells of file i, or NoFile
          req,    \* the write in progress: [ino, off, cells], or NoReq
          full,   \* no space is left
          broken  \* nothing is promised any more

vars == <<file, req, full, broken>>

\* The first k cells of the request are in place, but the file keeps its size.
Overwritten(f, r, k) ==
  [j \in 1..Len(f) |-> IF j \in r.off + 1 .. r.off + k THEN r.cells[j - r.off] ELSE f[j]]

\* The file once the whole request is in place.
Patched(f, r) ==
  LET end == r.off + Len(r.cells)
  IN [j \in 1..(IF end > Len(f) THEN end ELSE Len(f)) |->
        IF j \in r.off + 1 .. end THEN r.cells[j - r.off] ELSE f[j]]

Init ==
  /\ file \in [Inums -> {NoFile} \cup Seq(Cell)]
  /\ req = NoReq
  /\ full \in BOOLEAN
  /\ ~broken

\* The file of the request becomes f, but on a full disk cells may be lost.
Store(f) ==
  LET g == file'[req.ino]
  IN /\ file' = [file EXCEPT ![req.ino] = g]
     /\ Len(g) = Len(f)
     /\ \A j \in 1..Len(f) :
          \/ g[j] = f[j]
          \/ full /\ g[j] = Lost /\ j \in req.off + 1 .. req.off + Len(req.cells)

Make(i) ==
  /\ file[i] = NoFile
  /\ file' = [file EXCEPT ![i] = << >>]
  /\ UNCHANGED req

\* A request starts: it leaves no gap behind the end of the file.
Begin(i) ==
  /\ req = NoReq
  /\ file[i] # NoFile
  /\ req' # NoReq
  /\ req'.ino = i
  /\ req'.off \in 0..Len(file[i])
  /\ UNCHANGED file

Progress(k) ==
  /\ Store(Overwritten(file[req.ino], req, k))
  /\ UNCHANGED req

Finish ==
  /\ Store(Patched(file[req.ino], req))
  /\ req' = NoReq

Crash == req' = NoReq /\ UNCHANGED file

\* Space runs out for good: nothing is ever freed.
Step ==
  /\ full => full'
  /\ \/ \E i \in Inums : Make(i) \/ Begin(i)
     \/ UNCHANGED <<file, req>>
     \/ /\ req # NoReq
        /\ Finish \/ Crash \/ \E k \in 1..Len(req.cells) : Progress(k)

\* The store breaks, or is broken: the files may be anything.
Break ==
  /\ broken \/ full \/ \A i \in Inums : file[i] # NoFile
  /\ broken'

Next ==
  \/ ~broken /\ ~broken' /\ Step
  \/ Break

Spec == Init /\ [][Next]_vars
===============================================================================
