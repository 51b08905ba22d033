-------------------------------- MODULE MCBoot --------------------------------
(***************************************************************************)
(* Kernels of up to two program headers in a memory of seven sectors of    *)
(* two bytes: segments that begin and end inside a sector, with and        *)
(* without bytes to clear, and headers of size zero.                       *)
(***************************************************************************)
EXTENDS Boot

Headers == [paddr : {0} \cup 4 .. 11, filesz : 0 .. 3, memsz : 0 .. 4, off : {0} \cup 4 .. 7]

SmallImages == {s \in UNION {[1 .. n -> Headers] : n \in 1 .. 2} : Linked(s)}
===============================================================================
