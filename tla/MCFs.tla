-------------------------------- MODULE MCFs ---------------------------------
(***************************************************************************)
(* Fs on small instances.  One direct slot and a one-entry indirect block  *)
(* make a file of two blocks reach every branch of bmap; blocks of two     *)
(* cells make writes start and end inside a block.  Cells are copied and   *)
(* never looked into, so that one value can stand for another.             *)
(***************************************************************************)
EXTENDS Fs, TLC

Symmetry == Permutations(Bytes)
===============================================================================
