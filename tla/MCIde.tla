-------------------------------- MODULE MCIde --------------------------------
(***************************************************************************)
(* Ide with the superblock, one other block and two contents.              *)
(***************************************************************************)
EXTENDS Ide
===============================================================================
