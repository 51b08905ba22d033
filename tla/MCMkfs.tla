-------------------------------- MODULE MCMkfs --------------------------------
(***************************************************************************)
(* Up to three files of up to MaxLen cells.  Blocks of three cells, one    *)
(* direct slot and an indirect block of two entries: one file makes the    *)
(* root directory exactly full, two take it into the indirect block, and   *)
(* the longest file is too long.                                           *)
(***************************************************************************)
EXTENDS Mkfs

NameOf(i) == <<"x", "y", "z">>[i]
===============================================================================
