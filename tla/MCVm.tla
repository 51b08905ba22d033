-------------------------------- MODULE MCVm ---------------------------------
(***************************************************************************)
(* Vm with pages of two bytes, tables of two entries and so few pages that *)
(* every kalloc of exec can be the one that fails, for some program.       *)
(***************************************************************************)
EXTENDS Vm
===============================================================================
