------------------------------ MODULE MCConsole -------------------------------
(***************************************************************************)
(* Console on a screen of two rows of two cells, with registers of three   *)
(* values: as on the machine the registers can hold positions behind the   *)
(* screen, and neighbouring cells may differ in both registers.            *)
(***************************************************************************)
EXTENDS Console

MCCLS == << <<"k", TRUE>> >>
MCPAGE == << <<"j", FALSE>> >>
MCEND == << <<"j", TRUE>> >>
MCChars == {Word, NL, BS}
MCMessages == {<<Word, NL>>}
===============================================================================
