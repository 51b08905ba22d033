-------------------------------- MODULE MCTrap --------------------------------
(***************************************************************************)
(* A process of two or six bytes below a kernel at 6, words modulo 12,     *)
(* ints of two bytes: six bytes hold three of them, the return address and *)
(* two arguments.  The calls are an unknown one, exec, mknod, write and    *)
(* fstat, which between them fetch every kind of argument.                 *)
(***************************************************************************)
EXTENDS Trap
===============================================================================
