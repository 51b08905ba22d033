-------------------------------- MODULE MCBio --------------------------------
(***************************************************************************)
(* Bio on a small instance: fewer buffers than blocks, so that buffers are *)
(* recycled, and two handles at once, the most that fs.c holds (bmap with  *)
(* the indirect block across balloc, itrunc across bfree).                 *)
(***************************************************************************)
EXTENDS Bio
===============================================================================
