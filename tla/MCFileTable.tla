----------------------------- MODULE MCFileTable ------------------------------
(***************************************************************************)
(* FileTable with paths that name the root, a file, a file through ".",    *)
(* something below a file, and files that open and mknod can create.       *)
(***************************************************************************)
EXTENDS FileTable

Path(abs, elems) == [abs |-> abs, elems |-> elems]

MCImage == <<"f">>

MCPaths ==
  {Path(TRUE, << >>), Path(FALSE, <<"f">>), Path(FALSE, <<".", "g">>),
   Path(TRUE, <<"h">>)}

NoImage == << >>

FewPaths == {Path(FALSE, << >>), Path(TRUE, <<"g">>), Path(FALSE, <<"g", ".">>)}

AllModes == {O_RDONLY, {O_WRONLY}, {O_RDWR}, {O_RDWR, O_CREATE}}

FewModes == {O_RDONLY, {O_RDWR, O_CREATE}}
===============================================================================
