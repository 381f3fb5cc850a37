------------------------------ MODULE NoValue ------------------------------
(***************************************************************************)
(* A null pointer, an empty Option, a cell nothing was written to.         *)
(***************************************************************************)
CONSTANT None       \* differs from every other value
=============================================================================
