------------------------------ MODULE Threading ------------------------------
(***************************************************************************)
(* What the models of code that several threads run share.                 *)
(***************************************************************************)

CONSTANTS
  Threads,   (* The threads that work with rings and domains.              *)
  None       (* A null pointer, an empty optional, nothing installed.      *)
=============================================================================
