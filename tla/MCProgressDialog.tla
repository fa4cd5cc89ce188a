-------------------------- MODULE MCProgressDialog --------------------------
(***************************************************************************)
(* ProgressDialog with three calls in a row: the second meets a worker     *)
(* that the first gave up on, the third what is left of both.              *)
(***************************************************************************)
EXTENDS ProgressDialog
=============================================================================
