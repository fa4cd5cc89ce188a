------------------------------ MODULE MCLogger ------------------------------
(***************************************************************************)
(* Logger with a pipe that holds three bytes, lines of one and two bytes   *)
(* and a truncated line of three: every third line or so must wait for the *)
(* window.                                                                 *)
(***************************************************************************)
EXTENDS Logger
=============================================================================
