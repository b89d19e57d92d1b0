------------------------------- MODULE MCRemote -------------------------------
(***************************************************************************)
(* A small instance of Remote for TLC.                                     *)
(***************************************************************************)
EXTENDS Remote

CONSTANTS u1, u2, call1, call2
=============================================================================
