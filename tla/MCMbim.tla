------------------------------- MODULE MCMbim -------------------------------
(***************************************************************************)
(* Instances of Mbim for TLC.                                              *)
(***************************************************************************)
EXTENDS Mbim
=============================================================================
