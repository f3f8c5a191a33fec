---------------------------- MODULE MCDevClient ----------------------------
(* Instances of DevClient for TLC.                                         *)
EXTENDS DevRefinement

OneType == {"CHANGED"}
TwoTypes == {"ADDED", "CHANGED"}
=============================================================================
