---------------------------- MODULE MCFuncClient ----------------------------
(* Instances of FuncClient for TLC.                                        *)
EXTENDS FuncClient

TwoKinds == {"SvcAvailable", "QuerySwitchStatus"}
=============================================================================
