----------------------------- MODULE MCFuncTool -----------------------------
(* Instances of FuncTool for TLC.                                          *)
EXTENDS FuncTool

OneKind == {"on"}
TwoKinds == {"on", "query"}
=============================================================================
