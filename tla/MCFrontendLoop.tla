--------------------------- MODULE MCFrontendLoop ---------------------------
(* Small instances of FrontendLoop: a control, a watchpoint.                 *)
EXTENDS FrontendLoop

CONSTANTS w1

OneControl == <<[name |-> "coin", id |-> 7]>>
=============================================================================
