------------------------------- MODULE Parts --------------------------------
(***************************************************************************)
(* What MCPatch and MCResources share, so that MCIncremental can put them  *)
(* side by side: a behaviour is of one component, and the variables of the *)
(* others rest.                                                            *)
(***************************************************************************)
CONSTANT None  \* the value of a variable that rests, and of what there is none of
VARIABLE part  \* the component whose behaviour this is
=============================================================================
