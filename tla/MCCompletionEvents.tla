------------------------- MODULE MCCompletionEvents --------------------------
(* Two tool calls with up to two events each, of sizes one and two, and a   *)
(* budget of two events and three bytes: both budgets are met, and an event *)
(* too large can be followed by one that fits.                              *)
EXTENDS CompletionEvents

(* The bounds of the model.                                                 *)
MCSizes == {1, 2}
=============================================================================
