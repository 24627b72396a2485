--------------------------- MODULE CompletionActors ---------------------------
(* Who takes part in completions.                                           *)
CONSTANTS
  Callers,       (* the runs, one for each request of a client              *)
  Users          (* the users who send the requests                         *)
=============================================================================
