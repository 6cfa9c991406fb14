------------------------------ MODULE MCServer ------------------------------
(* The instance of Server for TLC: the second request announces nothing.   *)
EXTENDS Server, TLC

CONSTANTS c1, c2

MCJobsOf == c1 :> Jobs @@ c2 :> {}
=============================================================================
