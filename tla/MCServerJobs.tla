---------------------------- MODULE MCServerJobs ----------------------------
(* Instances of ServerJobs for TLC; no symmetry set, the run checks        *)
(* liveness.                                                               *)
EXTENDS ServerJobs, TLC
=============================================================================
