-------------------------- MODULE MCUserPipeline ---------------------------
(* Values for the constants of UserPipeline, for TLC. *)
EXTENDS UserPipeline
=============================================================================
