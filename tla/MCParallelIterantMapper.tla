---------------------- MODULE MCParallelIterantMapper -----------------------
(* Model-checking instance of ParallelIterantMapper. *)
EXTENDS ParallelIterantMapper, TLC
=============================================================================
