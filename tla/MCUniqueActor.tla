--------------------------- MODULE MCUniqueActor ----------------------------
(* Model-checking instance of UniqueActor. *)
EXTENDS UniqueActor, TLC

Symmetry == Permutations(Call) \cup Permutations(Msg)
=============================================================================
