----------------------------- MODULE MCSongIndex -----------------------------
(* Model-checking instance of SongIndex. *)
EXTENDS SongIndex, TLC

Symmetry == Permutations(File) \cup Permutations(Call \ Forced)
=============================================================================
