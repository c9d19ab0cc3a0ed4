---------------------------- MODULE MCLastAlbums ----------------------------
(* Model-checking instance of LastAlbums. *)
EXTENDS LastAlbums, TLC

Symmetry == Permutations(Album) \cup Permutations(Updater) \cup Permutations(Dequeuer)
=============================================================================
