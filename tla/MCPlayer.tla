------------------------------ MODULE MCPlayer ------------------------------
(* Model-checking instance of Player. *)
EXTENDS Player, TLC
CONSTANTS a, b
SongSet == {a, b}
AlbumSet == {<<a, b>>}
SavedSet == {[songs |-> <<b, a>>, index |-> 1]}
=============================================================================
