----------------------------- MODULE MCNewAlbums -----------------------------
(* An instance of NewAlbums: two IDs that share an album. *)
EXTENDS NewAlbums, TLC
CONSTANTS r1, r2, a1, a2
MCReleased == r1 :> {a1, a2} @@ r2 :> {a2}
Symmetry == Permutations(Call)
=============================================================================
