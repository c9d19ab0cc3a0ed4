------------------------------ MODULE MCStores ------------------------------
(***************************************************************************)
(* Model-checking instance of the stores behind the routes.  They do not   *)
(* share any state, so that one of them is run in each behaviour.          *)
(***************************************************************************)
EXTENDS Lyrics, Scores, Playlists, ExternalLinks, TLC
CONSTANTS s1, n1
VARIABLE store

(* The initial states of one store, the others as a new installation has them. *)
Init ==
  /\ store \in {"lyrics", "scores", "playlists", "links"}
  /\ LyricsInit
  /\ store # "lyrics" => row = NoLyrics /\ ~marked
  /\ ScoresInit
  /\ \A e, f \in Entity : scores[e].score = scores[f].score
  /\ store # "scores" => \A e \in Entity : scores[e].score = s1
  /\ LinksInit
  /\ store # "links" => kind = "artist" /\ id = NoId /\ links = NoLinks
  /\ PlaylistsInit
  /\ store # "playlists" => \A r \in Saver : wish[r] = [name |-> n1, songs |-> NoSongs]

Next ==
  /\ UNCHANGED store
  /\ \/ store = "lyrics" /\ LyricsNext /\ UNCHANGED <<scoresVars, playlistsVars, linksVars>>
     \/ store = "scores" /\ ScoresNext /\ UNCHANGED <<lyricsVars, playlistsVars, linksVars>>
     \/ store = "playlists" /\ PlaylistsNext /\ UNCHANGED <<lyricsVars, scoresVars, linksVars>>
     \/ store = "links" /\ LinksNext /\ UNCHANGED <<lyricsVars, scoresVars, playlistsVars>>
=============================================================================
