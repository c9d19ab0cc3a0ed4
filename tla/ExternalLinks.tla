---------------------------- MODULE ExternalLinks ---------------------------
(***************************************************************************)
(* backend/external for one entity, an artist or an album: the links that  *)
(* RefreshableRetriever keeps for a year, and the ID that ReconcilerCacher *)
(* found for the entity once and that the links were fetched for.  The     *)
(* user may have the links fetched anew, or correct the ID.  Each          *)
(* statement on a row is a step of its own, between those of the others.   *)
(***************************************************************************)
CONSTANTS
  Id,          \* IDs the entity may have at MusicBrainz
  NoId,        \* no row: nothing was looked for
  NullId,      \* a row without ID: nothing was found
  NoLinks,     \* no row of links
  Viewer,      \* requests for the links
  Refresher,   \* requests that delete the links first
  Corrector    \* requests that change the ID

ASSUME LinksAssumption ==
  /\ NoId \notin Id /\ NullId \notin Id /\ NoId # NullId
  /\ NoLinks \notin [of : Id, fresh : BOOLEAN]
  /\ Corrector \cap (Viewer \cup Refresher) = {}

VARIABLES
  kind,        \* whether the entity is an artist or an album
  id,          \* the row of its ID
  links,       \* the row of its links: what ID they are of, whether they are fresh
  linkPc,      \* where each request stands
  holds,       \* the ID that a request has read or found
  overlapped   \* history: an ID was held while it was being corrected

linksVars == <<kind, id, links, linkPc, holds, overlapped>>

LinksRequest == Viewer \cup Refresher \cup Corrector
Links == [of : Id, fresh : BOOLEAN]
Step == {"idle", "deleting", "correcting", "checking", "loading", "reconciling", "searching",
         "found", "fetching", "storing", "falling back", "dating", "done", "failed"}

LinksTypeOK ==
  /\ kind \in {"artist", "album"}
  /\ id \in Id \cup {NoId, NullId}
  /\ links \in Links \cup {NoLinks}
  /\ linkPc \in [LinksRequest -> Step]
  /\ holds \in [LinksRequest -> Id \cup {NoId, NullId}]
  /\ overlapped \in BOOLEAN

LinksInit ==
  /\ kind \in {"artist", "album"}
  /\ id \in Id \cup {NoId, NullId}
  /\ \/ links = NoLinks
     \/ id \in Id /\ \E f \in BOOLEAN : links = [of |-> id, fresh |-> f]
  /\ linkPc = [r \in LinksRequest |-> "idle"]
  /\ holds = [r \in LinksRequest |-> NoId]
  /\ overlapped = FALSE

LinkGoes(r, from, to) == linkPc[r] = from /\ linkPc' = [linkPc EXCEPT ![r] = to]

-----------------------------------------------------------------------------
(* RefreshableRetriever.apply *)
View(r) ==
  /\ LinkGoes(r, "idle", "checking")
  /\ UNCHANGED <<kind, id, links, holds>>

CheckAge(r) ==
  /\ LinkGoes(r, "checking",
       IF links # NoLinks /\ links.fresh THEN "loading" ELSE "reconciling")
  /\ UNCHANGED <<kind, id, links, holds>>

(* The data that was fresh, or what is left to a fetch that failed: a row  *)
(* that is deleted meanwhile fails the request.                            *)
LoadLinks(r) ==
  /\ \E from \in {"loading", "falling back"} :
       LinkGoes(r, from, IF links = NoLinks THEN "failed" ELSE "dating")
  /\ UNCHANGED <<kind, id, links, holds>>

(* ReconcilerCacher: the stored ID, else one that is searched for online   *)
(* and stored; the store fails on a row that is there by now.              *)
Reconcile(r) ==
  /\ LinkGoes(r, "reconciling",
       IF id = NoId THEN "searching" ELSE IF id = NullId THEN "falling back" ELSE "fetching")
  /\ holds' = [holds EXCEPT ![r] = id]
  /\ UNCHANGED <<kind, id, links>>

Search(r) ==
  /\ LinkGoes(r, "searching", "found")
  /\ \E i \in Id \cup {NullId} : holds' = [holds EXCEPT ![r] = i]
  /\ UNCHANGED <<kind, id, links>>

StoreId(r) ==
  /\ LinkGoes(r, "found",
       IF id = NoId /\ holds[r] \in Id THEN "fetching" ELSE "falling back")
  /\ id' = IF id = NoId THEN holds[r] ELSE id
  /\ UNCHANGED <<kind, links, holds>>

(* ExternalPipe: the links of the ID, expanded and marked. *)
Fetch(r) ==
  /\ LinkGoes(r, "fetching", "storing")
  /\ UNCHANGED <<kind, id, links, holds>>

FetchFails(r) ==
  /\ \E from \in {"searching", "fetching"} : LinkGoes(r, from, "falling back")
  /\ UNCHANGED <<kind, id, links, holds>>

StoreLinks(r) ==
  /\ LinkGoes(r, "storing", "dating")
  /\ links' = [of |-> holds[r], fresh |-> TRUE]
  /\ UNCHANGED <<kind, id, holds>>

(* withAge reads the row once more, for its time. *)
Date(r) ==
  /\ LinkGoes(r, "dating", IF links = NoLinks THEN "failed" ELSE "done")
  /\ UNCHANGED <<kind, id, links, holds>>

(* A year goes by. *)
Age ==
  /\ links # NoLinks
  /\ links' = [links EXCEPT !.fresh = FALSE]
  /\ UNCHANGED <<kind, id, linkPc, holds>>

-----------------------------------------------------------------------------
(* refreshArtist, refreshAlbum *)
DeleteLinks(r) ==
  /\ LinkGoes(r, "idle", "checking")
  /\ links' = NoLinks
  /\ UNCHANGED <<kind, id, holds>>

(* updateRecon: the ID of an album is deleted first, that of an artist is  *)
(* not.                                                                    *)
DeleteId(r) ==
  /\ LinkGoes(r, "idle", "deleting")
  /\ id' = IF kind = "album" THEN NoId ELSE id
  /\ UNCHANGED <<kind, links, holds>>

(* Seeded fault: the links of the old ID are kept. *)
KeepOldLinks(r) ==
  /\ LinkGoes(r, "deleting", "correcting")
  /\ UNCHANGED <<kind, id, links, holds>>

DeleteOldLinks(r) ==
  /\ LinkGoes(r, "deleting", "correcting")
  /\ links' = NoLinks
  /\ UNCHANGED <<kind, id, holds>>

CorrectId(r) ==
  /\ LinkGoes(r, "correcting", "checking")
  /\ id' \in Id
  /\ UNCHANGED <<kind, links, holds>>

-----------------------------------------------------------------------------
LinksStep ==
  \/ \E r \in Viewer : View(r)
  \/ \E r \in Refresher : DeleteLinks(r)
  \/ \E r \in Corrector : DeleteId(r) \/ DeleteOldLinks(r) \/ CorrectId(r)
  \/ \E r \in LinksRequest :
       \/ CheckAge(r) \/ LoadLinks(r) \/ Reconcile(r) \/ Search(r) \/ StoreId(r)
       \/ Fetch(r) \/ FetchFails(r) \/ StoreLinks(r) \/ Date(r)
  \/ Age

Holding(r) == linkPc[r] \in {"fetching", "storing"}
Correcting(r) == linkPc[r] = "correcting"
Overlap == \E r, q \in LinksRequest : Holding(r) /\ Correcting(q)

LinksNext == LinksStep /\ overlapped' = (overlapped \/ Overlap')

LinksSpec == LinksInit /\ [][LinksNext]_linksVars

(* The links that are stored, and shown for a year, are those of the ID    *)
(* that is stored, whatever the order in which IDs are corrected, searched *)
(* for and fetched from - unless a fetch was under way between the         *)
(* deletion of the links and the correction of the ID.                     *)
LinksAreOfTheId ==
  links # NoLinks /\ ~overlapped /\ (\A r \in Corrector : linkPc[r] # "deleting")
    => links.of = id
=============================================================================
