------------------------------- MODULE Scores -------------------------------
(***************************************************************************)
(* backend/score: the scores of songs, albums and artists.  Every read     *)
(* goes to a scorer that loads a whole table the first time it is asked    *)
(* for and keeps it; every request that writes a score makes an actor      *)
(* replace the scorer by a new one (UpdatableProxy) before it is answered. *)
(* A score is also changed in an editor, which the server opens on the     *)
(* lines of all the scores and whose lines it stores when it is closed.    *)
(***************************************************************************)
EXTENDS Integers, Sequences

CONSTANTS
  Entity,      \* a song, its album, its artist: one of each table
  Score,       \* the values, Default among them
  Getter,      \* requests for the scores
  Setter,      \* requests that set one score
  Editor,      \* requests that open the score file
  Boot,        \* the maker of the first scorer
  Unread       \* not loaded, not read, nothing to write

Writer == Setter \cup Editor
ScoreRequest == Getter \cup Writer
Scorer == Writer \cup {Boot}

ASSUME ScoresAssumption ==
  /\ Unread \notin Score /\ Boot \notin ScoreRequest
  /\ Getter \cap Writer = {}

VARIABLES
  scores,      \* the tables: the score of each entity, with the number of its writes
  scorer,      \* the current scorer, by the request it was made for
  tables,      \* what each scorer has loaded
  inbox,       \* the requests whose update waits for the actor
  scorePc,     \* where each request stands
  held,        \* the scorer a reading request was given
  seen,        \* what each request for the scores has read
  lines,       \* the lines each editing request has made
  change,      \* what each request has yet to write
  wrote,       \* history: the number of each request's write
  answered,    \* history: the last write that was answered
  floor        \* history: what had been answered when a request began to read

scoresVars ==
  <<scores, scorer, tables, inbox, scorePc, held, seen, lines, change, wrote, answered, floor>>

gotten == <<held, seen, lines>>

Row == [score : Score, n : Nat]
NoRow == [score |-> Unread, n |-> 0]
Nowhere == [e \in Entity |-> NoRow]
NoWrites == [e \in Entity |-> 0]
Larger(i, j) == IF i > j THEN i ELSE j

ScoresTypeOK ==
  /\ scores \in [Entity -> Row]
  /\ scorer \in Scorer
  /\ tables \in [Scorer -> [Entity -> Row \cup {NoRow}]]
  /\ inbox \in Seq(Writer)
  /\ scorePc \in [ScoreRequest ->
       {"idle", "reading", "editing", "writing", "asking", "updating", "done", "failed"}]
  /\ held \in [Getter -> Scorer]
  /\ seen \in [Getter -> [Entity -> Row \cup {NoRow}]]
  /\ lines \in [Editor -> SUBSET Entity]
  /\ change \in [Writer -> [Entity -> Score \cup {Unread}]]
  /\ wrote \in [Writer -> [Entity -> Nat]]
  /\ answered \in [Entity -> Nat]
  /\ floor \in [Getter -> [Entity -> Nat]]

ScoresInit ==
  /\ \E f \in [Entity -> Score] : scores = [e \in Entity |-> [score |-> f[e], n |-> 0]]
  /\ scorer = Boot
  /\ tables = [s \in Scorer |-> Nowhere]
  /\ inbox = << >>
  /\ scorePc = [r \in ScoreRequest |-> "idle"]
  /\ held = [r \in Getter |-> Boot]
  /\ seen = [r \in Getter |-> Nowhere]
  /\ lines = [r \in Editor |-> {}]
  /\ change = [r \in Writer |-> [e \in Entity |-> Unread]]
  /\ wrote = [r \in Writer |-> NoWrites]
  /\ answered = NoWrites
  /\ floor = [r \in Getter |-> NoWrites]

ScoreGoes(r, from, to) == scorePc[r] = from /\ scorePc' = [scorePc EXCEPT ![r] = to]

-----------------------------------------------------------------------------
(* A table is loaded by the first read of it, and then stays as it is. *)
Table(s, e) == IF tables[s][e] = NoRow THEN scores[e] ELSE tables[s][e]

Loads(s, e) == tables' = [tables EXCEPT ![s][e] = Table(s, e)]

(* ScoreModel.apply: all three tables are read, of one scorer. *)
Get(r) ==
  /\ ScoreGoes(r, "idle", "reading")
  /\ held' = [held EXCEPT ![r] = scorer]
  /\ floor' = [floor EXCEPT ![r] = answered]
  /\ UNCHANGED <<scores, scorer, tables, inbox, seen, lines, change, wrote, answered>>

ReadScore(r, e) ==
  /\ scorePc[r] = "reading" /\ seen[r][e] = NoRow
  /\ seen' = [seen EXCEPT ![r][e] = Table(held[r], e)]
  /\ Loads(held[r], e)
  /\ UNCHANGED <<scores, scorer, inbox, scorePc, held, lines, change, wrote, answered, floor>>

GotScores(r) ==
  /\ ScoreGoes(r, "reading", "done")
  /\ \A e \in Entity : seen[r][e] # NoRow
  /\ UNCHANGED <<scores, scorer, tables, inbox, gotten, change, wrote, answered, floor>>

-----------------------------------------------------------------------------
Put(r, e, v) ==
  /\ ScoreGoes(r, "idle", "writing")
  /\ change' = [change EXCEPT ![r][e] = v]
  /\ UNCHANGED <<scores, scorer, tables, inbox, gotten, wrote, answered, floor>>

(* FileScorer: the lines are made from the scorer of the moment, each of   *)
(* them.                                                                   *)
OpenScoreFile(r) ==
  /\ ScoreGoes(r, "idle", "reading")
  /\ UNCHANGED <<scores, scorer, tables, inbox, gotten, change, wrote, answered, floor>>

WriteLine(r, e) ==
  /\ scorePc[r] = "reading" /\ e \notin lines[r]
  /\ lines' = [lines EXCEPT ![r] = @ \cup {e}]
  /\ Loads(scorer, e)
  /\ UNCHANGED <<scores, scorer, inbox, scorePc, held, seen, change, wrote, answered, floor>>

OpenEditor(r) ==
  /\ ScoreGoes(r, "reading", "editing")
  /\ lines[r] = Entity
  /\ UNCHANGED <<scores, scorer, tables, inbox, gotten, change, wrote, answered, floor>>

(* parseLines: a line is stored that differs from the score of now, be it  *)
(* because the user changed the line or because the score has changed.     *)
CloseEditor(r) ==
  /\ ScoreGoes(r, "editing", "writing")
  /\ \E line \in [Entity -> Score] :
       change' = [change EXCEPT ![r] =
         [e \in Entity |-> IF line[e] = Table(scorer, e).score THEN Unread ELSE line[e]]]
  /\ tables' = [tables EXCEPT ![scorer] = [e \in Entity |-> Table(scorer, e)]]
  /\ UNCHANGED <<scores, scorer, inbox, gotten, wrote, answered, floor>>

-----------------------------------------------------------------------------
(* replace, or delete for the default score. *)
Write(r, e) ==
  /\ scorePc[r] = "writing"
  /\ change[r][e] # Unread
  /\ scores' = [scores EXCEPT ![e] = [score |-> change[r][e], n |-> scores[e].n + 1]]
  /\ wrote' = [wrote EXCEPT ![r][e] = scores[e].n + 1]
  /\ change' = [change EXCEPT ![r][e] = Unread]
  /\ UNCHANGED <<scorer, tables, inbox, scorePc, gotten, answered, floor>>

WriteFails(r) ==
  /\ ScoreGoes(r, "writing", "failed")
  /\ UNCHANGED <<scores, scorer, tables, inbox, gotten, change, wrote, answered, floor>>

Written(r) == \A e \in Entity : change[r][e] = Unread

(* Seeded fault: the request is answered without an update of the scorer. *)
AnswerAtOnce(r) ==
  /\ ScoreGoes(r, "writing", "done")
  /\ Written(r)
  /\ answered' = [e \in Entity |-> Larger(answered[e], wrote[r][e])]
  /\ UNCHANGED <<scores, scorer, tables, inbox, gotten, change, wrote, floor>>

(* cachedModelScorerState.update(), once all the writes have ended. *)
AskUpdate(r) ==
  /\ ScoreGoes(r, "writing", "asking")
  /\ Written(r)
  /\ inbox' = Append(inbox, r)
  /\ UNCHANGED <<scores, scorer, tables, gotten, change, wrote, answered, floor>>

(* The actor: the scorer is replaced by one that has loaded nothing. *)
Rebuild ==
  /\ inbox # << >>
  /\ ScoreGoes(Head(inbox), "asking", "updating")
  /\ scorer' = Head(inbox)
  /\ inbox' = Tail(inbox)
  /\ UNCHANGED <<scores, tables, gotten, change, wrote, answered, floor>>

PutAnswered(r) ==
  /\ ScoreGoes(r, "updating", "done")
  /\ answered' = [e \in Entity |-> Larger(answered[e], wrote[r][e])]
  /\ UNCHANGED <<scores, scorer, tables, inbox, gotten, change, wrote, floor>>

ScoresNext ==
  \/ \E r \in Getter : Get(r) \/ GotScores(r) \/ \E e \in Entity : ReadScore(r, e)
  \/ \E r \in Setter, e \in Entity, v \in Score : Put(r, e, v)
  \/ \E r \in Editor : \/ OpenScoreFile(r) \/ OpenEditor(r) \/ CloseEditor(r)
                       \/ \E e \in Entity : WriteLine(r, e)
  \/ \E r \in Writer : \/ WriteFails(r) \/ AskUpdate(r) \/ PutAnswered(r)
                       \/ \E e \in Entity : Write(r, e)
  \/ Rebuild

ScoresSpec == ScoresInit /\ [][ScoresNext]_scoresVars

(* Who asks for the scores after a score was set, and the request that set *)
(* it was answered, is shown that score or a later one, though the scorer  *)
(* is cached and each of its tables is loaded at a time of its own.        *)
AnsweredIsSeen ==
  \A r \in Getter : scorePc[r] = "done" => \A e \in Entity : seen[r][e].n >= floor[r][e]
=============================================================================
