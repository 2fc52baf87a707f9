-------------------------------- MODULE Finding --------------------------------
(***************************************************************************)
(* The questions that are answered from the notes and the links a caller   *)
(* may read: paths, neighbours, bundles of context, searches and queries.  *)
(* A question carries the part of the vault it is about.                   *)
(***************************************************************************)
EXTENDS Context, Ranking

CONSTANTS PathQuestions,    \* [links, readable, from, to]
          LevelQuestions,   \* [links, readable, center, depth, direction]
          ContextQuestions, \* [vault, seeds, depth, max]
          SearchQuestions, NoteQuestions \* as in Ranking

ASSUME GraphQuestionsAssumption ==
  /\ \A q \in PathQuestions : q.readable \subseteq Notes
  /\ \A q \in LevelQuestions :
       q.readable \subseteq Notes /\ q.depth \in Nat /\ q.direction \in Directions
ASSUME ContextQuestionsAssumption ==
  \A q \in ContextQuestions :
    /\ q.vault.readable \subseteq Notes /\ q.seeds \subseteq Notes /\ {q.depth, q.max} \subseteq Nat
    /\ \A l \in q.vault.links : l.at \in Nat
    /\ {q.vault.full, q.vault.summary} \subseteq [Notes -> Nat]
\* What no answer looks like.
ASSUME NoAnswerAssumption ==
  /\ NoAnswer \notin Seq(Notes)
  /\ \A S \in SUBSET Notes :
       NoAnswer \notin [nodes : [S -> [depth : Nat, from : Notes, to : Notes]], edges : SUBSET (Notes \X Notes)]

Scored(q) ==
  /\ {q.database, q.embeds} \subseteq BOOLEAN /\ q.mode \in {"fulltext", "semantic", "hybrid"}
  /\ q.limit \in Nat
  /\ q.text \in [Ids -> Nat] /\ q.vector \in [Ids -> Int]
  /\ q.blocks \subseteq [id : Ids, at : Int, score : Int] /\ IsFiniteSet(q.blocks)
ASSUME SearchQuestionsAssumption == \A q \in SearchQuestions : Scored(q)
ASSUME NoteQuestionsAssumption ==
  \A q \in NoteQuestions :
    /\ Scored(q) /\ q.readable \subseteq Ids /\ q.hasText \in BOOLEAN
    /\ {q.created, q.updated, q.title} \subseteq [Ids -> Nat]
    /\ q.sortBy \in {"default", "relevance", "created", "updated", "title"}
    /\ q.order \in {"default", "asc", "desc"}

VARIABLE question \* what was asked last, and its answer

NoQuestion == <<"none">>
Answered(kind, q, answer) == question' = <<kind, q, answer>>

AskPath == \E q \in PathQuestions :
  Answered("path", q, ShortestPath(GraphOf(q.links, q.readable), q.from, q.to))
AskLevels == \E q \in LevelQuestions :
  Answered("levels", q, Neighbors(GraphOf(q.links, q.readable), q.center, q.depth, q.direction))
AskContext == \E q \in ContextQuestions :
  Answered("context", q, AssembleContext(Candidates(q.vault, q.seeds, q.depth), q.max))
AskSearch == \E q \in SearchQuestions : Answered("search", q, Search(q))
AskQuery == \E q \in NoteQuestions : Answered("query", q, QueryNotes(q))

FindingInit == question = NoQuestion
Find ==
  /\ question = NoQuestion
  /\ AskPath \/ AskLevels \/ AskContext \/ AskSearch \/ AskQuery

FindingSpec == FindingInit /\ [][Find]_question

-----------------------------------------------------------------------------
Asked(kind) == question[1] = kind
Q == question[2]
Answer == question[3]

(* Neighbours in either direction and paths are those of the part of the    *)
(* graph that the caller may read, at their distances and as short as any   *)
(* (graph.rs:93, store.rs:5110).                                            *)
GraphAnswersRight ==
  /\ Asked("path") => IsShortest(GraphOf(Q.links, Q.readable), Q.from, Q.to, Answer)
  /\ Asked("levels") => AreLevels(GraphOf(Q.links, Q.readable), Q.center, Q.depth, Q.direction, Answer)

(* The bundle respects the tokens, puts the seeds first and answers with at *)
(* least one of them (context.rs:81).                                       *)
BundlesFit == Asked("context") => Fits(Candidates(Q.vault, Q.seeds, Q.depth), Q.max, Answer)

(* The place of a note in the graph is the share of the shortest paths that *)
(* pass through it (context.rs:225).                                        *)
PlacesAreShares ==
  Asked("context") =>
    LET candidates == Candidates(Q.vault, Q.seeds, Q.depth)
        place == Betweenness(candidates)
    IN \A c \in candidates : place[c.id] = ThroughNote(candidates, c.id)

(* A search finds what the caller may read and nothing else, fills the      *)
(* answer unless a ranking was cut, and ranks; a query answers with the     *)
(* notes that match, in the order asked for, and counts all of them         *)
(* (store.rs:1929 and 2463).                                                *)
SearchFinds ==
  /\ Asked("search") => SearchesWell(Q, Answer)
  /\ Asked("query") => QueriesWell(Q, Answer)
=============================================================================
