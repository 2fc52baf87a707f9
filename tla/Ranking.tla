-------------------------------- MODULE Ranking --------------------------------
(***************************************************************************)
(* Search and note queries.  Rankings come from the rows, or from memory   *)
(* when the database fails: by words, by likeness of the note's vector and *)
(* of its blocks' vectors, or both fused by reciprocal rank.  Only then is *)
(* what the caller may not read taken out, and the rest cut to the limit.  *)
(* Scores are small whole numbers; the order of numbers is that of ids.    *)
(***************************************************************************)
EXTENDS Integers, Sequences, FiniteSets, SequencesExt, Order

CONSTANTS Ids,          \* notes
          RrfK,         \* RRF_K
          LeastLimit, LimitFactor, FloorLimit, CeilingLimit \* of search_ranking_limit

ASSUME IdsAssumption == Ids \subseteq Nat /\ IsFiniteSet(Ids)
ASSUME LimitsAssumption ==
  /\ {RrfK, LeastLimit, LimitFactor, FloorLimit, CeilingLimit} \subseteq Nat \ {0}
  /\ FloorLimit <= CeilingLimit

Larger(a, b) == IF a < b THEN b ELSE a
Smaller(a, b) == IF a < b THEN a ELSE b
Cut(s, n) == SubSeq(s, 1, Smaller(n, Len(s)))
Best(scores) == CHOOSE b \in scores : \A s \in scores : s <= b

\* Best score first, then by id.
Ranked(scored) == Ordered(scored, LAMBDA a, b : a.score > b.score \/ (a.score = b.score /\ a.id < b.id))

RankingLimit(limit) ==
  Smaller(CeilingLimit, Larger(FloorLimit, LimitFactor * Larger(limit, LeastLimit)))

NoVector == -2

\* A question: q.text scores the words of each note, q.vector the likeness of
\* its vector, q.blocks are block vectors [id, at, score], the rest as asked.
Fulltext(q, docs) == Ranked({[id |-> n, score |-> q.text[n]] : n \in {m \in docs : q.text[m] > 0}})

\* From the rows everything with a vector counts, unlike it may be.
NoteRows(q, n) ==
  Cut(Ranked({[id |-> m, score |-> q.vector[m]] : m \in {k \in Ids : q.vector[k] # NoVector}}), n)
BlockRows(q, n) ==
  Cut(Ordered(q.blocks, LAMBDA a, b : \/ a.score > b.score
                     \/ (a.score = b.score /\ (a.id < b.id \/ (a.id = b.id /\ a.at < b.at)))), n)

\* The best of a note's own score and of its blocks' scores, at least zero.
Merged(notes, blocks) ==
  LET scores(id) == {r.score : r \in {x \in ToSet(notes) \cup ToSet(blocks) : x.id = id}}
  IN Ranked({[id |-> id, score |-> Best(scores(id) \cup {0})] :
               id \in {r.id : r \in ToSet(notes) \cup ToSet(blocks)}})

SemanticRows(q, n) == IF q.embeds THEN Cut(Merged(NoteRows(q, n), BlockRows(q, n)), n) ELSE <<>>
SemanticMemory(q, docs) ==
  IF q.embeds THEN Ranked({[id |-> n, score |-> q.vector[n]] : n \in {m \in docs : q.vector[m] > 0}})
  ELSE <<>>

\* One part in (RrfK + rank), as a whole number.
Products(rank) ==
  LET Product[i \in Nat] == IF i = 0 THEN 1
                            ELSE IF i = rank THEN Product[i - 1] ELSE Product[i - 1] * (RrfK + i)
  IN Product

Share(rank) == Products(rank)[Cardinality(Ids)]

(* Mutant of Hybrid: what only one ranking knows is left out.               *)
HybridOfBoth(full, semantic) ==
  LET rank(s, id) == CHOOSE i \in DOMAIN s : s[i].id = id
      both == {r.id : r \in ToSet(full)} \cap {r.id : r \in ToSet(semantic)}
  IN Ranked({[id |-> id, score |-> Share(rank(full, id)) + Share(rank(semantic, id))] : id \in both})

Hybrid(full, semantic) ==
  LET share(s, id) == IF \E i \in DOMAIN s : s[i].id = id
                      THEN Share(CHOOSE i \in DOMAIN s : s[i].id = id) ELSE 0
  IN Ranked({[id |-> id, score |-> share(full, id) + share(semantic, id)] :
               id \in {r.id : r \in ToSet(full) \cup ToSet(semantic)}})

ByMode(mode, full, semantic) ==
  CASE mode = "fulltext" -> full [] mode = "semantic" -> semantic [] mode = "hybrid" -> Hybrid(full, semantic)

-----------------------------------------------------------------------------
(* search_raw and search_for_policy.                                        *)

SearchRaw(q, limit) ==
  LET n == RankingLimit(limit)
  IN Cut(IF q.database THEN ByMode(q.mode, Cut(Fulltext(q, Ids), n), SemanticRows(q, n))
         ELSE ByMode(q.mode, Fulltext(q, Ids), SemanticMemory(q, Ids)), limit)

Readable(rows, readable) == Picked(rows, {i \in DOMAIN rows : rows[i].id \in readable})

(* Mutant of Search: the limit cuts before the policy filters.              *)
SearchCutFirst(q) == Readable(Cut(SearchRaw(q, RankingLimit(q.limit)), q.limit), q.readable)

Search(q) == Cut(Readable(SearchRaw(q, RankingLimit(q.limit)), q.readable), q.limit)

-----------------------------------------------------------------------------
(* query_notes: filters and policy first, then ranking, order and limit.    *)

\* Notes in memory are ranked, with the blocks of the rows.
QueryHits(q, docs) ==
  LET all == BlockRows(q, RankingLimit(Larger(Cardinality(docs), LeastLimit)))
      blocks == IF q.embeds /\ q.database THEN Readable(all, docs) ELSE <<>>
  IN ByMode(q.mode, Fulltext(q, docs), Merged(SemanticMemory(q, docs), blocks))

Matching(q) ==
  {n \in q.readable : /\ q.filter.all \subseteq q.tags[n]
                      /\ q.filter.any = {} \/ q.filter.any \cap q.tags[n] # {}
                      /\ q.filter.none \cap q.tags[n] = {}
                      /\ q.filter.createdAfter = 0
                           \/ (q.created[n] # 0 /\ q.created[n] >= q.filter.createdAfter)}

SortField(q) ==
  IF q.sortBy \in {"relevance", "default"} THEN (IF q.hasText THEN "relevance" ELSE "updated")
  ELSE q.sortBy

Upwards(q) == q.order = "asc" \/ (q.order = "default" /\ SortField(q) = "title")

SortValue(q, n) ==
  CASE SortField(q) = "created" -> q.created[n] [] SortField(q) = "title" -> q.title[n] [] OTHER -> q.updated[n]

(* Mutant of NoteBefore: downwards is the reverse of upwards.               *)
NoteBeforeReversed(q, a, b) ==
  LET value(n) == SortValue(q, n)
      up(x, y) == IF value(x) = value(y) THEN x < y ELSE value(y) = 0 \/ (value(x) # 0 /\ value(x) < value(y))
  IN IF Upwards(q) THEN up(a, b) ELSE up(b, a)

\* A date that is missing (zero) comes last in either order, equal ones by id.
NoteBefore(q, a, b) ==
  LET value(n) == SortValue(q, n)
      less(x, y) == IF Upwards(q) THEN x < y ELSE x > y
  IN IF value(a) = value(b) THEN a < b
     ELSE value(b) = 0 \/ (value(a) # 0 /\ less(value(a), value(b)))

QueryNotes(q) ==
  LET hits == QueryHits(q, Matching(q))
      ids == IF q.hasText THEN {r.id : r \in ToSet(hits)} ELSE Matching(q)
      ranked == [i \in DOMAIN hits |-> hits[i].id]
      sorted == IF SortField(q) = "relevance" THEN (IF Upwards(q) THEN Reverse(ranked) ELSE ranked)
                ELSE Ordered(ids, LAMBDA a, b : NoteBefore(q, a, b))
  IN [notes |-> Cut(sorted, q.limit), total |-> Len(sorted)]

-----------------------------------------------------------------------------
(* Reference.                                                               *)

\* Notes a question of this mode may find, by words or by any vector.
Found(q) ==
  LET vector == IF q.database THEN {n \in Ids : q.vector[n] # NoVector} \cup {b.id : b \in q.blocks}
                ELSE {n \in Ids : q.vector[n] > 0}
      words == {n \in Ids : q.text[n] > 0}
  IN (IF q.mode = "semantic" THEN {} ELSE words)
       \cup (IF q.mode = "fulltext" \/ ~ q.embeds THEN {} ELSE vector)

\* Only readable notes are found, each once and never more than asked for; a
\* readable one is missing only when the answer is full or when a ranking was
\* cut.  A note at least as high in both rankings is at least as high.
SearchesWell(q, hits) ==
  LET ids == [i \in DOMAIN hits |-> hits[i].id]
      missing == (Found(q) \cap q.readable) \ ToSet(ids)
      outranks(a, b) ==
        /\ q.mode # "semantic" => q.text[a] > q.text[b]
        /\ q.mode # "fulltext" /\ q.embeds =>
             /\ Larger(q.vector[a], 0) > Larger(q.vector[b], 0) /\ \A k \in q.blocks : k.id \notin {a, b}
  IN /\ ToSet(ids) \subseteq Found(q) \cap q.readable
     /\ IsInjective(ids) /\ Len(ids) <= q.limit
     /\ missing # {} => \/ Len(ids) = q.limit
                        \/ Cardinality(Found(q)) > RankingLimit(q.limit)
                        \/ Cardinality(q.blocks) > RankingLimit(RankingLimit(q.limit))
     /\ \A i, j \in DOMAIN ids : outranks(ids[i], ids[j]) => i < j

\* As many as asked for of the notes that match, and no later one belongs
\* before an earlier one; the total counts all of them.
QueriesWell(q, answer) ==
  LET all == Matching(q) IN
  /\ ToSet(answer.notes) \subseteq all /\ IsInjective(answer.notes)
  /\ Len(answer.notes) = Smaller(q.limit, answer.total)
  /\ ~ q.hasText => answer.total = Cardinality(all)
  /\ SortField(q) # "relevance" =>
       \A i \in DOMAIN answer.notes :
         LET earlier == {answer.notes[j] : j \in 1..(i - 1)}
             n == answer.notes[i]
             dated(m) == SortValue(q, m) # 0
         IN \A m \in (IF q.hasText THEN ToSet(answer.notes) ELSE all) \ (earlier \cup {n}) :
              /\ dated(m) => dated(n)
              /\ dated(m) => IF Upwards(q) THEN SortValue(q, n) <= SortValue(q, m) ELSE SortValue(q, n) >= SortValue(q, m)
              /\ SortValue(q, m) = SortValue(q, n) => n < m
=============================================================================
