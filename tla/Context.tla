-------------------------------- MODULE Context --------------------------------
(***************************************************************************)
(* The bundle of notes a client gets as context: the notes around some     *)
(* seeds, ranked by distance, likeness to the query and their place in the *)
(* graph, in full or as a summary until the tokens are used up.            *)
(*                                                                         *)
(* Scores are compared as whole numbers: the fractions of the code times   *)
(* the common denominator.  Likeness is zero or one.                       *)
(***************************************************************************)
EXTENDS Graph, Integers

CONSTANTS HubThreshold,  \* hub_note_threshold
          HubFanout      \* hub_note_fanout

ASSUME HubAssumption == {HubThreshold, HubFanout} \subseteq Nat

\* A vault: links and what is readable as in Graph, the notes marked as hubs
\* by folder or frontmatter, those like the query, and the tokens of each.
IsHub(v, n) == n \in v.marked \/ Cardinality({l \in v.links : l.from = n}) > HubThreshold

\* Of a hub only some links are followed: the likest, then the first.
Followed(v, g, n) ==
  LET all == GetNeighbors(g, n)
      like(m) == IF m \in v.like THEN 0 ELSE 1
      first(m) == LET at == {l.at : l \in {k \in v.links : k.from = n /\ k.to = m}}
                  IN CHOOSE p \in at : \A o \in at : p <= o
      before(a, b) == \/ like(a) < like(b)
                      \/ like(a) = like(b) /\ (first(a) < first(b) \/ (first(a) = first(b) /\ a < b))
      fanout == IF HubFanout = 0 THEN 1 ELSE HubFanout
  IN IF ~ IsHub(v, n) \/ Len(all) <= fanout THEN all
     ELSE SubSeq(Ordered(ToSet(all), before), 1, fanout)

\* The readable notes around the readable seeds.
Candidates(v, seeds, depth) ==
  LET g == GraphOf(v.links, v.readable)
      next == [n \in Notes |-> Followed(v, g, n)]
      w == Explore(Ascending(seeds \cap v.readable), next, Clamp(depth))
  IN {[id |-> n, depth |-> w.depth[n], seed |-> n \in seeds, hub |-> IsHub(v, n),
       like |-> n \in v.like, links |-> ToSet(next[n]),
       full |-> v.full[n], summary |-> v.summary[n]] : n \in DOMAIN w.depth}

-----------------------------------------------------------------------------
(* How many shortest paths pass through a note, counted from the end of     *)
(* each path (Brandes); Denominator makes all fractions whole.              *)

Denominator == 12

\* What of the paths from s is beyond each note, when the notes are at these
\* depths from it.
Dependencies(s, next, depth) ==
  LET pred(n) == {m \in DOMAIN depth : depth[n] = depth[m] + 1 /\ n \in ToSet(next[m])}
      sigma[n \in DOMAIN depth] == IF n = s THEN 1 ELSE SumFunction([m \in pred(n) |-> sigma[m]])
      delta[n \in DOMAIN depth] ==
        SumFunction([m \in {k \in DOMAIN depth : n \in pred(k)} |->
                      (sigma[n] * (Denominator + delta[m])) \div sigma[m]])
  IN delta

(* Mutant of FromSource: the paths count for the note they start from.      *)
FromSourceToo(s, next, depth) ==
  [n \in Notes |-> IF n \in DOMAIN depth THEN Dependencies(s, next, depth)[n] ELSE 0]

FromSource(s, next, depth) ==
  [n \in Notes |-> IF n # s /\ n \in DOMAIN depth THEN Dependencies(s, next, depth)[n] ELSE 0]

Betweenness(candidates) ==
  LET ids == {c.id : c \in candidates}
      next == [n \in Notes |-> IF n \notin ids THEN <<>>
                 ELSE Ascending((CHOOSE c \in candidates : c.id = n).links \cap ids)]
      from == [s \in ids |-> FromSource(s, next, Explore(<<s>>, next, Cardinality(Notes)).depth)]
  IN [n \in ids |-> SumFunction([s \in ids |-> from[s][n]])]

\* Depth counts half, likeness three tenths, the place in the graph (as a
\* share of the most central note's) a fifth, and hubs a twentieth.
Score(c, place, most) ==
  LET unit == Denominator * most
  IN (10 * unit) \div (1 + c.depth) + (IF c.like THEN 6 * unit ELSE 0)
       + 4 * Denominator * place[c.id] + (IF c.hub THEN unit ELSE 0)

(* Mutant of Before: seeds do not come first.                               *)
BeforeByScore(a, b) ==
  \/ a.score > b.score
  \/ a.score = b.score /\ (a.note.depth < b.note.depth \/ (a.note.depth = b.note.depth /\ a.note.id < b.note.id))

\* The order of candidates with their scores.
Before(a, b) ==
  \/ a.note.seed /\ ~ b.note.seed
  \/ /\ a.note.seed = b.note.seed
     /\ \/ a.score > b.score
        \/ /\ a.score = b.score
           /\ a.note.depth < b.note.depth \/ (a.note.depth = b.note.depth /\ a.note.id < b.note.id)

\* One candidate more: in full, as a summary, as the summary of the first
\* seed whatever it takes, or not at all.
Include(answer, c, max) ==
  LET fits(tokens) == answer.used + tokens <= max
      as(how, tokens) == [used |-> answer.used + tokens,
                          notes |-> Append(answer.notes, [id |-> c.id, seed |-> c.seed, how |-> how])]
  IN IF ~ c.hub /\ fits(c.full) THEN as("full", c.full)
     ELSE IF fits(c.summary) \/ (c.seed /\ answer.notes = <<>>) THEN as("summary", c.summary)
     ELSE answer

Prioritized(candidates, place) ==
  LET values == {place[c.id] : c \in candidates} \cup {1}
      most == CHOOSE m \in values : \A k \in values : k <= m
      order == Ordered({[note |-> c, score |-> Score(c, place, most)] : c \in candidates}, Before)
  IN [i \in DOMAIN order |-> order[i].note]

Counted(answer, total) ==
  LET count(how) == Cardinality({i \in DOMAIN answer.notes : answer.notes[i].how = how})
  IN [answer |-> answer, included |-> count("full"), summarized |-> count("summary"),
      excluded |-> total - Len(answer.notes)]

\* The bundle after so many candidates.
Assembled(order, max) ==
  LET After[k \in 0..Len(order)] ==
        IF k = 0 THEN [used |-> 0, notes |-> <<>>] ELSE Include(After[k - 1], order[k], max)
  IN After

AssembleContext(candidates, max) ==
  LET order == Prioritized(candidates, Betweenness(candidates))
  IN Counted(Assembled(order, max)[Len(order)], Cardinality(candidates))

-----------------------------------------------------------------------------
(* Reference: betweenness by its definition, over the paths themselves.     *)

ShortestPaths(candidates, s, t) ==
  LET links(n) == UNION {c.links : c \in {d \in candidates : d.id = n}} \cap {c.id : c \in candidates}
      Paths[k \in Nat] == IF k = 0 THEN {<<s>>}
                          ELSE UNION {{Append(p, m) : m \in links(Last(p)) \ ToSet(p)} : p \in Paths[k - 1]}
      reaching(k) == {p \in Paths[k] : Last(p) = t}
      lengths == {k \in 0..Cardinality(Notes) : reaching(k) # {}}
  IN IF lengths = {} THEN {} ELSE reaching(CHOOSE k \in lengths : \A l \in lengths : k <= l)

ThroughNote(candidates, n) ==
  LET ids == {c.id : c \in candidates}
      pairs == {p \in (ids \ {n}) \X (ids \ {n}) : p[1] # p[2] /\ ShortestPaths(candidates, p[1], p[2]) # {}}
      share(p) == LET all == ShortestPaths(candidates, p[1], p[2])
                  IN (Denominator * Cardinality({q \in all : n \in ToSet(q)})) \div Cardinality(all)
  IN MapThenSumSet(share, pairs)

\* The tokens are respected (a lone summary of the first seed may not fit),
\* every candidate is counted once, a readable seed is never answered with
\* nothing, and no note that is not a seed takes the tokens of one.
Fits(candidates, max, r) ==
  LET notes == r.answer.notes
      size(n) == LET c == CHOOSE d \in candidates : d.id = n.id
                 IN IF n.how = "full" THEN c.full ELSE c.summary
      sizes == [i \in DOMAIN notes |-> size(notes[i])]
      total == SumFunction(sizes)
      bySeeds == SumFunctionOnSet(sizes, {i \in DOMAIN notes : notes[i].seed})
      missing == {c \in candidates : c.seed /\ \A i \in DOMAIN notes : notes[i].id # c.id}
  IN /\ r.answer.used = total
     /\ total <= max \/ (notes[1].seed /\ notes[1].how = "summary" /\ total = sizes[1])
     /\ r.included + r.summarized + r.excluded = Cardinality(candidates)
     /\ Cardinality({notes[i].id : i \in DOMAIN notes}) = Len(notes)
     /\ (\E c \in candidates : c.seed) => notes # <<>>
     /\ \A c \in missing : bySeeds + c.summary > max
=============================================================================
