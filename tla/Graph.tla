--------------------------------- MODULE Graph ---------------------------------
(***************************************************************************)
(* The link graph as one caller may see it: the notes the policy lets the  *)
(* caller read and the links between them.  Neighbours, among them those   *)
(* that link to a note, and the shortest path between two notes are found  *)
(* breadth first.  A note is a number, and the order of numbers is the     *)
(* order of ids.                                                           *)
(***************************************************************************)
EXTENDS Naturals, Sequences, FiniteSets, SequencesExt, Order

CONSTANTS Notes,         \* notes of the vault
          MaxTraversal,  \* MAX_GRAPH_TRAVERSAL_DEPTH
          NoAnswer       \* nothing is found

ASSUME NotesAssumption == Notes \subseteq Nat /\ IsFiniteSet(Notes)
ASSUME TraversalAssumption == MaxTraversal \in Nat \ {0}

Directions == {"outgoing", "incoming", "both"}

\* A vault: its links, each at a position of its source, and what is readable.
GraphOf(links, readable) == [links |-> {l \in links : {l.from, l.to} \subseteq readable},
                             readable |-> readable]

Ascending(S) == Ordered(S, <)

GetNeighbors(g, n) == Ascending({l.to : l \in {k \in g.links : k.from = n}})
GetBacklinks(g, n) == Ascending({l.from : l \in {k \in g.links : k.to = n}})

\* Where a traversal goes from n: first along the links, then against them.
TraversalNeighbors(g, n, direction) ==
  LET out == IF direction = "incoming" THEN <<>> ELSE GetNeighbors(g, n)
      in == IF direction = "outgoing" THEN <<>> ELSE GetBacklinks(g, n)
  IN out \o Picked(in, {i \in DOMAIN in : in[i] \notin ToSet(out)})

-----------------------------------------------------------------------------
(* The queue of notes to visit, and the depth and the parent of those seen. *)

\* What n leads to and was not seen is queued behind the rest.
Queued(w, rest, n, next) ==
  LET to == next[n]
      found == Picked(to, {i \in DOMAIN to : to[i] \notin DOMAIN w.depth})
      new == ToSet(found)
  IN [queue |-> rest \o found,
      depth |-> [m \in new \cup DOMAIN w.depth |-> IF m \in new THEN w.depth[n] + 1 ELSE w.depth[m]],
      parent |-> [m \in new \cup DOMAIN w.parent |-> IF m \in new THEN n ELSE w.parent[m]]]

(* Mutant of Visit: the last note that was found is visited first.          *)
VisitLatest(w, next, max) ==
  LET n == Last(w.queue)
  IN IF w.depth[n] >= max THEN [w EXCEPT !.queue = Front(@)] ELSE Queued(w, Front(w.queue), n, next)

\* One note is taken from the queue, and those it leads to unless it is too far.
Visit(w, next, max) ==
  LET n == Head(w.queue)
  IN IF w.depth[n] >= max THEN [w EXCEPT !.queue = Tail(@)] ELSE Queued(w, Tail(w.queue), n, next)

\* From several starts, until the queue is empty: every note is queued once.
AtStart(starts) == [queue |-> starts, depth |-> [n \in ToSet(starts) |-> 0], parent |-> <<>>]

\* Where the search is after so many notes.
Walk(starts, next, max) ==
  LET After[k \in Nat] ==
        IF k = 0 THEN AtStart(starts)
        ELSE LET w == After[k - 1] IN IF w.queue = <<>> THEN w ELSE Visit(w, next, max)
  IN After

Explore(starts, next, max) == Walk(starts, next, max)[Cardinality(Notes)]

-----------------------------------------------------------------------------
(* The questions.                                                           *)

Clamp(depth) == IF depth < 1 THEN 1 ELSE IF depth > MaxTraversal THEN MaxTraversal ELSE depth

\* Every note found, with its depth, and the link that led to it: the one
\* from its parent, or the one to its parent when there is no such.
Neighbors(g, center, depth, direction) ==
  LET w == Explore(<<center>>, [n \in Notes |-> TraversalNeighbors(g, n, direction)], Clamp(depth))
      Towards(n) == direction # "incoming" /\ [from |-> w.parent[n], to |-> n] \in
                      {[from |-> l.from, to |-> l.to] : l \in g.links}
  IN IF center \notin g.readable THEN NoAnswer
     ELSE [nodes |-> [n \in DOMAIN w.parent |->
                       [depth |-> w.depth[n],
                        from |-> IF Towards(n) THEN w.parent[n] ELSE n,
                        to |-> IF Towards(n) THEN n ELSE w.parent[n]]],
           edges |-> {<<l.from, l.to>> : l \in {k \in g.links : {k.from, k.to} \subseteq DOMAIN w.depth}}]

\* The last so many steps to the goal, back along the parents.
Back(parent, from, to) ==
  LET Steps[k \in Nat] == IF k = 0 THEN <<to>>
                          ELSE LET p == Steps[k - 1] IN IF p[1] = from THEN p ELSE <<parent[p[1]]>> \o p
  IN Steps

ShortestPath(g, from, to) ==
  LET w == Explore(<<from>>, [n \in Notes |-> GetNeighbors(g, n)], Cardinality(Notes))
  IN IF ~ {from, to} \subseteq g.readable \/ to \notin DOMAIN w.depth THEN NoAnswer
     ELSE Back(w.parent, from, to)[Cardinality(Notes)]

-----------------------------------------------------------------------------
(* Reference: the notes within k links, without a queue.                    *)

Successors(g, S, direction) ==
  {l.to : l \in {k \in g.links : k.from \in S /\ direction # "incoming"}}
    \cup {l.from : l \in {k \in g.links : k.to \in S /\ direction # "outgoing"}}

Balls(g, S, direction) ==
  LET Ball[i \in Nat] == IF i = 0 THEN S ELSE LET B == Ball[i - 1] IN B \cup Successors(g, B, direction)
  IN Ball

Within(g, S, k, direction) == Balls(g, S, direction)[k]

\* A path is one of the graph, and no other is shorter.
IsShortest(g, from, to, path) ==
  IF path = NoAnswer
  THEN from \notin g.readable \/ to \notin g.readable
         \/ to \notin Within(g, {from}, Cardinality(Notes), "outgoing")
  ELSE /\ path[1] = from /\ path[Len(path)] = to
       /\ \A i \in 1..(Len(path) - 1) :
            \E l \in g.links : l.from = path[i] /\ l.to = path[i + 1]
       /\ Len(path) > 1 => to \notin Within(g, {from}, Len(path) - 2, "outgoing")

\* The notes within the depth, each at its distance and with a link to the
\* one before it, and the links among them.
AreLevels(g, center, depth, direction, answer) ==
  IF answer = NoAnswer THEN center \notin g.readable
  ELSE LET found == DOMAIN answer.nodes
       IN /\ found = Within(g, {center}, Clamp(depth), direction) \ {center}
          /\ \A n \in found :
               LET node == answer.nodes[n]
                   other == IF node.to = n THEN node.from ELSE node.to
               IN /\ n \in Within(g, {center}, node.depth, direction)
                  /\ n \notin Within(g, {center}, node.depth - 1, direction)
                  /\ other \in Within(g, {center}, node.depth - 1, direction)
                  /\ \E l \in g.links : l.from = node.from /\ l.to = node.to
          /\ answer.edges = {<<l.from, l.to>> : l \in
                              {k \in g.links : {k.from, k.to} \subseteq found \cup {center}}}
=============================================================================
