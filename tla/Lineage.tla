------------------------------ MODULE Lineage -------------------------------
(***************************************************************************)
(* The walk along what Experiences say they came from: breadth first, from *)
(* what the caller was shown, one level of edges at a time, up to a budget *)
(* of nodes. Edges are what the latest version of an Experience says, and  *)
(* their targets are free text. A graph is [edges, visible]: the targets   *)
(* of each Experience in the order of the relations, and the Experiences   *)
(* that exist and that the caller may see.                                 *)
(***************************************************************************)
EXTENDS Integers, Sequences, FiniteSets, SequencesExt

CONSTANT MaxLineageNodes
ASSUME LineageAssumption == MaxLineageNodes \in Nat

\* _lineage_edges: of the frontier, in its order.
LineageEdges(graph, frontier) ==
  FlattenSeq([i \in DOMAIN frontier |->
    [j \in DOMAIN graph.edges[frontier[i]] |-> [from |-> frontier[i], to |-> graph.edges[frontier[i]][j]]]])

\* Recorded, and within visibility_clause: anything else is absent, and absent
\* looks the same either way.
VisibleExperiences(graph, targets) == targets \cap graph.visible

\* A node whose row was found, or all that is told of one whose was not.
LineageNode(edge, level, rows) ==
  [from |-> edge.from, id |-> edge.to, depth |-> level, resolved |-> edge.to \in rows]

\* Variant: every target is walked on from.
TakeAll(rows, level, walk, edge) ==
  IF walk.truncated \/ edge.to \in walk.seen THEN walk
  ELSE IF Len(walk.nodes) >= MaxLineageNodes THEN [walk EXCEPT !.truncated = TRUE]
  ELSE [walk EXCEPT !.seen = @ \cup {edge.to}, !.nodes = Append(@, LineageNode(edge, level, rows)),
                    !.next = Append(@, edge.to)]

\* One edge of a level: once per target, within the budget; a target without a
\* row is not walked on from.
Take(rows, level, walk, edge) ==
  IF walk.truncated \/ edge.to \in walk.seen THEN walk
  ELSE IF Len(walk.nodes) >= MaxLineageNodes THEN [walk EXCEPT !.truncated = TRUE]
  ELSE [walk EXCEPT !.seen = @ \cup {edge.to}, !.nodes = Append(@, LineageNode(edge, level, rows)),
                    !.next = IF edge.to \in rows THEN Append(@, edge.to) ELSE @]

\* One level: its edges, the rows of the targets that are new, and what they
\* add. An edge to what was seen adds nothing.
Level(graph, walk, n) ==
  LET edges == LineageEdges(graph, walk.next)
      rows == VisibleExperiences(graph, {edges[i].to : i \in DOMAIN edges} \ walk.seen)
  IN  IF walk.truncated THEN walk
      ELSE FoldLeft(LAMBDA w, edge : Take(rows, n, w, edge), [walk EXCEPT !.next = <<>>], edges)

\* get_experience_lineage, with the answer as the fold of its levels.
Walk(graph, root, depth) ==
  LET walked == FoldLeft(LAMBDA walk, n : Level(graph, walk, n),
                         [nodes |-> <<>>, seen |-> {root}, next |-> <<root>>, truncated |-> FALSE],
                         [n \in 1..depth |-> n])
  IN  [nodes |-> walked.nodes, truncated |-> walked.truncated]

-----------------------------------------------------------------------------
(* Properties, of one walk.                                                *)

\* How far an id is from the root along Experiences the caller may see.
Within(graph, root, n) ==
  LET expanded == {root} \cup graph.visible
      near[k \in 0..n] ==
        IF k = 0 THEN {root}
        ELSE near[k - 1] \cup UNION {Range(graph.edges[e]) : e \in near[k - 1] \cap expanded}
  IN  near[n]

\* Everything within reach is in the answer, once, at its distance, through an
\* edge from one level up, unless the budget ran out and the answer says so.
ByTheShortestPath(graph, root, depth) ==
  LET answer == Walk(graph, root, depth)
      ids == {answer.nodes[i].id : i \in DOMAIN answer.nodes}
  IN  /\ Cardinality(ids) = Len(answer.nodes) /\ root \notin ids
      /\ Len(answer.nodes) <= MaxLineageNodes
      /\ \A i \in DOMAIN answer.nodes :
           LET node == answer.nodes[i]
           IN  /\ node.id \in Within(graph, root, node.depth) \ Within(graph, root, node.depth - 1)
               /\ node.from \in Within(graph, root, node.depth - 1)
      /\ answer.truncated <=> ids # Within(graph, root, depth) \ {root}

\* Two graphs that differ only in what the caller may not see give one answer:
\* no walk tells a stranger's Experience from one that was never recorded.
TellsNothing(graph, other, root, depth) ==
  (graph.visible = other.visible /\ \A e \in {root} \cup graph.visible : graph.edges[e] = other.edges[e])
    => Walk(graph, root, depth) = Walk(other, root, depth)

=============================================================================
