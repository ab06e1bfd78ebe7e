------------------------------ MODULE DagreLayout ------------------------------
(***************************************************************************)
(* dagre's layout.run, the passes of which change one graph in turn: make  *)
(* it acyclic, rank the nodes, split long edges, order the ranks, position *)
(* the nodes, and undo what the first passes did to the edges.             *)
(***************************************************************************)
EXTENDS DagreOrder

CONSTANTS
  Inputs,        \* graphs: nodes, a sequence of ids, and edges of <<u, v>>
  MaxSweeps,     \* config.orderMaxSweeps
  MaxExchanges   \* a bound: the loop of the simplex need not end

(* Ids of the input's nodes are between those the graph draws and normalize's *)
FirstSplit == 1000
ASSUME InputsAssumption ==
  /\ \A in \in Inputs : \A i \in DOMAIN in.nodes : in.nodes[i] \in 100 .. FirstSplit - 1
  /\ MaxSweeps > 0

VARIABLES
  input,     \* the graph given to run
  simplex,   \* config.rankSimplex
  phase,     \* the pass that ended last
  g,         \* the layout's graph
  rank, order,
  todo,      \* components not ranked yet, the first one being worked on
  tree,      \* its spanning tree
  sweeps,    \* the order phase's loop
  xss,       \* the alignments of the nodes, of the four that position makes
  xy,        \* positions of the nodes, in quarters
  points     \* of the edges that were split or are loops, by edge id

layoutVars == <<input, simplex, phase, g, rank, order, todo, tree, sweeps, xss, xy, points>>

NoSweep == [i |-> 0, lastBest |-> 0, bestCC |-> -1, best |-> <<>>]

(* initLayoutGraph, and room for the labels: minLen is doubled *)
InitLayoutGraph(in) ==
  [nodes |-> in.nodes, dummy |-> <<>>, next |-> Len(in.edges),
   edges |-> [i \in DOMAIN in.edges |-> Edge(i, in.edges[i][1], in.edges[i][2], 2)]]

LayoutInit ==
  /\ input \in Inputs /\ simplex \in BOOLEAN
  /\ phase = "read" /\ g = InitLayoutGraph(input)
  /\ rank = <<>> /\ order = <<>> /\ xss = <<>> /\ xy = <<>> /\ points = <<>>
  /\ todo = <<>> /\ tree = NoTree /\ sweeps = NoSweep

MakeAcyclic ==
  /\ phase = "read" /\ phase' = "acyclic"
  /\ g' = Acyclic(ExpandSelfLoops(g))
  /\ rank' = InitRank(g')
  /\ todo' = Components(Plain(g'))
  /\ UNCHANGED <<input, simplex, order, tree, sweeps, xss, xy, points>>

Component == [nodes |-> SelectSeq(g.nodes, LAMBDA u : Contains(todo[1], u)),
              edges |-> SelectSeq(g.edges, LAMBDA e : Contains(todo[1], e.u))]

(* rankComponent: feasibleTree, then simplex, then normalize *)
BuildTree ==
  /\ phase = "acyclic" /\ todo # <<>> /\ tree = NoTree
  /\ LET f == FeasibleTree(Component, [u \in ToSet(todo[1]) |-> rank[u]])
     IN /\ tree' = IF simplex THEN InitCutValues(Component, f.tree) ELSE f.tree
        /\ rank' = f.rank @@ rank
  /\ UNCHANGED <<input, simplex, phase, g, order, todo, sweeps, xss, xy, points>>

Leaving == IF simplex THEN LeaveEdge(tree) ELSE <<>>

\* Mutant: the ranks of the tree without the edge that left stay.
ExchangeOnly ==
  /\ phase = "acyclic" /\ tree # NoTree /\ Leaving # <<>>
  /\ tree.next < Len(tree.nodes) + MaxExchanges - 1
  /\ \E e \in {Leaving[1]} : \E f \in {EnterEdge(Component, rank, tree, e)} :
       IF f = <<>> \/ ClosesCycle(tree, e, f[1])
       THEN phase' = "failed" /\ UNCHANGED <<tree, rank>>
       ELSE tree' = Exchange(Component, tree, e, f[1]) /\ UNCHANGED <<phase, rank>>
  /\ UNCHANGED <<input, simplex, g, order, todo, sweeps, xss, xy, points>>

(* With stale numbers there may be no edge to enter, and the code throws, or *)
(* one between nodes of one piece: it overflows the stack or works on with a *)
(* tree that is none.  The model ends in both cases.                         *)
ExchangeEdge ==
  /\ phase = "acyclic" /\ tree # NoTree /\ Leaving # <<>>
  /\ tree.next < Len(tree.nodes) + MaxExchanges - 1
  /\ \E e \in {Leaving[1]} : \E f \in {EnterEdge(Component, rank, tree, e)} :
       IF f = <<>> \/ ClosesCycle(tree, e, f[1])
       THEN phase' = "failed" /\ UNCHANGED <<tree, rank>>
       ELSE /\ tree' = Exchange(Component, tree, e, f[1])
            /\ rank' = AdjustRanks(Component, rank, tree', tree'.root)
            /\ UNCHANGED phase
  /\ UNCHANGED <<input, simplex, g, order, todo, sweeps, xss, xy, points>>

NormalizeRanks ==
  /\ phase = "acyclic" /\ tree # NoTree /\ Leaving = <<>>
  /\ LET least == Min({rank[u] : u \in ToSet(todo[1])})
     IN rank' = [u \in DOMAIN rank |-> IF Contains(todo[1], u) THEN rank[u] - least ELSE rank[u]]
  /\ tree' = NoTree /\ todo' = Tail(todo)
  /\ UNCHANGED <<input, simplex, phase, g, order, sweeps, xss, xy, points>>

(* normalize, of one edge: a chain of dummies, the first and last indexed *)
SplitEdge(st, e) ==
  LET from == st.rank[e.u]  to == st.rank[e.v]
      n == to - from - 1
      id(i) == FirstSplit + Cardinality({u \in DOMAIN st.rank : u >= FirstSplit}) + i
      index(i) == IF i = 1 THEN 0 ELSE IF i = n THEN 1 ELSE -1
      dummies == FoldLeft(LAMBDA h, i : AddDummy(h, id(i), [edge |-> e, index |-> index(i)]),
                          st.g, [i \in 1..n |-> i])
      chain == <<e.u>> \o [i \in 1..n |-> id(i)] \o <<e.v>>
  IN IF n < 1 THEN st
     ELSE [g |-> DelEdge(FoldLeft(LAMBDA h, i : NewEdge(h, chain[i], chain[i + 1], 1),
                                  dummies, [i \in 1 .. n + 1 |-> i]), e.id),
           rank |-> st.rank @@ [u \in {id(i) : i \in 1..n} |-> from + u - id(0)]]

(* reorientEdges: an edge that acyclic has turned counts as turned once *)
Reorient(h) ==
  LET turned(e) == [e EXCEPT !.u = e.v, !.v = e.u, !.reversed = TRUE]
  IN FoldLeft(LAMBDA k, e : IF rank[e.u] > rank[e.v] THEN AddEdge(DelEdge(k, e.id), turned(e)) ELSE k,
              h, h.edges)

(* normalize and initOrder.  What becomes of an edge within a rank, which    *)
(* only simplex can leave, is not modelled.                                  *)
Normalize ==
  /\ phase = "acyclic" /\ todo = <<>> /\ phase' = "proper"
  /\ \A i \in DOMAIN g.edges : rank[g.edges[i].u] # rank[g.edges[i].v]
  /\ LET split == FoldLeft(SplitEdge, [g |-> Reorient(g), rank |-> rank], Reorient(g).edges)
     IN g' = split.g /\ rank' = split.rank
  /\ order' = InitOrder(g', rank')
  /\ UNCHANGED <<input, simplex, todo, tree, sweeps, xss, xy, points>>

(* order: sweep down and up until four sweeps in a row were no better *)
Sweep ==
  /\ phase = "proper"
  /\ sweeps.lastBest < 4 /\ sweeps.i < MaxSweeps /\ sweeps.bestCC # 0
  /\ order' = SweepOrder(g, rank, order, sweeps.i % 2 = 0)
  /\ LET cc == CrossCount(g, rank, order')
         better == sweeps.bestCC = -1 \/ cc < sweeps.bestCC
     IN sweeps' = [i |-> sweeps.i + 1,
                   lastBest |-> IF better THEN 1 ELSE sweeps.lastBest + 1,
                   bestCC |-> IF better THEN cc ELSE sweeps.bestCC,
                   best |-> IF better THEN order' ELSE sweeps.best]
  /\ UNCHANGED <<input, simplex, phase, g, rank, todo, tree, xss, xy, points>>

TakeBest ==
  /\ phase = "proper" /\ phase' = "ordered"
  /\ sweeps.lastBest = 4 \/ sweeps.i = MaxSweeps \/ sweeps.bestCC = 0
  /\ order' = sweeps.best
  /\ UNCHANGED <<input, simplex, g, rank, todo, tree, sweeps, xss, xy, points>>

Layers == Layering(g, rank, order)

(* position.run: the four alignments up, left first, then what they agree on *)
Directions == << <<FALSE, FALSE>>, <<FALSE, TRUE>>, <<TRUE, FALSE>>, <<TRUE, TRUE>> >>

Align ==
  /\ phase = "ordered" /\ Len(xss) < 4
  /\ LET d == Directions[Len(xss) + 1]
     IN xss' = Append(xss, Alignment(g, Layers, FindConflicts(g, Layers), d[1], d[2]))
  /\ UNCHANGED <<input, simplex, phase, g, rank, order, todo, tree, sweeps, xy, points>>

Position ==
  /\ phase = "ordered" /\ Len(xss) = 4 /\ phase' = "positioned"
  /\ LET place(x, y) == [u \in ToSet(g.nodes) |-> <<x[u], y[u]>>]
     IN xy' = place(PositionX(g, Layers, xss), PositionY(g, Layers))
  /\ UNCHANGED <<input, simplex, g, rank, order, todo, tree, sweeps, xss, points>>

(* undoNormalize: an indexed dummy is a point of its edge, which comes back *)
RemoveDummy(st, u) ==
  LET d == g.dummy[u]
      known == d.edge.id \in DOMAIN st.points
      kept == [st.g EXCEPT !.nodes = Remove(@, u),
                           !.edges = SelectSeq(@, LAMBDA e : u \notin {e.u, e.v})]
  IN IF d.index = -1 THEN [st EXCEPT !.g = kept]
     ELSE [g |-> IF known THEN kept ELSE AddEdge(kept, d.edge),
           points |-> IF known THEN [st.points EXCEPT ![d.edge.id] = Append(@, xy[u])]
                      ELSE st.points @@ (d.edge.id :> <<xy[u]>>)]

(* undoNormalize, fixupEdgePoints and restoreEdges *)
Undo ==
  /\ phase = "positioned" /\ phase' = "done"
  /\ LET plain == FoldLeft(RemoveDummy, [g |-> g, points |-> <<>>],
                           SelectSeq(g.nodes, LAMBDA u : IsDummy(g, u)))
         flipped(id) == \E i \in DOMAIN plain.g.edges :
                          plain.g.edges[i].id = id /\ plain.g.edges[i].reversed
     IN /\ points' = [id \in DOMAIN plain.points |->
                        IF flipped(id) THEN Reverse(plain.points[id]) ELSE plain.points[id]]
        /\ g' = UndoAcyclic(plain.g)
  /\ UNCHANGED <<input, simplex, rank, order, todo, tree, sweeps, xss, xy>>

LayoutNext ==
  \/ MakeAcyclic \/ BuildTree \/ ExchangeEdge \/ NormalizeRanks
  \/ Normalize \/ Sweep \/ TakeBest \/ Align \/ Position \/ Undo

LayoutSpec == LayoutInit /\ [][LayoutNext]_layoutVars
-----------------------------------------------------------------------------
(* rank.js, feasibleTree.js: from the first ranking on each edge leads down  *)
(* by its minLen, unless the simplex moves its nodes; once split, by exactly *)
(* one rank, whatever the simplex left.                                      *)
LeadsDown == \A i \in DOMAIN g.edges : rank[g.edges[i].v] - rank[g.edges[i].u] >= g.edges[i].minLen
RanksRespectEdges ==
  /\ phase = "acyclic" /\ ~simplex => LeadsDown
  /\ phase \in {"proper", "ordered", "positioned"} =>
       \A i \in DOMAIN g.edges : rank[g.edges[i].v] - rank[g.edges[i].u] = 1

(* simplex.js: the tree spans its component through every exchange.  All of  *)
(* its edges are tight before the first one, and as often as the new root    *)
(* leads to every node: adjustRanks goes no further.                         *)
SomeExchanged == tree.next >= Len(tree.nodes)
RootLeadsToAll == \A u \in ToSet(tree.nodes) \ {tree.root} : Into(tree, u) # <<>>
TreeIsTight ==
  tree # NoTree =>
    /\ ToSet(tree.nodes) = ToSet(todo[1])
    /\ Len(tree.edges) = Len(tree.nodes) - 1
    /\ (SomeExchanged => RootLeadsToAll) =>
         \A i \in DOMAIN tree.edges :
           LET e == tree.edges[i]
           IN rank[e.v] - rank[e.u] = MinimumLength(Component, e.u, e.v)

(* "assigns a rank to each node of the input graph with the intent of        *)
(* minimizing edge lengths, while respecting the `minLen` attribute of       *)
(* incident edges": dagre-d3.js:2510-2512, of rank.run.                      *)
MinLenRespected == phase = "acyclic" /\ todo = <<>> => LeadsDown

RankingSound == RanksRespectEdges /\ TreeIsTight

Crossings ==
  Cardinality({p \in (DOMAIN g.edges) \X (DOMAIN g.edges) :
    LET e == g.edges[p[1]]  f == g.edges[p[2]]
    IN rank[e.u] = rank[f.u] /\ order[e.u] < order[f.u] /\ order[e.v] > order[f.v]})

(* crossCount.js, order.js: the count is that of the pairs of edges that    *)
(* cross, and every rank is ordered by consecutive positions.               *)
CrossingsCounted ==
  phase \in {"proper", "ordered"} =>
    /\ CrossCount(g, rank, order) = Crossings
    /\ phase = "ordered" => Crossings = sweeps.bestCC
    /\ \A u \in DOMAIN rank :
         {order[v] : v \in {w \in DOMAIN rank : rank[w] = rank[u]}}
           = 0 .. Cardinality({w \in DOMAIN rank : rank[w] = rank[u]}) - 1

(* position.js: neighbours of a rank are apart by what both ask for. *)
NodesApart ==
  phase = "positioned" =>
    \A i \in DOMAIN Layers : \A j \in 1 .. Len(Layers[i]) - 1 :
      LET u == Layers[i][j]  v == Layers[i][j + 1]
      IN xy[v][1] - xy[u][1] >= Sep(g, u) + Sep(g, v)

(* layout.js: the graph that comes out is the one that went in, no edge     *)
(* reversed, and the points of an edge lead from its source to its target.  *)
(* Only simplex can turn an edge again that acyclic has turned: it comes    *)
(* back the wrong way round.                                                *)
NoneTurned == \A e \in ToSet(Acyclic(ExpandSelfLoops(InitLayoutGraph(input))).edges) : ~e.reversed
LayoutKeepsGraph ==
  phase = "done" /\ (simplex => NoneTurned) =>
    /\ g.nodes = input.nodes
    /\ ToSet(g.edges) = ToSet(InitLayoutGraph(input).edges)
    /\ \A i \in DOMAIN g.edges :
         LET e == g.edges[i]
             way == <<xy[e.u]>> \o points[e.id] \o <<xy[e.v]>>
             step(k) == way[k + 1][2] - way[k][2]
         IN e.u # e.v => \/ \A k \in 1 .. Len(way) - 1 : step(k) > 0
                         \/ \A k \in 1 .. Len(way) - 1 : step(k) < 0
=============================================================================
