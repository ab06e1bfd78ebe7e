------------------------------ MODULE DagreRank ------------------------------
(***************************************************************************)
(* The rank phase of dagre's layout: self loops become dummy nodes, cycles *)
(* are broken by reversing edges, and every connected component gets ranks *)
(* from a tight spanning tree, which network simplex may improve.  A graph *)
(* here is what the phase works on: nodes, a sequence of ids; edges, a     *)
(* sequence of records in the order eachEdge visits them; dummy, what the  *)
(* dummy nodes stand for; next, the graph's _nextId.                       *)
(***************************************************************************)
EXTENDS GraphAlgorithms, TLC

Plain(g) == [nodes |-> g.nodes,
             edges |-> [i \in DOMAIN g.edges |-> <<g.edges[i].u, g.edges[i].v>>]]
OutOf(g, u) == SelectSeq(g.edges, LAMBDA e : e.u = u)
Into(g, u) == SelectSeq(g.edges, LAMBDA e : e.v = u)
Between(g, u, v) == SelectSeq(g.edges, LAMBDA e : e.u = u /\ e.v = v)

Edge(id, u, v, minLen) ==
  [id |-> id, u |-> u, v |-> v, minLen |-> minLen, reversed |-> FALSE]

DelEdge(g, id) == [g EXCEPT !.edges = SelectSeq(@, LAMBDA e : e.id # id)]
AddEdge(g, e) == [g EXCEPT !.edges = Append(@, e)]

(* delEdge, reversed = true, addEdge: the edge is now the last one *)
Flip(g, e) == AddEdge(DelEdge(g, e.id), [e EXCEPT !.u = e.v, !.v = e.u, !.reversed = ~@])

(* addNode(null) and addEdge(null) draw ids from one counter *)
AddDummy(g, id, d) ==
  [g EXCEPT !.nodes = Append(@, id), !.dummy = @ @@ (id :> d)]
NewEdge(g, u, v, minLen) ==
  [AddEdge(g, Edge(g.next + 1, u, v, minLen)) EXCEPT !.next = @ + 1]

(* expandSelfLoops: x above the node, y beside it, z below *)
ExpandLoop(g, e) ==
  LET d(i) == [edge |-> e, index |-> i]
      x == g.next + 1  y == g.next + 2  z == g.next + 3
      with == AddDummy(AddDummy(AddDummy([g EXCEPT !.next = @ + 3], x, d(0)), y, d(1)), z, d(2))
      ends == <<<<x, e.u>>, <<x, y>>, <<e.u, z>>, <<y, z>>>>
  IN DelEdge(FoldLeft(LAMBDA h, uv : NewEdge(h, uv[1], uv[2], 1), with, ends), e.id)

ExpandSelfLoops(g) ==
  FoldLeft(ExpandLoop, g, SelectSeq(g.edges, LAMBDA e : e.u = e.v))

(* acyclic *)
RECURSIVE BreakCycles(_, _, _)
BreakCycles(st, u, onStack) ==
  IF u \in st.visited THEN st
  ELSE LET on == onStack \cup {u}
           follow(s, e) == IF e.v \in on THEN [s EXCEPT !.g = Flip(@, e)]
                                         ELSE BreakCycles(s, e.v, on)
       IN FoldLeft(follow, [st EXCEPT !.visited = @ \cup {u}], OutOf(st.g, u))

Acyclic(g) ==
  FoldLeft(LAMBDA s, u : BreakCycles(s, u, {}), [g |-> g, visited |-> {}], g.nodes).g

UndoAcyclic(g) ==
  FoldLeft(LAMBDA h, e : IF e.reversed THEN Flip(h, e) ELSE h, g, g.edges)

(* initRank *)
MaxOf(s) == FoldLeft(LAMBDA m, x : IF x > m THEN x ELSE m, s[1], s)
InitRank(g) ==
  LET settle(r, u) ==
        LET in == Into(g, u)
        IN r @@ (u :> IF in = <<>> THEN 0
                      ELSE MaxOf([i \in DOMAIN in |-> r[in[i].u] + in[i].minLen]))
  IN FoldLeft(settle, <<>>, Topsort(Plain(g)).order)
-----------------------------------------------------------------------------
Slack(g, rank, u, v) ==
  rank[v] - rank[u] - MaxOf([i \in DOMAIN Between(g, u, v) |-> Between(g, u, v)[i].minLen])

(* feasibleTree.  A tree's edges have the direction of the graph's; those   *)
(* found from their target are `reversed`, and may lead to the root.        *)
NoTree == [nodes |-> <<>>, edges |-> <<>>, root |-> 0, next |-> 0, low |-> <<>>, lim |-> <<>>]
TreeEdge(id, u, v, reversed) ==
  [id |-> id, u |-> u, v |-> v, reversed |-> reversed, cut |-> 0]

(* addTightEdges: the scan of one neighbour w of v *)
RECURSIVE AddTightEdges(_, _, _, _)
AddTightEdges(g, rank, tree, v) ==
  LET out(t, w) == ~Contains(t.nodes, w)
      grow(t, w, reversed) ==
        LET rooted == IF out(t, v) THEN [t EXCEPT !.nodes = Append(@, v), !.root = v] ELSE t
        IN AddTightEdges(g, rank,
             [rooted EXCEPT !.nodes = Append(@, w), !.next = @ + 1,
                            !.edges = Append(@, IF reversed THEN TreeEdge(rooted.next + 1, w, v, TRUE)
                                                ELSE TreeEdge(rooted.next + 1, v, w, FALSE))], w)
      above(t, u) == IF out(t, u) /\ Slack(g, rank, u, v) = 0 THEN grow(t, u, TRUE) ELSE t
      below(t, w) == IF out(t, w) /\ Slack(g, rank, v, w) = 0 THEN grow(t, w, FALSE) ELSE t
  IN FoldLeft(below, FoldLeft(above, tree, Predecessors(Plain(g), v)), Successors(Plain(g), v))

(* the scan stops at the first node that added anything *)
ScanTight(g, rank, tree) ==
  FoldLeft(LAMBDA t, v : IF t.next # tree.next THEN t ELSE AddTightEdges(g, rank, t, v),
           tree, IF tree.nodes = <<>> THEN g.nodes ELSE tree.nodes)

(* createTightEdge: how far the tree moves to make one more edge tight *)
Abs(n) == IF n < 0 THEN -n ELSE n
LeastSlack(g, rank, tree) ==
  LET closer(m, s) == IF m = {} \/ \E n \in m : Abs(s) < Abs(n) THEN {s} ELSE m
      from(v) == LET ps == SelectSeq(Predecessors(Plain(g), v), LAMBDA u : Contains(tree.nodes, u))
                     ss == SelectSeq(Successors(Plain(g), v), LAMBDA w : Contains(tree.nodes, w))
                 IN [i \in DOMAIN ps |-> -Slack(g, rank, ps[i], v)]
                      \o [i \in DOMAIN ss |-> Slack(g, rank, v, ss[i])]
      outside == SelectSeq(g.nodes, LAMBDA u : ~Contains(tree.nodes, u))
      least == FoldLeft(closer, {}, FlattenSeq([i \in DOMAIN outside |-> from(outside[i])]))
  IN CHOOSE n \in least : TRUE

RECURSIVE GrowTree(_, _, _)
GrowTree(g, rank, tree) ==
  LET scanned == ScanTight(g, rank, tree)
  IN IF Len(scanned.nodes) = Len(g.nodes) THEN [tree |-> scanned, rank |-> rank]
     ELSE LET d == LeastSlack(g, rank, scanned)
          IN GrowTree(g, [u \in ToSet(scanned.nodes) |-> rank[u] - d] @@ rank, scanned)

FeasibleTree(g, rank) ==
  IF Len(g.nodes) = 1
    THEN [tree |-> [NoTree EXCEPT !.nodes = g.nodes, !.root = g.nodes[1]], rank |-> rank]
    ELSE GrowTree(g, rank, NoTree)
-----------------------------------------------------------------------------
(* computeLowLim: postorder numbers, laid over those of earlier trees: a    *)
(* node that no path from the root leads to keeps what it has.  One that    *)
(* has none yet compares as undefined does, false with everything.          *)
ChildrenOf(tree, n) == Successors(Plain(tree), n)

RECURSIVE Number(_, _, _)
Number(tree, n, st) ==
  LET below == FoldLeft(LAMBDA s, c : Number(tree, c, s), st, ChildrenOf(tree, n))
  IN [low |-> (n :> st.next) @@ below.low, lim |-> (n :> below.next) @@ below.lim,
      next |-> below.next + 1]

LowLim(tree) ==
  LET st == Number(tree, tree.root, [low |-> tree.low, lim |-> tree.lim, next |-> 0])
  IN [tree EXCEPT !.low = st.low, !.lim = st.lim]

InSubtree(tree, n, root) ==
  /\ {n, root} \subseteq DOMAIN tree.lim
  /\ tree.low[root] <= tree.lim[n] /\ tree.lim[n] <= tree.lim[root]

(* setCutValue: edges of the graph between child's subtree and the rest *)
CountOf(s, Test(_)) == Len(SelectSeq(s, Test))
SetCutValue(g, tree, child) ==
  LET kids == OutOf(tree, child)
      into(x, k) == InSubtree(tree, x, kids[k].v)
      perKid(s, end(_)) ==
        FoldLeft(LAMBDA n, k : n + CountOf(s, LAMBDA e : into(end(e), k)), 0, Ids(kids))
      source(e) == e.u
      target(e) == e.v
      toKids   == perKid(OutOf(g, child), target)
      fromKids == perKid(Into(g, child), source)
      leaving  == CountOf(OutOf(g, child), LAMBDA e : ~InSubtree(tree, e.v, child))
      entering == CountOf(Into(g, child), LAMBDA e : ~InSubtree(tree, e.u, child))
      kidSum == FoldLeft(LAMBDA n, e : IF e.reversed THEN n - e.cut ELSE n + e.cut, 0, kids)
      parent == Into(tree, child)[1]
      cut == kidSum - toKids + fromKids - leaving + entering
  IN [tree EXCEPT !.edges = [i \in DOMAIN @ |->
        IF @[i].id = parent.id
          THEN [@[i] EXCEPT !.cut = IF parent.reversed THEN -cut ELSE cut]
          ELSE @[i]]]

RECURSIVE PropagateCuts(_, _, _)
PropagateCuts(g, tree, n) ==
  LET below == FoldLeft(LAMBDA t, c : PropagateCuts(g, t, c), tree, ChildrenOf(tree, n))
  IN IF n = tree.root THEN below ELSE SetCutValue(g, below, n)

InitCutValues(g, tree) ==
  PropagateCuts(g, LowLim([tree EXCEPT !.edges = [i \in DOMAIN @ |-> [@[i] EXCEPT !.cut = 0]]]),
                tree.root)

LeaveEdge(tree) == SelectSeq(tree.edges, LAMBDA e : e.cut < 0)

(* enterEdge.  The id of a tree's edge is compared with those of the        *)
(* graph's edges, which were drawn from a counter of their own.             *)
EnterEdge(g, rank, tree, e) ==
  LET lower == IF /\ {e.u, e.v} \subseteq DOMAIN tree.lim
                  /\ tree.lim[e.v] < tree.lim[e.u] THEN e.v ELSE e.u
      inside(n) == InSubtree(tree, n, lower)
      crosses(f) == /\ f.id # e.id
                    /\ IF e.reversed THEN ~inside(f.u) /\ inside(f.v)
                                     ELSE inside(f.u) /\ ~inside(f.v)
      slack(f) == Abs(rank[f.u] - rank[f.v]) - f.minLen
      closer(m, f) == IF m = <<>> \/ slack(f) < slack(m[1]) THEN <<f>> ELSE m
  IN FoldLeft(closer, <<>>, SelectSeq(g.edges, crosses))

RECURSIVE Redirect(_, _)
Redirect(tree, v) ==
  FoldLeft(LAMBDA t, e : Flip(Redirect(t, e.u), e), tree, Into(tree, v))

RECURSIVE Top(_, _)
Top(tree, n) == LET in == Into(tree, n) IN IF in = <<>> THEN n ELSE Top(tree, in[1].u)

MinimumLength(g, u, v) ==
  LET lens(es) == MaxOf([i \in DOMAIN es |-> es[i].minLen])
  IN IF Between(g, u, v) # <<>> THEN lens(Between(g, u, v)) ELSE -lens(Between(g, v, u))

RECURSIVE AdjustRanks(_, _, _, _)
AdjustRanks(g, rank, tree, p) ==
  FoldLeft(LAMBDA r, c : AdjustRanks(g, [r EXCEPT ![c] = r[p] + MinimumLength(g, p, c)], tree, c),
           rank, ChildrenOf(tree, p))

(* the ends of f are in one piece of the tree without e *)
ClosesCycle(tree, e, f) ==
  LET rest == Plain(DelEdge(tree, e.id))
  IN \E i \in DOMAIN Components(rest) : {f.u, f.v} \subseteq ToSet(Components(rest)[i])

(* exchange: e leaves the tree, f enters it; adjustRanks comes next *)
Exchange(g, tree, e, f) ==
  LET linked(t) == [t EXCEPT !.root = Top(t, f.u), !.next = @ + 1,
                             !.edges = Append(@, TreeEdge(t.next + 1, f.u, f.v, FALSE))]
  IN InitCutValues(g, linked(Redirect(DelEdge(tree, e.id), f.v)))
=============================================================================
