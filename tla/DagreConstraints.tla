--------------------------- MODULE DagreConstraints ---------------------------
(***************************************************************************)
(* Ranks under constraints: nodes that ask for the first rank of their     *)
(* subgraph ("min"), the last ("max") or the one of their like ("same")    *)
(* are merged into one node before dagre ranks the graph, and taken apart  *)
(* again afterwards.  A graph has, besides DagreRank's fields: pref, what  *)
(* nodes ask for; parent, their subgraph (NoGraph: none); original, the    *)
(* edge of the input that an edge stands for; loops, the ids of the edges  *)
(* of expanded self loops; merged, the nodes a new node stands for.        *)
(***************************************************************************)
EXTENDS DagreRank

NoGraph == 0

Constrained(in) ==
  [nodes |-> in.nodes, dummy |-> <<>>, next |-> Len(in.edges),
   edges |-> [i \in DOMAIN in.edges |-> Edge(i, in.edges[i][1], in.edges[i][2], 2)],
   pref |-> in.pref, parent |-> in.parent, original |-> <<>>, loops |-> {}, merged |-> <<>>]

ParentOf(g, u) == IF u \in DOMAIN g.parent THEN g.parent[u] ELSE NoGraph
ChildrenIn(g, sg) == SelectSeq(g.nodes, LAMBDA u : ParentOf(g, u) = sg)
PrefOf(g, u) == IF u \in DOMAIN g.pref THEN g.pref[u] ELSE "none"
IsGroup(g, u) == ChildrenIn(g, u) # <<>>

DelNode(g, u) == [g EXCEPT !.nodes = SelectSeq(@, LAMBDA n : n # u),
                           !.edges = SelectSeq(@, LAMBDA e : u \notin {e.u, e.v})]

(* A copy of e that leads to or from the merged node.  After the first edge *)
(* of a self loop the node's other edges keep their direction too.          *)
RedirectEdge(st, e, u, v) ==
  LET turn == st.reverse /\ e.id \notin st.g.loops
      id == st.g.next + 1
      stands == IF e.id \in DOMAIN st.g.original THEN st.g.original[e.id] ELSE e
  IN [g |-> [NewEdge(st.g, IF turn THEN v ELSE u, IF turn THEN u ELSE v, e.minLen)
               EXCEPT !.original = (id :> stands) @@ @],
      reverse |-> turn]

RedirectInEdges(g, u, newU, reverse) ==
  FoldLeft(LAMBDA st, e : RedirectEdge(st, e, e.u, newU),
           [g |-> g, reverse |-> reverse], Into(g, u)).g

RedirectOutEdges(g, u, newU, reverse) ==
  FoldLeft(LAMBDA st, e : RedirectEdge(st, e, newU, e.v),
           [g |-> g, reverse |-> reverse], OutOf(g, u)).g

(* u goes into the node of its rank, which the first of a kind creates *)
Merge(g, sets, u, sg) ==
  LET p == PrefOf(g, u)
      known == p \in DOMAIN sets
      id == IF known THEN sets[p] ELSE g.next + 1
      there == IF known THEN g
               ELSE [g EXCEPT !.nodes = Append(@, id), !.next = id, !.parent = (id :> sg) @@ @,
                              !.merged = (id :> <<>>) @@ @]
      redirected == RedirectOutEdges(RedirectInEdges(there, u, id, p = "min"), u, id, p = "max")
  IN [g |-> DelNode([redirected EXCEPT !.merged[id] = Append(@, u)], u),
      sets |-> (p :> id) @@ sets]

AddLightEdge(g, u, v) == IF Between(g, u, v) = <<>> THEN NewEdge(g, u, v, 0) ELSE g

AddLightEdges(g, sets, sg) ==
  LET others(h, p) == SelectSeq(ChildrenIn(h, sg), LAMBDA u : u # sets[p] /\ u \notin DOMAIN h.dummy)
      first == IF "min" \notin DOMAIN sets THEN g
               ELSE FoldLeft(LAMBDA h, u : AddLightEdge(h, sets["min"], u), g, others(g, "min"))
  IN IF "max" \notin DOMAIN sets THEN first
     ELSE FoldLeft(LAMBDA h, u : AddLightEdge(h, u, sets["max"]), first, others(first, "max"))

(* apply: a subgraph's own subgraphs come in their turn *)
RECURSIVE Apply(_, _)
Apply(g, sg) ==
  LET visit(st, u) == CASE IsGroup(st.g, u) -> [st EXCEPT !.g = Apply(@, u)]
                        [] ~IsGroup(st.g, u) /\ PrefOf(st.g, u) # "none" -> Merge(st.g, st.sets, u, sg)
                        [] OTHER -> st
      done == FoldLeft(visit, [g |-> g, sets |-> <<>>], ChildrenIn(g, sg))
  IN AddLightEdges(done.g, done.sets, sg)

(* expandSidewaysEdges: an edge inside a merged node becomes a dummy node *)
ExpandSidewaysEdges(g) ==
  LET expand(h, e) ==
        LET id == h.next + 1
            with == AddDummy([h EXCEPT !.next = id], id, [edge |-> h.original[e.id], index |-> 0])
        IN DelEdge(NewEdge(NewEdge(with, e.u, id, 1), id, e.v, 1), e.id)
  IN FoldLeft(expand, g, SelectSeq(g.edges, LAMBDA e : e.u = e.v))

(* relax: merged nodes come apart, which takes their edges away, and the    *)
(* edges of the input come back.                                            *)
RelaxConstraints(g, rank) ==
  LET back == SelectSeq(g.edges, LAMBDA e : e.id \in DOMAIN g.original)
      split(h, u) == DelNode([h EXCEPT !.nodes = @ \o g.merged[u]], u)
      apart == FoldLeft(split, g, SelectSeq(g.nodes, LAMBDA u : u \in DOMAIN g.merged))
      node(u) == CHOOSE n \in DOMAIN g.merged : Contains(g.merged[n], u)
      known(u) == u \in DOMAIN rank
      taken == ToSet(FlattenSeq([i \in DOMAIN g.nodes |->
                 IF g.nodes[i] \in DOMAIN g.merged THEN g.merged[g.nodes[i]] ELSE <<>>]))
  IN [g |-> FoldLeft(LAMBDA h, e : AddEdge(h, g.original[e.id]), apart, back),
      rank |-> [u \in {n \in ToSet(apart.nodes) : n \in taken \/ known(n)} |->
                  IF u \in taken THEN rank[node(u)] ELSE rank[u]]]

-----------------------------------------------------------------------------
(* filterNodes without subgraphs, and the ranks of one component of that *)
Flat(g) ==
  LET leaves == SelectSeq(g.nodes, LAMBDA u : ~IsGroup(g, u))
  IN [nodes |-> leaves,
      edges |-> SelectSeq(g.edges, LAMBDA e : {e.u, e.v} \subseteq ToSet(leaves))]

RankComponent(flat, rank, members) ==
  LET part == [nodes |-> SelectSeq(flat.nodes, LAMBDA u : Contains(members, u)),
               edges |-> SelectSeq(flat.edges, LAMBDA e : Contains(members, e.u))]
      tight == FeasibleTree(part, [u \in ToSet(members) |-> rank[u]]).rank
      least == CHOOSE n \in {tight[u] : u \in ToSet(members)} :
                 \A u \in ToSet(members) : n <= tight[u]
  IN [u \in ToSet(members) |-> tight[u] - least] @@ rank

(* reorientEdges *)
Onward(g, rank) ==
  FoldLeft(LAMBDA h, e : IF rank[e.u] > rank[e.v] THEN Flip(h, e) ELSE h, g, g.edges)

(* The loops' edges are those that expandSelfLoops drew ids for *)
Looped(g) == LET open == ExpandSelfLoops(g)
             IN [open EXCEPT !.loops = {open.edges[i].id : i \in DOMAIN open.edges} \ (1 .. g.next)]

-----------------------------------------------------------------------------
CONSTANT Wishes      \* the graphs to rank: nodes, edges, pref and parent

VARIABLES
  wish,      \* one of them
  merged,    \* the graph that stands for it while it is ranked
  ranks,
  stage      \* what was done last

constraintVars == <<wish, merged, ranks, stage>>

ConstraintInit ==
  /\ wish \in Wishes /\ merged = Constrained(wish)
  /\ ranks = <<>> /\ stage = "read"

Applied ==
  /\ stage = "read" /\ stage' = "applied"
  /\ merged' = Apply(Looped(merged), NoGraph)
  /\ UNCHANGED <<wish, ranks>>

Opened ==
  /\ stage = "applied" /\ stage' = "acyclic"
  /\ merged' = Acyclic(ExpandSidewaysEdges(merged))
  /\ UNCHANGED <<wish, ranks>>

Ranked ==
  /\ stage = "acyclic" /\ stage' = "ranked"
  /\ LET flat == Flat(merged)
     IN ranks' = FoldLeft(LAMBDA r, c : RankComponent(flat, r, c), InitRank(flat),
                          Components(Plain(flat)))
  /\ UNCHANGED <<wish, merged>>

Relaxed ==
  /\ stage = "ranked" /\ stage' = "relaxed"
  /\ \E free \in {RelaxConstraints(merged, ranks)} :
       merged' = Onward(free.g, free.rank) /\ ranks' = free.rank
  /\ UNCHANGED wish

ConstraintNext == Applied \/ Opened \/ Ranked \/ Relaxed
ConstraintSpec == ConstraintInit /\ [][ConstraintNext]_constraintVars

-----------------------------------------------------------------------------
(* Merging and taking apart leaves the graph as it was: its nodes, and each *)
(* edge once, pointing to a later rank as far as it asks for; an edge       *)
(* inside a merged node is left to one dummy node without edges, as a self  *)
(* loop is left to three.                                                   *)
GraphComesBack ==
  LET nodes == ToSet(wish.nodes)
      ends(i) == {wish.edges[i][1], wish.edges[i][2]}
      found(i) == {e \in ToSet(merged.edges) : e.id = i}
      standins(i) == {d \in ToSet(merged.nodes) \ nodes : merged.dummy[d].edge.id = i}
  IN stage = "relaxed" =>
     /\ nodes \subseteq ToSet(merged.nodes) /\ ToSet(merged.nodes) \ nodes = DOMAIN merged.dummy
     /\ Len(merged.nodes) = Cardinality(ToSet(merged.nodes))
     /\ \A i \in DOMAIN wish.edges :
          /\ Cardinality(found(i)) + Cardinality(standins(i)) = IF Cardinality(ends(i)) = 1 THEN 3 ELSE 1
          /\ \A e \in found(i) : {e.u, e.v} = ends(i) /\ ranks[e.u] + 2 <= ranks[e.v]

(* Nodes that ask for the same get one rank, and the first and the last     *)
(* rank of a subgraph go to those that ask for them, unless a self loop     *)
(* keeps the edges of such a node from being turned.                        *)
WishesGranted ==
  LET like(u, v) == wish.parent[u] = wish.parent[v]
      looped == \E i \in DOMAIN wish.edges : wish.edges[i][1] = wish.edges[i][2]
      ranked == {u \in ToSet(wish.nodes) : \A v \in ToSet(wish.nodes) : wish.parent[v] # u}
  IN \A u, v \in ranked :
       stage = "relaxed" /\ like(u, v) =>
                     /\ wish.pref[u] = wish.pref[v] /\ wish.pref[u] # "none" => ranks[u] = ranks[v]
                     /\ wish.pref[u] = "min" /\ ~looped => ranks[u] <= ranks[v]
                     /\ wish.pref[u] = "max" /\ ~looped => ranks[u] >= ranks[v]

(* Ranking under constraints gives the graph back and grants the wishes. *)
ConstraintsHold == GraphComesBack /\ WishesGranted
=============================================================================
