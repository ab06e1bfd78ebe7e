------------------------------ MODULE DagreOrder ------------------------------
(***************************************************************************)
(* The order and position phases of dagre's layout, for a graph whose      *)
(* edges lead from one rank to the next.  Barycenters are exact fractions  *)
(* where the code has doubles, and coordinates are counted in quarters, so *)
(* that what the code halves twice stays a whole number.                   *)
(***************************************************************************)
EXTENDS DagreRank

CONSTANTS
  NodeWidth, NodeHeight,  \* along and across the ranks, by id of a node
  LabelWidth,             \* of every edge's label; it has no height
  NodeSep, EdgeSep, RankSep

Top0(rank) == LET R == {rank[u] : u \in DOMAIN rank} IN Max(R)
By(s, Key(_)) ==
  LET before(i, j) == Key(s[i]) < Key(s[j]) \/ (Key(s[i]) = Key(s[j]) /\ i < j)
      idx == SortSeq(Ids(s), before)
  IN Table([i \in DOMAIN idx |-> s[idx[i]]])

(* util.ordering: layer r of the code is Layering[r + 1] *)
Layering(g, rank, order) ==
  Table([r \in 1 .. Top0(rank) + 1 |->
           By(SelectSeq(g.nodes, LAMBDA u : rank[u] = r - 1), LAMBDA u : order[u])])

(* initOrder *)
InitOrder(g, rank) ==
  [u \in DOMAIN rank |->
     LET layer == SelectSeq(g.nodes, LAMBDA v : rank[v] = rank[u])
     IN SelectInSeq(layer, LAMBDA v : v = u) - 1]

(* twoLayerCrossCount: an accumulator tree over the positions in the lower   *)
(* layer; node i of the tree has the children 2i + 1 and 2i + 2             *)
RECURSIVE PowerFrom(_, _)
PowerFrom(p, n) == IF p < n THEN PowerFrom(2 * p, n) ELSE p

RECURSIVE Climb(_, _)
Climb(st, i) ==
  IF i = 0 THEN st
  ELSE LET parent == (i - 1) \div 2
       IN Climb([tree |-> [st.tree EXCEPT ![parent] = @ + 1],
                 cc |-> st.cc + (IF i % 2 = 1 THEN st.tree[i + 1] ELSE 0)], parent)

TwoLayerCrossCount(g, order, upper, lower) ==
  LET ends(u) == LET out == OutOf(g, u)
                 IN By([i \in DOMAIN out |-> order[out[i].v]], LAMBDA n : n)
      first == PowerFrom(1, Len(lower))
      count(st, n) == LET i == n + first - 1
                      IN Climb([st EXCEPT !.tree[i] = @ + 1], i)
  IN FoldLeft(count, [tree |-> [i \in 0 .. 2 * first - 2 |-> 0], cc |-> 0],
              FlattenSeq([i \in DOMAIN upper |-> ends(upper[i])])).cc

CrossCount(g, rank, order) ==
  LET layers == Layering(g, rank, order)
  IN FoldLeft(LAMBDA n, i : n + TwoLayerCrossCount(g, order, layers[i], layers[i + 1]),
              0, Ids(Tail(layers)))

(* adjustWeights, and the barycenter <<a, b>> = a/b of a node: its weights   *)
(* stretched to the layer's width, or its own position without any          *)
Barycenter(layer, weights, order, u) ==
  LET all == FlattenSeq([i \in DOMAIN layer |-> weights[layer[i]]])
      least == Min(ToSet(all))
      range == Max({0} \cup ToSet(all)) - least
      ws == weights[u]
      n  == Len(layer)
  IN IF ws = <<>> THEN <<order[u], 1>>
     ELSE IF range = 0 THEN <<2 * n - 1, 2>>
     ELSE <<FoldLeft(LAMBDA s, w : s + (w - least), 0, ws) * (n - 1), range * Len(ws)>>

(* sortLayer, without subgraphs *)
SortLayer(layer, weights, order) ==
  LET bary == Table([i \in DOMAIN layer |-> Barycenter(layer, weights, order, layer[i])])
      before(i, j) == LET p == bary[i][1] * bary[j][2]  q == bary[j][1] * bary[i][2]
                      IN p < q \/ (p = q /\ order[layer[i]] < order[layer[j]])
      sorted == SortSeq(Ids(layer), before)
  IN Table([i \in DOMAIN sorted |-> layer[sorted[i]]])

(* sweepDown sorts every layer by its predecessors, sweepUp by successors *)
SweepOrder(g, rank, order, down) ==
  LET layers == Layering(g, rank, order)
      weights(o, u) == IF down THEN LET in == Into(g, u) IN [i \in DOMAIN in |-> o[in[i].u]]
                               ELSE LET out == OutOf(g, u) IN [i \in DOMAIN out |-> o[out[i].v]]
      sort(o, layer) ==
        LET sorted == SortLayer(layer, Table([u \in ToSet(layer) |-> weights(o, u)]), o)
        IN [u \in ToSet(sorted) |-> SelectInSeq(sorted, LAMBDA v : v = u) - 1] @@ o
  IN FoldLeft(sort, order, IF down THEN Tail(layers) ELSE Tail(Reverse(layers)))
-----------------------------------------------------------------------------
IsDummy(g, u) == u \in DOMAIN g.dummy
Width(g, u) == IF ~IsDummy(g, u) THEN NodeWidth[u]
               ELSE IF g.dummy[u].edge.u = g.dummy[u].edge.v /\ g.dummy[u].index # 1 THEN 0
               ELSE LabelWidth
Height(g, u) == IF IsDummy(g, u) THEN 0 ELSE NodeHeight[u]
Sep(g, u) == 2 * (Width(g, u) + IF IsDummy(g, u) THEN EdgeSep ELSE NodeSep)

(* what the passes below look up: positions, left neighbours, predecessors *)
Pos(layers) == FoldLeft(LAMBDA f, l : f @@ [u \in ToSet(l) |-> SelectInSeq(l, LAMBDA v : v = u) - 1],
                        <<>>, layers)
LeftOf(layers) ==
  FoldLeft(LAMBDA f, l : f @@ [u \in ToSet(l) |-> LET i == SelectInSeq(l, LAMBDA v : v = u)
                                                   IN IF i = 1 THEN <<>> ELSE <<l[i - 1]>>],
           <<>>, layers)
Related(g, down) ==
  LET p == Plain(g)
  IN Table([u \in ToSet(g.nodes) |-> IF down THEN Successors(p, u) ELSE Predecessors(p, u)])

(* findConflicts: edges that cross an inner segment, from the second layer on *)
FindConflicts(g, layers) ==
  LET pos == Pos(layers)
      preds == Related(g, FALSE)
      between(prev, curr) ==
        LET inner(u) == IF IsDummy(g, u) /\ preds[u] # <<>> /\ IsDummy(g, preds[u][1])
                          THEN {pos[preds[u][1]]} ELSE {}
            k1(l) == IF inner(curr[l]) # {} THEN inner(curr[l])
                     ELSE IF l = Len(curr) THEN {Len(prev) - 1} ELSE {}
            crossing(st, l, k) ==
              UNION {{{curr[j], v} : v \in {p \in ToSet(preds[curr[j]]) :
                                              pos[p] < st.k0 \/ pos[p] > k}} : j \in st.l .. l}
            scan(st, l) ==
              FoldLeft(LAMBDA s, k : [k0 |-> k, l |-> l + 1, found |-> s.found \cup crossing(s, l, k)],
                       st, SetToSeq(k1(l)))
        IN FoldLeft(scan, [k0 |-> 0, l |-> 1, found |-> {}], Ids(curr)).found
  IN UNION {between(layers[i], layers[i + 1]) : i \in 2 .. Len(layers) - 1}

(* verticalAlignment: blocks of nodes aligned with a median neighbour *)
VerticalAlignment(layers, conflicts, related) ==
  LET pos == Pos(layers)
      N == DOMAIN pos
      medians(v) == LET s == By(related[v], LAMBDA u : pos[u])
                    IN SubSeq(s, (Len(s) + 1) \div 2, Len(s) \div 2 + 1)
      try(st, v, u) ==
        IF st.align[v] = v /\ {u, v} \notin conflicts /\ st.prev < pos[u]
          THEN [prev  |-> pos[u],
                root  |-> [st.root EXCEPT ![v] = st.root[u]],
                align |-> [st.align EXCEPT ![u] = v, ![v] = st.root[u]]]
          ELSE st
      one(st, v) == IF related[v] = <<>> THEN st
                    ELSE FoldLeft(LAMBDA s, u : try(s, v, u), st, medians(v))
      layer(st, l) == FoldLeft(one, [st EXCEPT !.prev = -1], l)
  IN FoldLeft(layer, [prev |-> -1, root |-> [u \in N |-> u], align |-> [u \in N |-> u]], layers)

(* placeBlock: xs of the block of v, next to the blocks on its left *)
RECURSIVE PlaceBlock(_, _, _, _, _)
PlaceBlock(sep, left, a, st, v) ==
  LET sunk(t, u) == IF t.sink[v] = v THEN [t EXCEPT !.sink[v] = t.sink[u]] ELSE t
      lessen(maybe, key, gap) ==
        (key :> (IF key \in DOMAIN maybe THEN Min({maybe[key], gap}) ELSE gap)) @@ maybe
      apart(t, u, delta) ==
        IF t.sink[v] = t.sink[u] THEN [t EXCEPT !.xs[v] = Max({@, t.xs[u] + delta})]
        ELSE [t EXCEPT !.maybe = lessen(@, <<t.sink[u], t.sink[v]>>, t.xs[v] - t.xs[u] - delta)]
      beside(s, w, p) ==
        apart(sunk(PlaceBlock(sep, left, a, s, a.root[p]), a.root[p]), a.root[p], sep[p] + sep[w])
      RECURSIVE Block(_, _)
      Block(s, w) == LET t == FoldLeft(LAMBDA r, p : beside(r, w, p), s, left[w])
                     IN IF a.align[w] = v THEN t ELSE Block(t, a.align[w])
  IN IF v \in DOMAIN st.xs THEN st ELSE Block([st EXCEPT !.xs = @ @@ (v :> 0)], v)

(* horizontalCompaction: every block, then the shifts of whole classes *)
Classes(nodes, a, placed) ==
  LET moves(shift, v) == {placed.maybe[k] + (IF k[2] \in DOMAIN shift THEN shift[k[2]] ELSE 0) :
                            k \in {j \in DOMAIN placed.maybe : j[1] = v}}
      heads == SelectSeq(nodes, LAMBDA v : a.root[v] = v /\ placed.sink[v] = v)
  IN FoldLeft(LAMBDA s, v : s @@ (v :> Min(moves(s, v) \cup (IF moves(s, v) = {} THEN {0} ELSE {}))),
              <<>>, heads)

Shifted(a, placed, shift) ==
  LET classOf(v) == placed.sink[a.root[v]]
  IN Table([v \in DOMAIN a.root |->
        placed.xs[a.root[v]] + (IF classOf(v) \in DOMAIN shift THEN shift[classOf(v)] ELSE 0)])

PlaceBlocks(sep, left, a, nodes) ==
  FoldLeft(LAMBDA s, v : PlaceBlock(sep, left, a, s, a.root[v]),
           [xs |-> <<>>, sink |-> [u \in ToSet(nodes) |-> u], maybe |-> <<>>], nodes)

HorizontalCompaction(g, layers, a) ==
  LET nodes == FlattenSeq(layers)
      compact(placed) == Shifted(a, placed, Classes(nodes, a, placed))
  IN compact(PlaceBlocks(Table([u \in ToSet(nodes) |-> Sep(g, u)]), LeftOf(layers), a, nodes))

(* the four alignments of run: up or down, left or right *)
Alignment(g, layers, conflicts, down, right) ==
  LET turned(ls) == IF right THEN Table([i \in DOMAIN ls |-> Table(Reverse(ls[i]))]) ELSE Table(ls)
      back(xs)   == IF right THEN Table([u \in DOMAIN xs |-> -xs[u]]) ELSE xs
      aligned(ls) == HorizontalCompaction(g, ls, VerticalAlignment(ls, conflicts, Related(g, down)))
  IN back(aligned(turned(IF down THEN Reverse(layers) ELSE layers)))

(* balance: all four are moved to the narrowest one, the left ones to its    *)
(* left border and the right ones to its right border                       *)
Balanced(layers, xss) ==
  LET least(xs) == Min({xs[layers[i][1]] : i \in DOMAIN layers})
      most(xs)  == Max({xs[Last(layers[i])] : i \in DOMAIN layers})
      width == Table([k \in 1..4 |-> most(xss[k]) - least(xss[k])])
      narrowest == CHOOSE k \in 1..4 : \A j \in 1..4 :
                     width[k] < width[j] \/ (width[k] = width[j] /\ k <= j)
      move(s, k) == IF k % 2 = 1 THEN least(s) - least(xss[k]) ELSE most(s) - most(xss[k])
      moved(s) == Table([k \in 1..4 |-> Table([u \in DOMAIN xss[k] |-> xss[k][u] + move(s, k)])])
  IN moved(xss[narrowest])

(* run: the mean of the two middle values of the four, from 0 on *)
FromZero(x, half) ==
  LET from(least) == [u \in DOMAIN x |-> x[u] - least]
  IN from(Min({x[u] - half[u] : u \in DOMAIN x}))

PositionX(g, layers, xss) ==
  LET mean(s) == (s[2] + s[3]) \div 2
      middle(four) == Table([u \in ToSet(g.nodes) |->
                         mean(By([k \in 1..4 |-> four[k][u]], LAMBDA x : x))])
  IN FromZero(middle(Balanced(layers, xss)), [u \in ToSet(g.nodes) |-> 2 * Width(g, u)])

PositionY(g, layers) ==
  LET half(layer) == 2 * Max({Height(g, u) : u \in ToSet(layer)})
      down(st, layer) == [next |-> st.next + 2 * half(layer) + 2 * RankSep,
                          y |-> st.y @@ [u \in ToSet(layer) |-> st.next + half(layer)]]
  IN FromZero(FoldLeft(down, [next |-> 0, y |-> <<>>], layers).y,
              [u \in ToSet(g.nodes) |-> 2 * Height(g, u)])
=============================================================================
