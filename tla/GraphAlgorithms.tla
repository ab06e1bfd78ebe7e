--------------------------- MODULE GraphAlgorithms ---------------------------
(***************************************************************************)
(* graphlib's algorithms and cp-data's PriorityQueue, as the dagre-d3      *)
(* bundle carries them.  A graph is a record: nodes is the sequence        *)
(* eachNode visits, edges a sequence of <<u, v>> whose indices are the     *)
(* edges' ids.  The weight of an edge is w[e].  The operators are          *)
(* recursive, as the code is; the module serves TLC's runs only.           *)
(***************************************************************************)
EXTENDS Integers, SequencesExt

(* The function f.  TLC evaluates [x \in S |-> e] anew at each application   *)
(* and f @@ g only once.                                                    *)
Table(f) == f @@ <<>>

Ids(s) == [i \in DOMAIN s |-> i]
EdgeIds(g, Test(_)) == SelectSeq(Ids(g.edges), Test)
Distinct(s) == FoldLeft(LAMBDA r, x : IF Contains(r, x) THEN r ELSE Append(r, x), <<>>, s)

(* what the inEdges and outEdges maps of Digraph and incidentEdges of Graph give *)
OutEdges(g, u) == EdgeIds(g, LAMBDA e : g.edges[e][1] = u)
InEdges(g, u) == EdgeIds(g, LAMBDA e : g.edges[e][2] = u)
IncidentEdges(g, u) == EdgeIds(g, LAMBDA e : u \in ToSet(g.edges[e]))
Successors(g, u) == LET out == OutEdges(g, u)
                    IN Distinct([i \in DOMAIN out |-> g.edges[out[i]][2]])
Predecessors(g, u) == LET in == InEdges(g, u)
                      IN Distinct([i \in DOMAIN in |-> g.edges[in[i]][1]])
Sinks(g) == SelectSeq(g.nodes, LAMBDA u : OutEdges(g, u) = <<>>)

(* the end of e that is not u, which a self loop does not have *)
OtherEnd(g, e, u) == IF g.edges[e][1] # u THEN g.edges[e][1] ELSE g.edges[e][2]

(* Graph.neighbors, and Digraph.neighbors: successors first *)
Neighbors(g, u) ==
  LET es == IncidentEdges(g, u)
  IN Distinct([i \in DOMAIN es |-> OtherEnd(g, es[i], u)])
-----------------------------------------------------------------------------
(* PriorityQueue: the array starts at 1 here, so the children the code gives *)
(* index i, 2i and 2i + 1, are 2i - 1 and 2i.                               *)
Entry(key, pri) == [key |-> key, pri |-> pri]

Swapped(h, i, j) == [h EXCEPT ![i] = h[j], ![j] = h[i]]

RECURSIVE Heapify(_, _)
Heapify(h, i) ==
  LET smaller(j, k) == IF j <= Len(h) /\ h[j].pri < h[k].pri THEN j ELSE k
      least == smaller(2 * i, smaller(2 * i - 1, i))
  IN IF least = i THEN h ELSE Heapify(Swapped(h, i, least), least)

RECURSIVE SiftUp(_, _)
SiftUp(h, i) ==
  LET parent == (i - 1) \div 2 + 1
  IN IF i = 1 \/ h[parent].pri < h[i].pri THEN h
     ELSE SiftUp(Swapped(h, i, parent), parent)

QueueAdd(h, key, pri) ==
  IF \E i \in DOMAIN h : h[i].key = key THEN h
  ELSE SiftUp(Append(h, Entry(key, pri)), Len(h) + 1)

QueueMin(h) == h[1].key
QueueRest(h) == LET s == Front(Swapped(h, 1, Len(h)))
                IN IF s = <<>> THEN s ELSE Heapify(s, 1)
InQueue(h, key) == \E i \in DOMAIN h : h[i].key = key
IndexOf(h, key) == CHOOSE i \in DOMAIN h : h[i].key = key
Priority(h, key) == h[IndexOf(h, key)].pri
QueueDecrease(h, key, pri) == SiftUp([h EXCEPT ![IndexOf(h, key)].pri = pri], IndexOf(h, key))
-----------------------------------------------------------------------------
(* topsort: only what leads to a sink is visited *)
RECURSIVE Visit(_, _, _, _)
Visit(g, u, stack, st) ==
  IF st.cyclic \/ u \in stack THEN [st EXCEPT !.cyclic = TRUE]
  ELSE IF Contains(st.order, u) THEN st
  ELSE LET done == FoldLeft(LAMBDA s, p : Visit(g, p, stack \cup {u}, s), st, Predecessors(g, u))
       IN [done EXCEPT !.order = Append(@, u)]

Topsort(g) ==
  IF g.nodes # <<>> /\ Sinks(g) = <<>> THEN [order |-> <<>>, cyclic |-> TRUE]
  ELSE FoldLeft(LAMBDA s, u : Visit(g, u, {}, s), [order |-> <<>>, cyclic |-> FALSE], Sinks(g))

IsAcyclic(g) == ~Topsort(g).cyclic

(* tarjan: seen[u] holds index and lowlink, the stack tells onStack *)
RECURSIVE Connect(_, _, _)
Connect(g, u, st) ==
  LET n     == Cardinality(DOMAIN st.seen)
      fresh == [st EXCEPT !.seen = [x \in DOMAIN @ \cup {u} |->
                                      IF x = u THEN [index |-> n, low |-> n] ELSE @[x]],
                          !.stack = Append(@, u)]
      lower(s, k) == [s EXCEPT !.seen[u].low = IF k < @ THEN k ELSE @]
      follow(s, v) ==
        IF v \notin DOMAIN s.seen
          THEN LET t == Connect(g, v, s) IN lower(t, t.seen[v].low)
        ELSE IF Contains(s.stack, v) THEN lower(s, s.seen[v].index) ELSE s
      done == FoldLeft(follow, fresh, Successors(g, u))
      at   == SelectInSeq(done.stack, LAMBDA x : x = u)
  IN IF done.seen[u].low # done.seen[u].index THEN done
     ELSE [done EXCEPT !.stack = SubSeq(@, 1, at - 1),
                       !.components = Append(@, Reverse(SubSeq(done.stack, at, Len(done.stack))))]

Tarjan(g) ==
  FoldLeft(LAMBDA st, u : IF u \in DOMAIN st.seen THEN st ELSE Connect(g, u, st),
           [seen |-> <<>>, stack |-> <<>>, components |-> <<>>], g.nodes).components

FindCycles(g) == SelectSeq(Tarjan(g), LAMBDA c : Len(c) > 1)

(* components *)
RECURSIVE Collect(_, _, _)
Collect(g, u, found) ==
  IF Contains(found, u) THEN found
  ELSE FoldLeft(LAMBDA f, v : Collect(g, v, f), Append(found, u), Neighbors(g, u))

Components(g) ==
  FoldLeft(LAMBDA cs, u : IF \E i \in DOMAIN cs : Contains(cs[i], u) THEN cs
                          ELSE Append(cs, Collect(g, u, <<>>)), <<>>, g.nodes)

(* preorder and postorder: `tree` is false where the code throws *)
RECURSIVE Walk(_, _, _, _, _)
Walk(g, u, prev, post, st) ==
  IF ~st.tree \/ u \in st.visited THEN [st EXCEPT !.tree = FALSE]
  ELSE LET here(s) == [s EXCEPT !.order = Append(@, u)]
           into == [st EXCEPT !.visited = @ \cup {u}]
           below(s) == FoldLeft(LAMBDA t, v : IF v = prev THEN t ELSE Walk(g, v, u, post, t),
                                s, Neighbors(g, u))
       IN IF post THEN here(below(into)) ELSE below(here(into))

Walked == [visited |-> {}, order |-> <<>>, tree |-> TRUE]
None == 0   \* what `undefined` is here: the id of no node
Preorder(g, root) == Walk(g, root, None, FALSE, Walked)
Postorder(g, root) == Walk(g, root, None, TRUE, Walked)
-----------------------------------------------------------------------------
Infinity == 1000   \* larger than the length of any path of the inputs
Plus(a, b) == IF Infinity \in {a, b} THEN Infinity ELSE a + b

(* dijkstra, along outEdges or, for an undirected graph, incidentEdges *)
WaysFrom(g, directed, u) == IF directed THEN OutEdges(g, u) ELSE IncidentEdges(g, u)

RECURSIVE Relax(_, _, _, _, _)
Relax(g, w, directed, heap, dist) ==
  IF heap = <<>> \/ dist[QueueMin(heap)].distance = Infinity THEN dist
  ELSE
    LET u == QueueMin(heap)
        update(s, e) ==
          LET v == OtherEnd(g, e, u)
              d == Plus(s.dist[u].distance, w[e])
          IN IF d < s.dist[v].distance
               THEN [heap |-> QueueDecrease(s.heap, v, d),
                     dist |-> [s.dist EXCEPT ![v] = [distance |-> d, predecessor |-> u]]]
               ELSE s
        next == FoldLeft(update, [heap |-> QueueRest(heap), dist |-> dist], WaysFrom(g, directed, u))
    IN Relax(g, w, directed, next.heap, next.dist)

Unreached(d) == [distance |-> d, predecessor |-> None]

Dijkstra(g, w, source, directed) ==
  LET from(u) == IF u = source THEN 0 ELSE Infinity
  IN Relax(g, w, directed,
           FoldLeft(LAMBDA h, u : QueueAdd(h, u, from(u)), <<>>, g.nodes),
           Table([u \in ToSet(g.nodes) |-> Unreached(from(u))]))

DijkstraAll(g, w, directed) == Table([u \in ToSet(g.nodes) |-> Dijkstra(g, w, u, directed)])

(* floydWarshall: first the edges, then every node k between all i and j; in *)
(* the turn of k its row and column, as r[k][k] is 0, do not change.         *)
FloydWarshall(g, w, directed) ==
  LET N == ToSet(g.nodes)
      edge(u, r, e) ==
        LET v == OtherEnd(g, e, u)
        IN IF w[e] < r[v].distance THEN [r EXCEPT ![v] = [distance |-> w[e], predecessor |-> u]]
                                   ELSE r
      row(u) == Table([v \in N |-> Unreached(IF u = v THEN 0 ELSE Infinity)])
      first == Table([u \in N |-> FoldLeft(LAMBDA r, e : edge(u, r, e), row(u), WaysFrom(g, directed, u))])
      through(r, k) ==
        Table([i \in N |-> Table([j \in N |->
          LET alt == Plus(r[i][k].distance, r[k][j].distance)
          IN IF alt < r[i][j].distance
               THEN [distance |-> alt, predecessor |-> r[k][j].predecessor] ELSE r[i][j]])])
  IN FoldLeft(through, first, g.nodes)

(* prim: the tree's edges as <<u, parent>>, `connected` false where it throws *)
RECURSIVE Grow(_, _, _, _)
Grow(g, w, heap, st) ==
  IF heap = <<>> THEN st
  ELSE
    LET u == QueueMin(heap)
        linked == u \in DOMAIN st.parents
        update(s, e) ==
          LET v == OtherEnd(g, e, u)
          IN IF InQueue(s.heap, v) /\ w[e] < Priority(s.heap, v)
               THEN [heap |-> QueueDecrease(s.heap, v, w[e]),
                     parents |-> [x \in DOMAIN s.parents \cup {v} |->
                                    IF x = v THEN u ELSE s.parents[x]]]
               ELSE s
        next == FoldLeft(update, [heap |-> QueueRest(heap), parents |-> st.parents],
                         IncidentEdges(g, u))
    IN IF ~linked /\ st.init THEN [st EXCEPT !.connected = FALSE]
       ELSE Grow(g, w, next.heap,
                 [st EXCEPT !.init = TRUE, !.parents = next.parents,
                            !.tree = IF linked THEN Append(@, <<u, st.parents[u]>>) ELSE @])

Prim(g, w) ==
  LET heap == FoldLeft(LAMBDA h, u : QueueAdd(h, u, Infinity), <<>>, g.nodes)
  IN Grow(g, w, QueueDecrease(heap, g.nodes[1], 0),
          [init |-> FALSE, connected |-> TRUE, parents |-> <<>>, tree |-> <<>>])
-----------------------------------------------------------------------------
(* What the algorithms are to compute, by definition: by the sets of nodes   *)
(* that edges lead out of, and by all subsets of the edges.                  *)
Nodes(g) == ToSet(g.nodes)
Arcs(g) == ToSet(g.edges)
Both(g) == Arcs(g) \cup {<<e[2], e[1]>> : e \in Arcs(g)}

(* the least set that holds from and that no arc of A leaves *)
Closure(g, A, from) ==
  LET closed == {S \in SUBSET Nodes(g) : from \subseteq S /\ \A a \in A : a[1] \in S => a[2] \in S}
  IN {u \in Nodes(g) : \A S \in closed : u \in S}

Reached(g, u) == Closure(g, Arcs(g), {u})
OnCycle(g, u) == \E a \in Arcs(g) : a[1] = u /\ u \in Reached(g, a[2])
Pieces(g) == {Closure(g, Both(g), {u}) : u \in Nodes(g)}
Before(s, u, v) == SelectInSeq(s, LAMBDA x : x = u) < SelectInSeq(s, LAMBDA x : x = v)

(* topsort.js, isAcyclic.js: what leads to a sink is sorted, a cycle among   *)
(* it is found; one that leads to no sink is found only if there is no sink. *)
TopsortRight(g) ==
  LET known == {u \in Nodes(g) : Reached(g, u) \cap ToSet(Sinks(g)) # {}}
      t == Topsort(g)
  IN /\ t.cyclic = (g.nodes # <<>> /\ (known = {} \/ \E u \in known : OnCycle(g, u)))
     /\ ~t.cyclic => /\ ToSet(t.order) = known /\ Len(t.order) = Cardinality(known)
                     /\ \A a \in Arcs(g) : a[2] \in known => Before(t.order, a[1], a[2])

(* tarjan.js, findCycles.js, components.js: strongly connected components,   *)
(* each before those that lead to it; cycles leave out self loops; pieces.   *)
ComponentsRight(g) ==
  LET t == Tarjan(g)
      together(u) == {v \in Reached(g, u) : u \in Reached(g, v)}
      sets(cs) == {ToSet(cs[i]) : i \in DOMAIN cs}
  IN /\ sets(t) = {together(u) : u \in Nodes(g)}
     /\ Len(FlattenSeq(t)) = Len(g.nodes)
     /\ \A i, j \in DOMAIN t : i < j => ToSet(t[j]) \cap Reached(g, t[i][1]) = {}
     /\ UNION sets(FindCycles(g))
          = {u \in Nodes(g) : \E v \in together(u) : v # u}
     /\ sets(Components(g)) = Pieces(g) /\ Len(FlattenSeq(Components(g))) = Len(g.nodes)

(* preorder.js, postorder.js: on the tree a root is part of, each node after *)
(* or before its parent's turn, every one once; anything else is refused.    *)
WalksRight(g) ==
  \A root \in Nodes(g) :
    LET piece == CHOOSE p \in Pieces(g) : root \in p
        links == {{a[1], a[2]} : a \in {b \in Arcs(g) : b[1] \in piece}}
        isTree == Cardinality(links) = Cardinality(piece) - 1 /\ \A l \in links : Cardinality(l) = 2
        linked(o, i, j) == {o[i], o[j]} \in links
        once(o) == ToSet(o) = piece /\ Len(o) = Cardinality(piece)
        pre == Preorder(g, root)  post == Postorder(g, root)
    IN /\ pre.tree = isTree /\ post.tree = isTree
       /\ isTree => /\ once(pre.order) /\ once(post.order)
                    /\ \A i \in 2 .. Len(pre.order) : \E j \in 1 .. i - 1 : linked(pre.order, j, i)
                    /\ \A i \in 1 .. Len(post.order) - 1 :
                         \E j \in i + 1 .. Len(post.order) : linked(post.order, i, j)

(* dijkstra.js, floydWarshall.js: both give the distances that no edge       *)
(* shortens and that a way along the predecessors has.                       *)
DistancesRight(g, w, directed) ==
  LET d == DijkstraAll(g, w, directed)
      f == FloydWarshall(g, w, directed)
      reached(u) == Closure(g, IF directed THEN Arcs(g) ELSE Both(g), {u})
      step(u, v) == {e \in ToSet(WaysFrom(g, directed, u)) : OtherEnd(g, e, u) = v}
      right(r, u) ==
        /\ r[u].distance = 0
        /\ \A v \in Nodes(g) :
             /\ (r[v].distance # Infinity) = (v \in reached(u))
             /\ \A x \in reached(u) : \A e \in step(x, v) : r[v].distance <= r[x].distance + w[e]
             /\ v \in reached(u) \ {u} => \E e \in step(r[v].predecessor, v) :
                                            r[v].distance = r[r[v].predecessor].distance + w[e]
  IN \A u \in Nodes(g) : right(d[u], u) /\ right(f[u], u)

(* prim.js: the edges of a least spanning tree, unless there is none. *)
SpanningRight(g, w) ==
  LET es == DOMAIN g.edges
      weight(T) == FoldLeft(LAMBDA n, e : n + w[e], 0, SelectSeq(Ids(g.edges), LAMBDA e : e \in T))
      spans(A) == Closure(g, A \cup {<<a[2], a[1]>> : a \in A}, {g.nodes[1]}) = Nodes(g)
      ways == {T \in SUBSET es : /\ Cardinality(T) = Len(g.nodes) - 1
                                 /\ spans({g.edges[e] : e \in T})}
      p == Prim(g, w)
      cheapest(uv) == Min({w[e] : e \in {x \in es : ToSet(g.edges[x]) = ToSet(uv)}})
  IN /\ p.connected = spans(Arcs(g))
     /\ p.connected => /\ Len(p.tree) = Len(g.nodes) - 1 /\ spans(ToSet(p.tree))
                       /\ FoldLeft(LAMBDA n, uv : n + cheapest(uv), 0, p.tree)
                            = Min({weight(T) : T \in ways})
=============================================================================
