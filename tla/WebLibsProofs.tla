----------------------------- MODULE WebLibsProofs -----------------------------
(***************************************************************************)
(* The libraries of the web pages.  The graph objects of graphlib stay     *)
(* consistent whatever is done to them, for any names and any number of    *)
(* nodes and edges.  What d3's brush and a drag of a node hold stays in    *)
(* their hands, for any positions of the pointer, any calls of the program *)
(* and any number of fingers.                                              *)
(***************************************************************************)
EXTENDS GraphStore, D3Drags, TLAPS
(* What is inductive: the type, and GraphConsistent. *)
StoreInv == StoreTypeOK /\ GraphConsistent
-----------------------------------------------------------------------------
LEMMA InitConsistent == StoreInit => StoreInv
<1> SUFFICES ASSUME StoreInit PROVE StoreInv
  OBVIOUS
<1>1. StoreTypeOK
  BY DEF StoreInit, StoreTypeOK, NoIndex, Parents
<1>2. Edges = {}
  BY DEF StoreInit, Edges
<1> QED
  BY <1>1, <1>2 DEF StoreInit, StoreInv, GraphConsistent, BrokenByLoopOrCycle, EndsExist,
     IndexAgrees, HierarchyAgrees, NoIndex, Parents

(* Nodes and hierarchy are left alone, or edges and indexes are. *)
LEMMA EdgesUntouched ==
  ASSUME EndsExist, IndexAgrees, UNCHANGED <<directed, ends, into, outof>>, nodes \subseteq nodes'
  PROVE  EndsExist' /\ IndexAgrees'
<1>1. directed' = directed /\ ends' = ends /\ into' = into /\ outof' = outof
  OBVIOUS
<1>2. Edges' = Edges
  BY <1>1 DEF Edges
<1>3. EndsExist'
  BY <1>1, <1>2 DEF EndsExist
<1>4. IndexAgrees'
  <2> SUFFICES ASSUME NEW x \in AllIds, NEW y \in AllIds
               PROVE  /\ into'[y][x] = {f \in Edges' : ends'[f] = <<x, y>> \/ (~directed' /\ ends'[f] = <<y, x>>)}
                      /\ outof'[x][y] = IF directed' THEN {f \in Edges' : ends'[f] = <<x, y>>} ELSE {}
    BY DEF IndexAgrees
  <2>1. /\ into[y][x] = {f \in Edges : ends[f] = <<x, y>> \/ (~directed /\ ends[f] = <<y, x>>)}
        /\ outof[x][y] = IF directed THEN {f \in Edges : ends[f] = <<x, y>>} ELSE {}
    BY DEF IndexAgrees
  <2> QED
    BY <1>1, <1>2, <2>1
<1> QED
  BY <1>3, <1>4

LEMMA HierarchyUntouched ==
  ASSUME HierarchyAgrees, UNCHANGED <<nodes, parents, children>>
  PROVE  HierarchyAgrees'
BY DEF HierarchyAgrees

(* What did not throw halfway is consistent when its three parts are.        *)
LEMMA WholeIsConsistent ==
  ASSUME ~broken', EndsExist', IndexAgrees', HierarchyAgrees'
  PROVE  GraphConsistent'
BY DEF GraphConsistent, BrokenByLoopOrCycle

(* addNode of compoundify: the new node has no children, the top has it. *)
LEMMA PutNodeKeeps ==
  ASSUME StoreInv, NEW u \in AllIds, u \notin nodes, PutNode(u), nextId' \in Nat
  PROVE  StoreInv'
<1> USE DEF StoreInv, PutNode
<1>1. StoreTypeOK'
  BY DEF StoreTypeOK, Parents
<1>2. EndsExist' /\ IndexAgrees'
  BY EdgesUntouched DEF GraphConsistent
<1>3. HierarchyAgrees'
  <2>1. u # Root /\ Root \in Parents /\ u \in Parents
    BY StoreAssumption DEF StoreAssumption, Parents
  <2>2. HierarchyAgrees /\ StoreTypeOK
    BY DEF GraphConsistent
  <2>3. \A w \in nodes' : parents'[w] \in (nodes' \cup {Root}) \ {w}
    BY <2>1, <2>2 DEF HierarchyAgrees, StoreTypeOK
  <2>4. \A p \in Parents : children'[p] = {w \in nodes' : parents'[w] = p}
    <3> TAKE p \in Parents
    <3>1. {w \in nodes : parents'[w] = p} = children[p]
      BY <2>2 DEF HierarchyAgrees, StoreTypeOK
    <3>2. parents'[u] = Root
      BY <2>2 DEF StoreTypeOK
    <3>3. children[u] = {}
      BY <2>1, <2>2 DEF HierarchyAgrees
    <3>4. children'[p] = IF p = Root THEN children[Root] \cup {u}
                         ELSE IF p = u THEN {} ELSE children[p]
      BY <2>1, <2>2 DEF StoreTypeOK
    <3> QED
      BY <2>1, <3>1, <3>2, <3>3, <3>4
  <2> QED
    BY <2>3, <2>4 DEF HierarchyAgrees
<1> QED
  BY <1>1, <1>2, <1>3, WholeIsConsistent

(* addEdge: the cells of its ends get the new edge, no other cell does. *)
LEMMA PutEdgeKeeps ==
  ASSUME StoreInv, NEW e \in AllIds, NEW u \in AllIds, NEW v \in AllIds,
         e \notin Edges, PutEdge(e, u, v), nextId' \in Nat
  PROVE  StoreInv'
<1> USE DEF StoreInv, PutEdge
<1>1. StoreTypeOK'
  BY DEF StoreTypeOK
<1>2. ends' = [ends EXCEPT ![e] = <<u, v>>] /\ ends'[e] = <<u, v>>
  BY DEF StoreTypeOK
<1>3. \A f \in AllIds \ {e} : ends'[f] = ends[f]
  BY DEF StoreTypeOK
<1>4. Edges' = Edges \cup {e}
  BY <1>2, <1>3, StoreAssumption DEF Edges, StoreAssumption
<1>5. EndsExist'
  BY <1>2, <1>3, <1>4 DEF GraphConsistent, EndsExist, Edges
<1>6. IndexAgrees'
  <2> SUFFICES ASSUME NEW x \in AllIds, NEW y \in AllIds
               PROVE  /\ into'[y][x] = {f \in Edges' : ends'[f] = <<x, y>> \/ (~directed' /\ ends'[f] = <<y, x>>)}
                      /\ outof'[x][y] = IF directed' THEN {f \in Edges' : ends'[f] = <<x, y>>} ELSE {}
    BY DEF IndexAgrees
  <2>1. /\ into[y][x] = {f \in Edges : ends[f] = <<x, y>> \/ (~directed /\ ends[f] = <<y, x>>)}
        /\ outof[x][y] = IF directed THEN {f \in Edges : ends[f] = <<x, y>>} ELSE {}
    BY DEF GraphConsistent, IndexAgrees
  <2>2. \A f \in Edges : f \in AllIds \ {e}
    BY DEF Edges
  <2>3. into'[y][x] = IF <<x, y>> = <<u, v>> \/ (~directed /\ <<y, x>> = <<u, v>>)
                        THEN into[y][x] \cup {e} ELSE into[y][x]
    <3> DEFINE cell(a, b) == IF <<b, a>> = <<u, v>> \/ (~directed /\ <<a, b>> = <<u, v>>)
                               THEN into[a][b] \cup {e} ELSE into[a][b]
    <3>1. into' = [a \in AllIds |-> [b \in AllIds |-> cell(a, b)]]
      OBVIOUS
    <3>2. into'[y][x] = cell(y, x)
      BY <3>1
    <3> QED
      BY <3>2
  <2>4. outof'[x][y] = IF directed /\ <<x, y>> = <<u, v>> THEN outof[x][y] \cup {e} ELSE outof[x][y]
    OBVIOUS
  <2>5. directed' = directed /\ \A f \in Edges : ends'[f] = ends[f]
    BY <1>3, <2>2
  <2> HIDE DEF PutEdge, StoreInv
  <2>6. into'[y][x] = {f \in Edges' : ends'[f] = <<x, y>> \/ (~directed' /\ ends'[f] = <<y, x>>)}
    <3>1. CASE <<x, y>> = <<u, v>> \/ (~directed /\ <<y, x>> = <<u, v>>)
      BY <1>2, <1>4, <2>1, <2>3, <2>5, <3>1
    <3>2. CASE ~(<<x, y>> = <<u, v>> \/ (~directed /\ <<y, x>> = <<u, v>>))
      BY <1>2, <1>4, <2>1, <2>3, <2>5, <3>2
    <3> QED
      BY <3>1, <3>2
  <2>7. outof'[x][y] = IF directed' THEN {f \in Edges' : ends'[f] = <<x, y>>} ELSE {}
    <3>1. CASE directed /\ <<x, y>> = <<u, v>>
      BY <1>2, <1>4, <2>1, <2>4, <2>5, <3>1
    <3>2. CASE ~directed
      BY <2>1, <2>4, <2>5, <3>2
    <3>3. CASE directed /\ <<x, y>> # <<u, v>>
      BY <1>2, <1>4, <2>1, <2>4, <2>5, <3>3
    <3> QED
      BY <3>1, <3>2, <3>3
  <2> QED
    BY <2>6, <2>7
<1>7. HierarchyAgrees'
  BY HierarchyUntouched DEF GraphConsistent
<1> QED
  BY <1>1, <1>5, <1>6, <1>7, WholeIsConsistent

(* Edges that go leave the indexes and the map of edges together. *)
LEMMA EdgesGone ==
  ASSUME StoreTypeOK, IndexAgrees, NEW gone \in SUBSET Edges, directed' = directed,
         ends' = [f \in AllIds |-> IF f \in gone THEN NoEdge ELSE ends[f]],
         into' = Without(into, gone), outof' = Without(outof, gone)
  PROVE  /\ Edges' = Edges \ gone
         /\ \A f \in Edges' : ends'[f] = ends[f]
         /\ IndexAgrees'
<1>1. Edges' = Edges \ gone /\ \A f \in Edges' : ends'[f] = ends[f]
  BY DEF Edges
<1>2. IndexAgrees'
  <2> SUFFICES ASSUME NEW x \in AllIds, NEW y \in AllIds
               PROVE  /\ into'[y][x] = {f \in Edges' : ends'[f] = <<x, y>> \/ (~directed' /\ ends'[f] = <<y, x>>)}
                      /\ outof'[x][y] = IF directed' THEN {f \in Edges' : ends'[f] = <<x, y>>} ELSE {}
    BY DEF IndexAgrees
  <2>1. into'[y][x] = into[y][x] \ gone /\ outof'[x][y] = outof[x][y] \ gone
    BY DEF Without
  <2>2. /\ into[y][x] = {f \in Edges : ends[f] = <<x, y>> \/ (~directed /\ ends[f] = <<y, x>>)}
        /\ outof[x][y] = IF directed THEN {f \in Edges : ends[f] = <<x, y>>} ELSE {}
    BY DEF IndexAgrees
  <2> QED
    BY <1>1, <2>1, <2>2
<1> QED
  BY <1>1, <1>2

LEMMA WithoutIsIndex ==
  ASSUME NEW map \in [AllIds -> [AllIds -> SUBSET AllIds]], NEW es
  PROVE  Without(map, es) \in [AllIds -> [AllIds -> SUBSET AllIds]]
BY DEF Without

(* delEdge, which throws at the only loop of an undirected graph's node. *)
LEMMA DropEdgeKeeps ==
  ASSUME StoreInv, NEW e \in AllIds, DropEdge(e)
  PROVE  StoreInv'
<1> USE DEF StoreInv, DropEdge
<1>1. into' \in [AllIds -> [AllIds -> SUBSET AllIds]] /\ outof' \in [AllIds -> [AllIds -> SUBSET AllIds]]
  BY WithoutIsIndex DEF StoreTypeOK
<1>2. StoreTypeOK'
  BY <1>1 DEF StoreTypeOK
<1>3. ASSUME ~OnlyLoop(e) PROVE GraphConsistent'
  <2>1. ends' = [f \in AllIds |-> IF f \in {e} THEN NoEdge ELSE ends[f]]
    BY <1>3 DEF StoreTypeOK
  <2>2. /\ Edges' = Edges \ {e} /\ IndexAgrees'
        /\ \A f \in Edges' : ends'[f] = ends[f]
    BY <2>1, EdgesGone DEF GraphConsistent
  <2>3. HierarchyAgrees'
    BY HierarchyUntouched DEF GraphConsistent
  <2> QED
    BY <1>3, <2>2, <2>3, WholeIsConsistent DEF GraphConsistent, EndsExist
<1>4. ASSUME OnlyLoop(e) PROVE GraphConsistent'
  <2>1. Loops(e)' = Loops(e) /\ \A u \in AllIds : Loops(u)' = Loops(u)
    BY <1>4 DEF Loops, Edges
  <2>2. ~directed' /\ \E u \in AllIds : Loops(u)' # {}
    BY <1>4, <2>1 DEF OnlyLoop
  <2>3. broken'
    BY <1>4
  <2> HIDE DEF StoreInv, DropEdge
  <2> QED
    BY <2>2, <2>3 DEF GraphConsistent, BrokenByLoopOrCycle
<1> QED
  BY <1>2, <1>3, <1>4

(* parent(u, p): the old parent loses the child, the new one has it. *)
LEMMA SetParentKeeps ==
  ASSUME StoreInv, NEW u \in AllIds, NEW p \in Parents, SetParent(u, p)
  PROVE  StoreInv'
<1> USE DEF StoreInv, SetParent
<1>1. StoreTypeOK'
  BY DEF StoreTypeOK, Parents
<1>2. EndsExist' /\ IndexAgrees'
  BY EdgesUntouched DEF GraphConsistent
<1>3. HierarchyAgrees'
  <2>1. HierarchyAgrees /\ StoreTypeOK
    BY DEF GraphConsistent
  <2>2. parents'[u] = p /\ \A w \in AllIds \ {u} : parents'[w] = parents[w]
    BY <2>1 DEF StoreTypeOK
  <2>3. \A w \in nodes' : parents'[w] \in (nodes' \cup {Root}) \ {w}
    BY <2>1, <2>2 DEF HierarchyAgrees, StoreTypeOK
  <2>4. ASSUME NEW q \in Parents PROVE children'[q] = {w \in nodes' : parents'[w] = q}
    <3>1. children'[q] = (children[q] \ {u}) \cup (IF q = p THEN {u} ELSE {})
      OBVIOUS
    <3>2. children[q] = {w \in nodes : parents[w] = q}
      BY <2>1 DEF HierarchyAgrees
    <3>3. nodes' = nodes /\ u \in nodes /\ nodes \subseteq AllIds
      BY DEF StoreTypeOK
    <3> QED
      BY <2>2, <3>1, <3>2, <3>3
  <2> QED
    BY <2>3, <2>4 DEF HierarchyAgrees
<1> QED
  BY <1>1, <1>2, <1>3, WholeIsConsistent

(* delNode between two nodes that are each other's parent ends halfway. *)
LEMMA DelNodeInCycleKeeps ==
  ASSUME StoreInv, NEW u \in AllIds, NEW handed \in SUBSET AllIds, DelNodeInCycle(u, handed)
  PROVE  StoreInv'
<1> USE DEF StoreInv, DelNodeInCycle
<1>1. parents[u] \in Parents /\ children[u] \subseteq AllIds
  BY DEF StoreTypeOK, Parents
<1>2. parents' \in [AllIds -> Parents]
  BY <1>1 DEF StoreTypeOK
<1>3. children' \in [Parents -> SUBSET AllIds]
  BY DEF StoreTypeOK
<1>4. BrokenByLoopOrCycle'
  <2> DEFINE v == parents[u]
  <2>1. v \in children[u] /\ u \in nodes /\ u \in Parents /\ v \in AllIds
    BY <1>1 DEF Parents
  <2>2. v \in nodes /\ parents[v] = u /\ u \notin children[u]
    BY <2>1 DEF GraphConsistent, HierarchyAgrees
  <2>3. u \notin handed /\ v \notin handed
    BY <2>2
  <2>4. parents'[u] = v /\ parents'[v] = u /\ nodes' = nodes
    BY <2>1, <2>2, <2>3
  <2> QED
    BY <2>1, <2>2, <2>4 DEF BrokenByLoopOrCycle
<1> QED
  BY <1>2, <1>3, <1>4 DEF StoreTypeOK, GraphConsistent

(* delNode: the children move up, and the node's edges go with it. *)
LEMMA DropNodeKeeps ==
  ASSUME StoreInv, NEW u \in AllIds, DropNode(u)
  PROVE  StoreInv'
<1> DEFINE p == parents[u]
<1> USE DEF StoreInv, DropNode
<1>1. StoreTypeOK /\ ~broken /\ EndsExist /\ IndexAgrees /\ HierarchyAgrees
  BY DEF GraphConsistent
<1>2. u \in nodes /\ nodes \subseteq AllIds /\ p \in Parents /\ p # u /\ p \in nodes \cup {Root}
  BY <1>1 DEF StoreTypeOK, HierarchyAgrees
<1>3. parents' = [x \in AllIds |-> IF x \in children[u] THEN p ELSE IF x = u THEN Root ELSE parents[x]]
  OBVIOUS
<1>4. children' = [children EXCEPT ![u] = {}, ![p] = (@ \cup children[u]) \ {u}]
  OBVIOUS
<1>5. parents' \in [AllIds -> Parents] /\ children' \in [Parents -> SUBSET AllIds]
  <2>1. Root \in Parents /\ u \in Parents
    BY DEF Parents
  <2>2. parents' \in [AllIds -> Parents]
    BY <1>1, <1>2, <1>3, <2>1 DEF StoreTypeOK
  <2>3. children' \in [Parents -> SUBSET AllIds]
    BY <1>1, <1>2, <1>4, <2>1 DEF StoreTypeOK
  <2> QED
    BY <2>2, <2>3
<1>6. PICK gone \in SUBSET IncidentTo(u) :
        IF directed \/ Loops(u) = {}
          THEN /\ gone = IncidentTo(u)
               /\ nodes' = nodes \ {u} /\ UNCHANGED broken
               /\ ends' = [e \in AllIds |-> IF e \in gone THEN NoEdge ELSE ends[e]]
               /\ into' = Without(into, gone) /\ outof' = Without(outof, gone)
          ELSE /\ Loops(u) \subseteq gone
               /\ broken' = TRUE /\ UNCHANGED nodes
               /\ \E last \in Loops(u) :
                    ends' = [e \in AllIds |-> IF e \in gone \ {last} THEN NoEdge ELSE ends[e]]
               /\ into' = Without(into, gone) /\ outof' = Without(outof, gone)
  OBVIOUS
<1>7. UNCHANGED <<directed, nextId>>
  OBVIOUS
<1> HIDE DEF DropNode
<1>8. into' \in [AllIds -> [AllIds -> SUBSET AllIds]] /\ outof' \in [AllIds -> [AllIds -> SUBSET AllIds]]
  <2>1. into' = Without(into, gone) /\ outof' = Without(outof, gone)
    BY <1>6
  <2>2. /\ into \in [AllIds -> [AllIds -> SUBSET AllIds]]
        /\ outof \in [AllIds -> [AllIds -> SUBSET AllIds]]
    BY <1>1 DEF StoreTypeOK
  <2> HIDE <1>6
  <2> QED
    BY <2>1, <2>2, WithoutIsIndex
<1>9. CASE ~(directed \/ Loops(u) = {})
  <2>1. PICK last \in Loops(u) :
          ends' = [e \in AllIds |-> IF e \in gone \ {last} THEN NoEdge ELSE ends[e]]
    BY <1>6, <1>9
  <2>2. last \in AllIds /\ ends[last] = <<u, u>> /\ ends[last] # NoEdge
    BY DEF Loops, Edges
  <2>3. last \in Loops(u)'
    BY <2>1, <2>2 DEF Loops, Edges
  <2>4. broken' /\ nodes' = nodes /\ ~directed'
    BY <1>6, <1>7, <1>9
  <2>5. GraphConsistent'
    BY <2>3, <2>4 DEF GraphConsistent, BrokenByLoopOrCycle
  <2>6. ends' \in [AllIds -> (AllIds \X AllIds) \cup {NoEdge}]
    BY <1>1, <2>1 DEF StoreTypeOK
  <2> QED
    BY <1>1, <1>5, <1>7, <1>8, <2>4, <2>5, <2>6 DEF StoreTypeOK
<1>10. CASE directed \/ Loops(u) = {}
  <2>1. /\ gone = IncidentTo(u) /\ nodes' = nodes \ {u}
        /\ ends' = [e \in AllIds |-> IF e \in gone THEN NoEdge ELSE ends[e]]
        /\ into' = Without(into, gone) /\ outof' = Without(outof, gone) /\ broken' = broken
    BY <1>6, <1>10
  <2>2. StoreTypeOK'
    BY <1>1, <1>5, <1>7, <1>8, <2>1 DEF StoreTypeOK
  <2>3. gone \in SUBSET Edges
    BY <2>1 DEF IncidentTo
  <2>4. Edges' = Edges \ gone /\ IndexAgrees' /\ \A f \in Edges' : ends'[f] = ends[f]
    BY <1>1, <1>7, <2>1, <2>3, EdgesGone
  <2>5. EndsExist'
    BY <1>1, <2>1, <2>4 DEF EndsExist, IncidentTo
  <2>6. ASSUME NEW w \in nodes' PROVE parents'[w] \in (nodes' \cup {Root}) \ {w}
    <3>1. w \in nodes /\ w # u /\ w \in AllIds
      BY <1>2, <2>1
    <3>2. children[u] = {x \in nodes : parents[x] = u}
      BY <1>1, <1>2 DEF HierarchyAgrees, Parents
    <3>3. CASE w \in children[u]
      <4>1. parents'[w] = p
        BY <1>3, <3>1, <3>3
      <4>2. w # p
        BY <3>3 DEF DropNode
      <4> QED
        BY <1>2, <2>1, <4>1, <4>2
    <3>4. CASE w \notin children[u]
      <4>1. parents'[w] = parents[w] /\ parents[w] # u
        BY <1>3, <3>1, <3>2, <3>4
      <4> QED
        BY <1>1, <2>1, <3>1, <4>1 DEF HierarchyAgrees
    <3> QED
      BY <3>3, <3>4
  <2>7. ASSUME NEW q \in Parents PROVE children'[q] = {w \in nodes' : parents'[w] = q}
    <3>1. \A x \in Parents : children[x] = {w \in nodes : parents[w] = x}
      BY <1>1 DEF HierarchyAgrees
    <3>2. children'[q] = IF q = p THEN (children[p] \cup children[u]) \ {u}
                         ELSE IF q = u THEN {} ELSE children[q]
      BY <1>1, <1>2, <1>4 DEF StoreTypeOK
    <3>3. u \in Parents
      BY DEF Parents
    <3>4. \A w \in nodes' : parents'[w] = IF parents[w] = u THEN p ELSE parents[w]
      BY <1>2, <1>3, <2>1, <3>1, <3>3
    <3>5. CASE q = p
      BY <1>2, <2>1, <3>1, <3>2, <3>3, <3>4, <3>5
    <3>6. CASE q = u
      BY <1>2, <2>1, <3>1, <3>2, <3>3, <3>4, <3>6
    <3>7. CASE q # u /\ q # p
      BY <1>2, <2>1, <3>1, <3>2, <3>3, <3>4, <3>7
    <3> QED
      BY <3>5, <3>6, <3>7
  <2>8. HierarchyAgrees'
    BY <2>6, <2>7 DEF HierarchyAgrees
  <2> QED
    BY <1>1, <2>1, <2>2, <2>4, <2>5, <2>8, WholeIsConsistent
<1> QED
  BY <1>9, <1>10

(* filterNodes: with no cycle of parents, no node is its own nearest kept   *)
(* ancestor, and the copy has the edges between kept nodes.                 *)
LEMMA FilterNodesKeeps ==
  ASSUME StoreInv, NEW S \in SUBSET AllIds, FilterNodes(S)
  PROVE  StoreInv'
<1> USE DEF StoreInv, FilterNodes
<1>1. StoreTypeOK /\ EndsExist /\ IndexAgrees /\ HierarchyAgrees
  BY DEF GraphConsistent
<1>2. S \subseteq nodes /\ nodes' = S /\ nodes \subseteq AllIds /\ directed' = directed
  BY <1>1 DEF StoreTypeOK
<1> DEFINE kept == {e \in Edges : ends[e][1] \in S /\ ends[e][2] \in S}
           only(map) == [x \in AllIds |-> [y \in AllIds |-> map[x][y] \cap kept]]
<1>3. /\ ends' = [e \in AllIds |-> IF e \in kept THEN ends[e] ELSE NoEdge]
      /\ into' = only(into) /\ outof' = only(outof)
  OBVIOUS
<1>4. PICK up \in [nodes -> S \cup {Root}] :
        /\ \A u \in nodes : up[u] = IF parents[u] \in S \cup {Root} THEN parents[u] ELSE up[parents[u]]
        /\ \A u \in S : up[u] # u
        /\ parents' = [u \in AllIds |-> IF u \in S THEN up[u] ELSE Root]
        /\ children' = [p \in Parents |-> {u \in S : up[u] = p}]
  OBVIOUS
<1>5. UNCHANGED broken /\ nextId' = 0
  OBVIOUS
<1> HIDE DEF FilterNodes
<1>7. StoreTypeOK'
  <2>1. /\ into' \in [AllIds -> [AllIds -> SUBSET AllIds]]
        /\ outof' \in [AllIds -> [AllIds -> SUBSET AllIds]]
    BY <1>1, <1>3 DEF StoreTypeOK
  <2>2. parents' \in [AllIds -> Parents] /\ children' \in [Parents -> SUBSET AllIds]
    BY <1>2, <1>4 DEF Parents
  <2>3. ends' \in [AllIds -> (AllIds \X AllIds) \cup {NoEdge}]
    BY <1>1, <1>3 DEF StoreTypeOK
  <2> QED
    BY <1>1, <1>2, <1>5, <2>1, <2>2, <2>3 DEF StoreTypeOK
<1>8. EndsExist' /\ IndexAgrees'
  <2>1. kept \subseteq Edges /\ Edges \subseteq AllIds
    BY DEF Edges
  <2>2. Edges' = kept /\ \A f \in kept : ends'[f] = ends[f]
    BY <1>3, <2>1 DEF Edges
  <2>3. EndsExist'
    BY <1>2, <2>2 DEF EndsExist
  <2>4. ASSUME NEW x \in AllIds, NEW y \in AllIds
        PROVE  /\ into'[y][x] = {f \in Edges' : ends'[f] = <<x, y>> \/ (~directed' /\ ends'[f] = <<y, x>>)}
               /\ outof'[x][y] = IF directed' THEN {f \in Edges' : ends'[f] = <<x, y>>} ELSE {}
    <3>1. into'[y][x] = into[y][x] \cap kept /\ outof'[x][y] = outof[x][y] \cap kept
      BY <1>3
    <3>2. /\ into[y][x] = {f \in Edges : ends[f] = <<x, y>> \/ (~directed /\ ends[f] = <<y, x>>)}
          /\ outof[x][y] = IF directed THEN {f \in Edges : ends[f] = <<x, y>>} ELSE {}
      BY <1>1 DEF IndexAgrees
    <3> HIDE DEF kept
    <3> QED
      BY <1>2, <2>1, <2>2, <3>1, <3>2
  <2>5. IndexAgrees'
    BY <2>4 DEF IndexAgrees
  <2> QED
    BY <2>3, <2>5
<1>9. HierarchyAgrees'
  <2>1. ASSUME NEW u \in S PROVE up[u] # u
    BY <1>4
  <2>2. \A u \in S : parents'[u] = up[u] /\ up[u] \in S \cup {Root}
    BY <1>2, <1>4
  <2>3. \A u \in nodes' : parents'[u] \in (nodes' \cup {Root}) \ {u}
    BY <1>2, <2>1, <2>2
  <2>4. \A p \in Parents : children'[p] = {u \in nodes' : parents'[u] = p}
    BY <1>2, <1>4, <2>2
  <2> QED
    BY <2>3, <2>4 DEF HierarchyAgrees
<1> QED
  <2>1. ~broken'
    BY <1>5 DEF FilterNodes
  <2> QED
    BY <1>7, <1>8, <1>9, <2>1, WholeIsConsistent
-----------------------------------------------------------------------------
LEMMA StepConsistent == StoreInv /\ [StoreNext]_storeVars => StoreInv'
<1> SUFFICES ASSUME StoreInv, [StoreNext]_storeVars PROVE StoreInv'
  OBVIOUS
<1>1. ASSUME NEW u \in AllIds, AddNode(u) PROVE StoreInv'
  BY <1>1, PutNodeKeeps DEF AddNode, StoreInv, StoreTypeOK
<1>2. CASE AddNewNode
  <2>1. PICK n \in Drawn : FreshId(n, nodes) /\ PutNode(n) /\ nextId' = n
    BY <1>2 DEF AddNewNode
  <2>2. n \in AllIds /\ n \in Nat
    BY StoreAssumption DEF StoreAssumption, AllIds, Drawn
  <2> QED
    BY <2>1, <2>2, PutNodeKeeps DEF FreshId
<1>3. ASSUME NEW u \in AllIds, NEW v \in AllIds, AddNewEdge(u, v) PROVE StoreInv'
  <2>1. PICK n \in Drawn : FreshId(n, Edges) /\ PutEdge(n, u, v) /\ nextId' = n
    BY <1>3 DEF AddNewEdge
  <2>2. n \in AllIds /\ n \in Nat
    BY StoreAssumption DEF StoreAssumption, AllIds, Drawn
  <2> QED
    BY <2>1, <2>2, PutEdgeKeeps DEF FreshId
<1>4. ASSUME NEW e \in AllIds, NEW u \in AllIds, NEW v \in AllIds, StoreEdge(e, u, v) PROVE StoreInv'
  BY <1>4, PutEdgeKeeps DEF StoreEdge, StoreInv, StoreTypeOK
<1>5. CASE ReloadGraph
  <2>1. StoreTypeOK'
    BY <1>5 DEF ReloadGraph, StoreInv, StoreTypeOK
  <2>2. GraphConsistent => EndsExist /\ IndexAgrees /\ HierarchyAgrees
    BY <1>5 DEF ReloadGraph, GraphConsistent
  <2>3. EndsExist' /\ IndexAgrees' /\ HierarchyAgrees'
    BY <1>5, <2>2, EdgesUntouched, HierarchyUntouched DEF ReloadGraph, StoreInv
  <2> QED
    BY <1>5, <2>1, <2>3, WholeIsConsistent DEF StoreInv, ReloadGraph
<1>6. CASE UNCHANGED storeVars
  <2>1. /\ directed' = directed /\ nodes' = nodes /\ ends' = ends /\ into' = into /\ outof' = outof
        /\ nextId' = nextId /\ parents' = parents /\ children' = children /\ broken' = broken
    BY <1>6 DEF storeVars
  <2>2. StoreTypeOK'
    BY <2>1 DEF StoreInv, StoreTypeOK
  <2>3. ASSUME ~broken' PROVE EndsExist' /\ IndexAgrees' /\ HierarchyAgrees'
    BY <2>1, <2>3, EdgesUntouched, HierarchyUntouched DEF StoreInv, GraphConsistent
  <2>4. ASSUME broken' PROVE GraphConsistent'
    <3>1. \A u : Loops(u)' = Loops(u)
      BY <2>1 DEF Loops, Edges
    <3> QED
      BY <2>1, <2>4, <3>1 DEF StoreInv, GraphConsistent, BrokenByLoopOrCycle
  <2> QED
    BY <2>2, <2>3, <2>4, WholeIsConsistent DEF StoreInv
<1>7. ASSUME NEW u \in AllIds, DropNode(u) PROVE StoreInv'
  BY <1>7, DropNodeKeeps
<1>8. ASSUME NEW u \in AllIds, NEW handed \in SUBSET AllIds, DelNodeInCycle(u, handed) PROVE StoreInv'
  BY <1>8, DelNodeInCycleKeeps
<1>9. ASSUME NEW e \in AllIds, DropEdge(e) PROVE StoreInv'
  BY <1>9, DropEdgeKeeps
<1>10. ASSUME NEW u \in AllIds, NEW p \in Parents, SetParent(u, p) PROVE StoreInv'
  BY <1>10, SetParentKeeps
<1>11. ASSUME NEW S \in SUBSET AllIds, FilterNodes(S) PROVE StoreInv'
  BY <1>11, FilterNodesKeeps
<1> QED
  BY <1>1, <1>2, <1>3, <1>4, <1>5, <1>6, <1>7, <1>8, <1>9, <1>10, <1>11 DEF StoreNext

(* BaseGraph.js, Digraph.js, Graph.js, compoundify.js: after any sequence   *)
(* of operations, none of which threw halfway, edges lead between nodes,    *)
(* the indexes list exactly them, and children inverts parents, for any     *)
(* names and any number of nodes and edges.                                 *)
THEOREM StoreStaysConsistent == StoreSpec => []GraphConsistent
<1>1. StoreInv => GraphConsistent
  BY DEF StoreInv
<1> QED
  BY InitConsistent, StepConsistent, <1>1, PTL DEF StoreSpec

-----------------------------------------------------------------------------
(* The brush. *)
(* An extent in the range. *)
Size(e) == e[1] - e[2]
InRange(e) == e \in Int \X Int /\ 0 <= e[1] /\ e[1] <= e[2] /\ e[2] <= Length

(* Numbers that brush.extent was called with are those of the extent e. *)
Means(z, e) == z # Unset => Sorted(Scale(z[1]), Scale(z[2])) = e

BrushTypes ==
  /\ arrays \in [References -> Int \X Int] /\ extent \in References
  /\ domain \in Domains \cup {Unset} /\ chart \in Keeps \cup {Unset}
  /\ glide \in Glides \cup {Unset} /\ gesture \in Grips \cup {Unset}
  /\ open \in Int /\ cut \in Int
BrushFlags == {handles, undrawn, meddled, stray, outrun} \subseteq BOOLEAN

(* The transition goes to what __chart__ keeps. *)
GlideKept == glide # Unset => chart # Unset /\ chart.x = glide.to.x

(* What is in the range, unless a gesture was meddled with: the extent, and *)
(* all that is kept of earlier ones; and what the gesture holds.            *)
RangeInv ==
  ~meddled =>
    /\ InRange(Ends)
    /\ chart # Unset => InRange(arrays[chart.x])
    /\ glide # Unset /\ glide.stage = "pending" => InRange(arrays[glide.from.x])
    /\ glide # Unset /\ glide.stage = "running" => InRange(glide.a) /\ InRange(glide.b)

Holds(g, late, e) ==
  /\ g.dragging = 0 => g.origin \in 0 .. Length /\ (late \/ g.origin \in {e[1], e[2]})
  /\ g.dragging = 2 => ~late /\ g.origin \in {0, e[1] - e[2]}
HeldInv == ~meddled /\ gesture # Unset => Holds(gesture, stray, Ends)

(* The numbers that are given back are those of the extent, and so will     *)
(* those be that a transition gives back when it ends.                      *)
DomainInv ==
  ~outrun =>
    /\ Means(domain, Ends)
    /\ glide # Unset /\ glide.stage = "pending" => Means(glide.to.i, arrays[glide.to.x])
    /\ glide # Unset /\ glide.stage = "running" => domain = Unset /\ Means(glide.to.i, glide.b)

BrushInv == BrushTypes /\ BrushFlags /\ GlideKept /\ RangeInv /\ HeldInv /\ DomainInv /\ BrushEventsPaired /\ HandlesMatch

-----------------------------------------------------------------------------
(* What the brush computes. *)
LEMMA Smaller == ASSUME NEW a \in Int, NEW b \in Int PROVE Min({a, b}) = IF a <= b THEN a ELSE b
<1> DEFINE S == {a, b}
<1>1. \E x \in S : \A y \in S : x <= y
  OBVIOUS
<1>2. Min(S) \in S /\ \A y \in S : Min(S) <= y
  BY <1>1 DEF Min
<1> QED
  BY <1>2

LEMMA Greater == ASSUME NEW a \in Int, NEW b \in Int PROVE Max({a, b}) = IF b <= a THEN a ELSE b
<1> DEFINE S == {a, b}
<1>1. \E x \in S : \A y \in S : y <= x
  OBVIOUS
<1>2. Max(S) \in S /\ \A y \in S : y <= Max(S)
  BY <1>1 DEF Max
<1> QED
  BY <1>2

LEMMA ClampedIs ==
  ASSUME NEW low \in Int, NEW high \in Int, NEW p \in Int
  PROVE  Clamped(low, high, p) \in Int /\ (low <= high => Clamped(low, high, p) \in low .. high)
<1> DEFINE m == Min({high, p})
<1>1. m \in Int /\ m <= high
  BY Smaller
<1> HIDE DEF m
<1>2. Max({low, m}) = IF m <= low THEN low ELSE m
  BY <1>1, Greater
<1> QED
  BY <1>1, <1>2 DEF Clamped, m

LEMMA ClampedInside == ASSUME NEW p \in Int PROVE Clamped(0, Length, p) \in 0 .. Length
<1> DEFINE low == 0
           high == Length
<1>1. low \in Int /\ high \in Int /\ low <= high
  BY BrushAssumption
<1> HIDE DEF low, high
<1>2. Clamped(low, high, p) \in low .. high
  BY <1>1, ClampedIs
<1> QED
  BY <1>2 DEF low, high

LEMMA SortedIs ==
  ASSUME NEW a \in Int, NEW b \in Int
  PROVE  /\ Sorted(a, b) \in Int \X Int /\ Sorted(a, b)[1] <= Sorted(a, b)[2]
         /\ a \in 0 .. Length /\ b \in 0 .. Length => InRange(Sorted(a, b))
  BY DEF Sorted, InRange

LEMMA AimedIs ==
  ASSUME NEW g \in Grips, NEW e \in Int \X Int, NEW p \in Int, NEW alt \in BOOLEAN,
         NEW a, a = Aimed(g, e, p, alt)
  PROVE  /\ a \in Grips /\ a.dragging = g.dragging
         /\ g.dragging # 0 => a = g
         /\ g.dragging = 0 => a.origin \in {g.origin, e[1], e[2]}
         /\ ~alt /\ g.dragging = 0 => a.origin = g.origin /\ a.middle = Unset
<1> USE BrushAssumption
<1>1. e[1] \in Int /\ e[2] \in Int
  OBVIOUS
<1>2. CASE g.dragging # 0
  <2>1. a = g
    BY <1>2 DEF Aimed
  <2> QED
    BY <1>2, <2>1
<1>3. CASE g.dragging = 0 /\ ~alt
  <2>1. a = [g EXCEPT !.middle = Unset]
    BY <1>3 DEF Aimed
  <2>2. a \in Grips /\ a.dragging = g.dragging /\ a.origin = g.origin /\ a.middle = Unset
    BY <2>1 DEF Grips
  <2> QED
    BY <1>3, <2>2
<1>4. CASE g.dragging = 0 /\ alt
  <2> DEFINE middle == IF g.middle = Unset THEN e[1] + e[2] ELSE g.middle
             origin == IF 2 * p < middle THEN e[2] ELSE e[1]
  <2>1. a = [g EXCEPT !.middle = middle, !.origin = origin]
    BY <1>4 DEF Aimed
  <2>2. middle \in Int /\ origin \in {e[1], e[2]}
    BY <1>1 DEF Grips
  <2> HIDE DEF middle, origin
  <2>3. a \in Grips /\ a.dragging = g.dragging /\ a.origin = origin
    BY <1>1, <2>1, <2>2 DEF Grips
  <2> QED
    BY <1>4, <2>2, <2>3
<1> QED
  BY <1>2, <1>3, <1>4

LEMMA MovedIs ==
  ASSUME NEW a \in Grips, NEW e \in Int \X Int, NEW p \in Int, NEW m, m = MovedTo(a, e, p)
  PROVE  /\ m \in Int \X Int
         /\ InRange(e) /\ (a.dragging = 0 => a.origin \in 0 .. Length) => InRange(m)
         /\ a.dragging = 0 /\ a.middle = Unset => a.origin \in {m[1], m[2]}
         /\ a.dragging = 0 \/ Size(m) = Size(e)
<1> USE BrushAssumption
<1> DEFINE o == a.origin
           size == e[2] - e[1]
           clamped == Clamped(-o, Length - size - o, p)
           dragged == o + clamped
           end == Clamped(0, Length, p)
           other == IF a.middle = Unset THEN o ELSE Clamped(0, Length, a.middle - end)
<1>1. e[1] \in Int /\ e[2] \in Int /\ o \in Int /\ a.middle \in Int \cup {Unset}
  BY DEF Grips
<1>2. CASE a.dragging # 0
  <2>1. m = <<dragged, dragged + size>>
    BY <1>2 DEF MovedTo
  <2> HIDE DEF o
  <2>2. clamped \in Int /\ (-o <= Length - size - o => clamped \in -o .. Length - size - o)
    BY <1>1, ClampedIs
  <2>3. InRange(e) => 0 <= dragged /\ dragged + size <= Length
    <3> HIDE DEF clamped
    <3> QED
      BY <1>1, <2>2 DEF InRange
  <2>4. InRange(e) => size >= 0
    BY <1>1 DEF InRange
  <2> HIDE DEF clamped
  <2>5. dragged \in Int /\ dragged + size \in Int
    BY <1>1, <2>2
  <2> HIDE DEF dragged
  <2>6. m \in Int \X Int /\ m[1] = dragged /\ m[2] = dragged + size
    BY <2>1, <2>5
  <2>7. InRange(e) => InRange(m)
    BY <1>1, <2>3, <2>4, <2>5, <2>6 DEF InRange
  <2>8. Size(m) = Size(e)
    BY <1>1, <2>5, <2>6 DEF Size
  <2> QED
    BY <1>2, <2>6, <2>7, <2>8
<1>3. CASE a.dragging = 0
  <2>1. m = Sorted(end, other)
    BY <1>3 DEF MovedTo
  <2> HIDE DEF o
  <2>2. end \in Int /\ end \in 0 .. Length
    BY ClampedInside
  <2> HIDE DEF end
  <2>3. other \in Int /\ (o \in 0 .. Length => other \in 0 .. Length) /\ (a.middle = Unset => other = o)
    <3>1. CASE a.middle = Unset
      BY <1>1, <3>1
    <3>2. CASE a.middle # Unset
      <4>1. a.middle - end \in Int
        BY <1>1, <2>2, <3>2
      <4>2. Clamped(0, Length, a.middle - end) \in 0 .. Length
        BY <4>1, ClampedInside
      <4> QED
        BY <3>2, <4>2
    <3> QED
      BY <3>1, <3>2
  <2> HIDE DEF other
  <2>6. m \in Int \X Int
    BY <2>1, <2>2, <2>3, SortedIs
  <2>4. other = m[1] \/ other = m[2]
    BY <2>1, <2>2, <2>3 DEF Sorted
  <2>5. o \in 0 .. Length => InRange(m)
    BY <2>1, <2>2, <2>3, SortedIs
  <2> QED
    BY <1>3, <2>3, <2>4, <2>5, <2>6 DEF o
<1> QED
  BY <1>2, <1>3

(* The extent changes in place, to m: as a move, or the end of one.         *)
LEMMA ChangedInPlace ==
  ASSUME BrushInv, NEW m \in Int \X Int,
         ~meddled => InRange(m),
         arrays' = [arrays EXCEPT ![extent] = m],
         domain' = IF m = Ends THEN domain ELSE Unset,
         outrun' = (outrun \/ (m # Ends /\ glide # Unset)),
         UNCHANGED <<extent, chart, meddled>>, glide' = glide \/ glide' = Unset
  PROVE  /\ arrays' \in [References -> Int \X Int] /\ domain' \in Domains \cup {Unset}
         /\ Ends' = m /\ GlideKept' /\ RangeInv' /\ DomainInv'
<1>1. arrays \in [References -> Int \X Int] /\ extent \in References
  BY DEF BrushInv, BrushTypes
<1>2. /\ arrays' \in [References -> Int \X Int] /\ Ends' = m
      /\ \A r \in References : arrays'[r] = IF r = extent THEN m ELSE arrays[r]
  BY <1>1 DEF Ends
<1>3. domain' \in Domains \cup {Unset}
  BY DEF BrushInv, BrushTypes
<1>4. GlideKept'
  BY DEF BrushInv, GlideKept
<1>5. glide # Unset => glide.from.x \in References /\ glide.to.x \in References
  BY DEF BrushInv, BrushTypes, Glides, Keeps
<1>6. chart # Unset => chart.x \in References
  BY DEF BrushInv, BrushTypes, Keeps
<1>7. RangeInv'
  <2> SUFFICES ASSUME ~meddled PROVE RangeInv'
    BY DEF RangeInv
  <2>1. InRange(m) /\ RangeInv
    BY DEF BrushInv
  <2>2. chart # Unset => InRange(arrays'[chart.x])
    BY <1>2, <1>6, <2>1 DEF RangeInv
  <2>3. glide # Unset /\ glide.stage = "pending" => InRange(arrays'[glide.from.x])
    BY <1>2, <1>5, <2>1 DEF RangeInv
  <2> QED
    BY <1>2, <2>1, <2>2, <2>3 DEF RangeInv
<1>8. DomainInv'
  <2> SUFFICES ASSUME ~outrun' PROVE DomainInv'
    BY DEF DomainInv
  <2>1. ~outrun /\ (m = Ends \/ glide = Unset)
    OBVIOUS
  <2>2. DomainInv /\ Means(domain, Ends)
    BY <2>1 DEF BrushInv, DomainInv
  <2>3. Means(domain', m)
    BY <2>2 DEF Means
  <2>4. CASE glide' = Unset
    BY <1>2, <2>3, <2>4 DEF DomainInv
  <2>5. CASE glide' = glide /\ glide # Unset
    <3>1. m = Ends /\ domain' = domain
      BY <2>1, <2>5
    <3>2. arrays'[glide.to.x] = arrays[glide.to.x]
      BY <1>2, <1>5, <2>5, <3>1 DEF Ends
    <3> QED
      BY <1>2, <2>1, <2>2, <2>3, <2>5, <3>1, <3>2 DEF DomainInv
  <2> QED
    BY <2>4, <2>5
<1> QED
  BY <1>2, <1>3, <1>4, <1>7, <1>8

LEMMA MoveKeeps ==
  ASSUME BrushInv, NEW g \in Grips, NEW p \in Int, NEW alt \in BOOLEAN, BrushMove(g, p, alt),
         UNCHANGED <<extent, chart, meddled>>, glide' = glide \/ glide' = Unset,
         ~meddled => /\ g.dragging = 0 => g.origin \in 0 .. Length
                     /\ g.dragging = 2 => ~stray /\ g.origin \in {0, Ends[1] - Ends[2]}
  PROVE  /\ arrays' \in [References -> Int \X Int] /\ domain' \in Domains \cup {Unset}
         /\ gesture' \in Grips /\ stray' \in BOOLEAN /\ outrun' \in BOOLEAN
         /\ GlideKept' /\ RangeInv' /\ HeldInv' /\ DomainInv'
<1> USE BrushAssumption
<1>0. /\ Ends \in Int \X Int /\ stray \in BOOLEAN /\ outrun \in BOOLEAN
      /\ p + g.offset \in Int /\ (~meddled => InRange(Ends))
  <2>1. Ends \in Int \X Int
    BY DEF BrushInv, BrushTypes, Ends
  <2>2. stray \in BOOLEAN /\ outrun \in BOOLEAN
    BY DEF BrushInv, BrushFlags
  <2>3. p + g.offset \in Int
    BY DEF Grips
  <2>4. ~meddled => InRange(Ends)
    BY DEF BrushInv, RangeInv
  <2> QED
    BY <2>1, <2>2, <2>3, <2>4
<1> DEFINE q == p + g.offset
<1>1. PICK a, m : /\ a = Aimed(g, Ends, q, alt) /\ m = MovedTo(a, Ends, q)
                  /\ gesture' = a /\ arrays' = [arrays EXCEPT ![extent] = m]
                  /\ domain' = IF m = Ends THEN domain ELSE Unset
                  /\ stray' = IF g.dragging # 0 THEN stray ELSE alt
                  /\ outrun' = (outrun \/ (m # Ends /\ glide # Unset))
  BY DEF BrushMove
<1>2. q \in Int
  BY <1>0
<1> HIDE DEF q
<1>3. /\ a \in Grips /\ a.dragging = g.dragging
      /\ g.dragging # 0 => a = g
      /\ g.dragging = 0 => a.origin \in {g.origin, Ends[1], Ends[2]}
      /\ ~alt /\ g.dragging = 0 => a.origin = g.origin /\ a.middle = Unset
  BY <1>0, <1>1, <1>2, AimedIs
<1>4. g.dragging \in 0 .. 2
  BY DEF Grips
<1>5. ~meddled => (a.dragging = 0 => a.origin \in 0 .. Length)
  <2> SUFFICES ASSUME ~meddled, g.dragging = 0 PROVE a.origin \in 0 .. Length
    BY <1>3
  <2>1. Ends[1] \in 0 .. Length /\ Ends[2] \in 0 .. Length
    BY <1>0 DEF InRange
  <2> QED
    BY <1>3, <2>1
<1> DEFINE e == Ends
<1>a. e \in Int \X Int /\ m = MovedTo(a, e, q)
  BY <1>0, <1>1
<1> HIDE DEF e
<1>b. m \in Int \X Int
  BY <1>a, <1>2, <1>3, MovedIs
<1>c. InRange(e) /\ (a.dragging = 0 => a.origin \in 0 .. Length) => InRange(m)
  BY <1>a, <1>2, <1>3, MovedIs
<1>d. a.dragging = 0 /\ a.middle = Unset => a.origin \in {m[1], m[2]}
  BY <1>a, <1>2, <1>3, MovedIs
<1>f. a \in Grips
  BY <1>3
<1>e. a.dragging = 0 \/ Size(m) = Size(e)
  BY <1>a, <1>2, <1>f, MovedIs
<1>6. /\ m \in Int \X Int
      /\ InRange(Ends) /\ (a.dragging = 0 => a.origin \in 0 .. Length) => InRange(m)
      /\ a.dragging = 0 /\ a.middle = Unset => a.origin \in {m[1], m[2]}
      /\ a.dragging # 0 => m[1] - m[2] = Ends[1] - Ends[2]
  BY <1>b, <1>c, <1>d, <1>e DEF e, Size
<1>7. ~meddled => InRange(m)
  BY <1>0, <1>5, <1>6
<1>8. /\ arrays' \in [References -> Int \X Int] /\ domain' \in Domains \cup {Unset}
      /\ Ends' = m /\ GlideKept' /\ RangeInv' /\ DomainInv'
  BY <1>1, <1>6, <1>7, ChangedInPlace
<1>9. HeldInv'
  <2> SUFFICES ASSUME ~meddled PROVE Holds(a, stray', m)
    BY <1>1, <1>8 DEF HeldInv
  <2>1. CASE g.dragging = 0
    <3>1. a.origin \in 0 .. Length /\ stray' = alt
      BY <1>1, <1>3, <1>5, <2>1
    <3>2. alt \/ a.origin \in {m[1], m[2]}
      BY <1>3, <1>6, <2>1
    <3> QED
      BY <1>3, <2>1, <3>1, <3>2 DEF Holds
  <2>2. CASE g.dragging # 0
    <3>1. a = g /\ stray' = stray /\ m[1] - m[2] = Ends[1] - Ends[2]
      BY <1>1, <1>3, <1>6, <2>2
    <3> QED
      BY <1>3, <2>2, <3>1 DEF Holds
  <2> QED
    BY <2>1, <2>2
<1>10. stray' \in BOOLEAN /\ outrun' \in BOOLEAN
  <2>1. stray' \in BOOLEAN
    BY <1>0, <1>1
  <2>2. outrun' \in BOOLEAN
    BY <1>0, <1>1
  <2> QED
    BY <2>1, <2>2
<1> QED
  BY <1>1, <1>3, <1>8, <1>9, <1>10

-----------------------------------------------------------------------------
(* There is always an array that nothing that is kept refers to. *)
LEMMA FreshIs ==
  ASSUME BrushTypes, GlideKept
  PROVE  Fresh \in References /\ Fresh \notin Kept
<1>1. /\ extent \in References /\ (chart # Unset => chart.x \in References)
      /\ glide # Unset => glide.from.x \in References /\ glide.to.x \in References /\ glide.c \in References
  BY DEF BrushTypes, Keeps, Glides
<1>2. PICK p \in References, q \in References, s \in References, t \in References : Kept \subseteq {p, q, s, t}
  <2>1. CASE glide = Unset /\ chart = Unset
    BY <1>1, <2>1 DEF Kept
  <2>2. CASE glide = Unset /\ chart # Unset
    BY <1>1, <2>2 DEF Kept
  <2>3. CASE glide # Unset
    <3>1. chart # Unset /\ chart.x = glide.to.x
      BY <2>3 DEF GlideKept
    <3>2. Kept \subseteq {extent, glide.from.x, glide.to.x, glide.c}
      BY <2>3, <3>1 DEF Kept
    <3> QED
      BY <1>1, <2>3, <3>2
  <2> QED
    BY <2>1, <2>2, <2>3
<1>3. \E r \in References : r \notin {p, q, s, t}
  BY DEF References
<1>4. \E r \in References : r \notin Kept
  BY <1>2, <1>3
<1> QED
  BY <1>4 DEF Fresh

LEMMA NewIs ==
  ASSUME BrushTypes, GlideKept, NEW e \in Int \X Int, New(e)
  PROVE  /\ extent' \in References /\ extent' \notin Kept /\ arrays' \in [References -> Int \X Int]
         /\ Ends' = e /\ \A r \in Kept \cap References : arrays'[r] = arrays[r]
<1>1. Fresh \in References /\ Fresh \notin Kept
  BY FreshIs
<1>2. /\ extent' = Fresh
      /\ arrays' = [r \in References |-> IF r = Fresh THEN e ELSE IF r \in Kept THEN arrays[r] ELSE <<0, 0>>]
  BY DEF New
<1>3. \A r \in References : arrays[r] \in Int \X Int
  BY DEF BrushTypes
<1> QED
  BY <1>1, <1>2, <1>3 DEF Ends

-----------------------------------------------------------------------------
(* A gesture. *)
LEMMA StepBrushStart ==
  ASSUME BrushInv, NEW part \in {"background", "extent", "e", "w"}, NEW p \in Int, NEW alt \in BOOLEAN,
         BrushStart(part, p, alt)
  PROVE  BrushInv'
<1> DEFINE grip(d, o, off, m) == [dragging |-> d, origin |-> o, offset |-> off, middle |-> m]
           g == CASE part = "extent" -> grip(1, Ends[1] - p, 0, Unset)
                  [] part = "e" -> grip(0, Ends[1], Ends[2] - p, Unset)
                  [] part = "w" -> grip(0, Ends[2], Ends[1] - p, Unset)
                  [] part = "background" -> grip(0, p, 0, IF alt THEN 2 * p ELSE Unset)
<1>1. /\ gesture = Unset /\ (part = "background" => p \in 0 .. Length)
      /\ open' = open + 1 /\ handles' = TRUE
      /\ UNCHANGED <<extent, chart, undrawn, meddled>>
  BY DEF BrushStart
<1>2. \/ glide # Unset /\ glide.stage = "running" /\ glide' = Unset /\ cut' = cut + 1
      \/ ~(glide # Unset /\ glide.stage = "running") /\ glide' = glide /\ cut' = cut
  BY DEF BrushStart
<1>3. BrushMove(g, p, alt)
  BY DEF BrushStart
<1>4. Ends \in Int \X Int /\ (~meddled => InRange(Ends))
  BY DEF BrushInv, BrushTypes, RangeInv, Ends
<1>5. Ends[1] \in Int /\ Ends[2] \in Int
  BY <1>4
<1>6. ~meddled => Ends[1] \in 0 .. Length /\ Ends[2] \in 0 .. Length
  BY <1>4, <1>5, BrushAssumption DEF InRange
<1>7. g \in Grips /\ g.dragging # 2 /\ (~meddled => (g.dragging = 0 => g.origin \in 0 .. Length))
  <2>1. CASE part = "extent"
    <3>1. g = grip(1, Ends[1] - p, 0, Unset)
      BY <2>1
    <3> QED
      BY <3>1, <1>5 DEF Grips
  <2>2. CASE part = "e"
    <3>1. g = grip(0, Ends[1], Ends[2] - p, Unset)
      BY <2>2
    <3> QED
      BY <3>1, <1>5, <1>6 DEF Grips
  <2>3. CASE part = "w"
    <3>1. g = grip(0, Ends[2], Ends[1] - p, Unset)
      BY <2>3
    <3> QED
      BY <3>1, <1>5, <1>6 DEF Grips
  <2>4. CASE part = "background"
    <3>1. g = grip(0, p, 0, IF alt THEN 2 * p ELSE Unset)
      BY <2>4
    <3>2. (IF alt THEN 2 * p ELSE Unset) \in Int \cup {Unset}
      OBVIOUS
    <3> QED
      BY <3>1, <3>2, <1>1, <2>4 DEF Grips
  <2> QED
    BY <2>1, <2>2, <2>3, <2>4
<1> HIDE DEF g
<1>8. glide' = glide \/ glide' = Unset
  BY <1>2
<1>a. UNCHANGED <<extent, chart, meddled>>
  BY <1>1
<1>b. ~meddled => /\ g.dragging = 0 => g.origin \in 0 .. Length
                  /\ g.dragging = 2 => ~stray /\ g.origin \in {0, Ends[1] - Ends[2]}
  BY <1>7
<1>9. /\ arrays' \in [References -> Int \X Int] /\ domain' \in Domains \cup {Unset}
      /\ gesture' \in Grips /\ stray' \in BOOLEAN /\ outrun' \in BOOLEAN
      /\ GlideKept' /\ RangeInv' /\ HeldInv' /\ DomainInv'
  BY <1>3, <1>7, <1>8, <1>a, <1>b, MoveKeeps
<1>10. BrushTypes /\ BrushFlags /\ BrushEventsPaired
  BY DEF BrushInv
<1>11. BrushTypes'
  BY <1>1, <1>2, <1>9, <1>10 DEF BrushTypes
<1>12. BrushFlags'
  BY <1>1, <1>9, <1>10 DEF BrushFlags
<1>13. gesture' # Unset
  BY <1>9, BrushAssumption
<1>14. BrushEventsPaired'
  BY <1>1, <1>2, <1>10, <1>13 DEF BrushEventsPaired, BrushTypes
<1>15. HandlesMatch'
  BY <1>13 DEF HandlesMatch
<1> QED
  BY <1>9, <1>11, <1>12, <1>14, <1>15 DEF BrushInv

LEMMA StepMove ==
  ASSUME BrushInv, NEW p \in Int, NEW alt \in BOOLEAN, Move(p, alt)
  PROVE  BrushInv'
<1>1. /\ gesture # Unset /\ BrushMove(gesture, p, alt)
      /\ UNCHANGED <<extent, chart, glide, handles, open, cut, undrawn, meddled>>
  BY DEF Move
<1>2. BrushTypes /\ BrushFlags /\ BrushEventsPaired
  BY DEF BrushInv
<1>3. gesture \in Grips
  BY <1>1, <1>2 DEF BrushTypes
<1>4. ~meddled => /\ gesture.dragging = 0 => gesture.origin \in 0 .. Length
                  /\ gesture.dragging = 2 => ~stray /\ gesture.origin \in {0, Ends[1] - Ends[2]}
  BY <1>1 DEF BrushInv, HeldInv, Holds
<1>5. UNCHANGED <<extent, chart, meddled>> /\ (glide' = glide \/ glide' = Unset)
  BY <1>1
<1>6. /\ arrays' \in [References -> Int \X Int] /\ domain' \in Domains \cup {Unset}
      /\ gesture' \in Grips /\ stray' \in BOOLEAN /\ outrun' \in BOOLEAN
      /\ GlideKept' /\ RangeInv' /\ HeldInv' /\ DomainInv'
  BY <1>1, <1>3, <1>4, <1>5, MoveKeeps
<1>7. BrushTypes'
  BY <1>1, <1>2, <1>6 DEF BrushTypes
<1>8. BrushFlags'
  BY <1>1, <1>2, <1>6 DEF BrushFlags
<1>9. gesture' # Unset
  BY <1>6, BrushAssumption
<1>10. BrushEventsPaired'
  BY <1>1, <1>2, <1>9 DEF BrushEventsPaired
<1>11. HandlesMatch'
  BY <1>9 DEF HandlesMatch
<1> QED
  BY <1>6, <1>7, <1>8, <1>10, <1>11 DEF BrushInv

LEMMA StepSpaceDown == ASSUME BrushInv, SpaceDown PROVE BrushInv'
<1>1. /\ gesture # Unset /\ gesture.dragging = 0
      /\ gesture' = [gesture EXCEPT !.middle = Unset, !.origin = @ - Ends[2], !.dragging = 2]
      /\ meddled' = (meddled \/ stray)
      /\ UNCHANGED <<arrays, extent, domain, chart, glide, handles, open, cut, undrawn, stray, outrun>>
  BY DEF SpaceDown
<1>2. BrushTypes /\ BrushFlags /\ GlideKept /\ RangeInv /\ HeldInv /\ DomainInv /\ BrushEventsPaired
  BY DEF BrushInv
<1>3. gesture \in Grips /\ Ends \in Int \X Int
  BY <1>1, <1>2 DEF BrushTypes, Ends
<1>4. Ends[1] \in Int /\ Ends[2] \in Int /\ Ends' = Ends
  BY <1>1, <1>3 DEF Ends
<1>5. /\ gesture' \in Grips /\ gesture'.dragging = 2 /\ gesture'.origin = gesture.origin - Ends[2]
  <2> DEFINE o == gesture.origin - Ends[2]
  <2>1. o \in Int
    BY <1>3, <1>4 DEF Grips
  <2>2. gesture' = [gesture EXCEPT !.middle = Unset, !.origin = o, !.dragging = 2]
    BY <1>1
  <2> HIDE DEF o
  <2>a. gesture' = [dragging |-> 2, origin |-> o, offset |-> gesture.offset, middle |-> Unset]
    BY <1>3, <2>1, <2>2 DEF Grips
  <2>b. gesture.offset \in Int
    BY <1>3 DEF Grips
  <2>3. gesture' \in Grips
    BY <2>a, <2>b, <2>1 DEF Grips
  <2>4. gesture'.dragging = 2 /\ gesture'.origin = o
    BY <1>3, <2>1, <2>2 DEF Grips
  <2> QED
    BY <2>3, <2>4 DEF o
<1>6. gesture' # Unset
  BY <1>5, BrushAssumption
<1>7. BrushTypes'
  BY <1>1, <1>2, <1>5 DEF BrushTypes
<1>8. BrushFlags'
  BY <1>1, <1>2 DEF BrushFlags
<1>9. GlideKept'
  BY <1>1, <1>2 DEF GlideKept
<1>10. ~meddled' => ~meddled /\ ~stray
  BY <1>1
<1>11. RangeInv'
  BY <1>1, <1>2, <1>4, <1>10 DEF RangeInv
<1>12. DomainInv'
  BY <1>1, <1>2, <1>4 DEF DomainInv
<1>13. HeldInv'
  <2> SUFFICES ASSUME ~meddled' PROVE Holds(gesture', stray', Ends')
    BY DEF HeldInv
  <2>1. Holds(gesture, stray, Ends) /\ ~stray /\ stray' = stray
    BY <1>1, <1>2, <1>10 DEF HeldInv
  <2>2. gesture.origin \in {Ends[1], Ends[2]}
    BY <1>1, <2>1 DEF Holds
  <2>3. gesture'.origin \in {0, Ends[1] - Ends[2]}
    BY <1>4, <1>5, <2>2
  <2> QED
    BY <1>4, <1>5, <2>1, <2>3 DEF Holds
<1>14. BrushEventsPaired'
  BY <1>1, <1>2, <1>6 DEF BrushEventsPaired
<1>15. HandlesMatch'
  BY <1>6 DEF HandlesMatch
<1> QED
  BY <1>7, <1>8, <1>9, <1>11, <1>12, <1>13, <1>14, <1>15 DEF BrushInv

LEMMA StepSpaceUp == ASSUME BrushInv, SpaceUp PROVE BrushInv'
<1>1. /\ gesture # Unset /\ gesture.dragging = 2
      /\ gesture' = [gesture EXCEPT !.origin = @ + Ends[2], !.dragging = 0]
      /\ UNCHANGED <<arrays, extent, domain, chart, glide, handles, open, cut, undrawn, meddled, stray, outrun>>
  BY DEF SpaceUp, Histories
<1>2. BrushTypes /\ BrushFlags /\ GlideKept /\ RangeInv /\ HeldInv /\ DomainInv /\ BrushEventsPaired
  BY DEF BrushInv
<1>3. gesture \in Grips /\ Ends \in Int \X Int
  BY <1>1, <1>2 DEF BrushTypes, Ends
<1>4. Ends[1] \in Int /\ Ends[2] \in Int /\ Ends' = Ends
  BY <1>1, <1>3 DEF Ends
<1>5. /\ gesture' \in Grips /\ gesture'.dragging = 0 /\ gesture'.origin = gesture.origin + Ends[2]
  <2> DEFINE o == gesture.origin + Ends[2]
  <2>1. o \in Int
    BY <1>3, <1>4 DEF Grips
  <2>2. gesture' = [gesture EXCEPT !.origin = o, !.dragging = 0]
    BY <1>1
  <2> HIDE DEF o
  <2>a. gesture' = [dragging |-> 0, origin |-> o, offset |-> gesture.offset, middle |-> gesture.middle]
    BY <1>3, <2>1, <2>2 DEF Grips
  <2>b. gesture.offset \in Int /\ gesture.middle \in Int \cup {Unset}
    BY <1>3 DEF Grips
  <2>3. gesture' \in Grips
    BY <2>a, <2>b, <2>1 DEF Grips
  <2>4. gesture'.dragging = 0 /\ gesture'.origin = o
    BY <1>3, <2>1, <2>2 DEF Grips
  <2> QED
    BY <2>3, <2>4 DEF o
<1>6. gesture' # Unset
  BY <1>5, BrushAssumption
<1>7. BrushTypes'
  BY <1>1, <1>2, <1>5 DEF BrushTypes
<1>8. BrushFlags'
  BY <1>1, <1>2 DEF BrushFlags
<1>9. GlideKept'
  BY <1>1, <1>2 DEF GlideKept
<1>11. RangeInv'
  BY <1>1, <1>2, <1>4 DEF RangeInv
<1>12. DomainInv'
  BY <1>1, <1>2, <1>4 DEF DomainInv
<1>13. HeldInv'
  <2> SUFFICES ASSUME ~meddled PROVE Holds(gesture', stray', Ends')
    BY <1>1 DEF HeldInv
  <2>1. Holds(gesture, stray, Ends) /\ InRange(Ends)
    BY <1>1, <1>2 DEF HeldInv, RangeInv
  <2>2. gesture.origin \in {0, Ends[1] - Ends[2]}
    BY <1>1, <2>1 DEF Holds
  <2>3. gesture'.origin = Ends[1] \/ gesture'.origin = Ends[2]
    BY <1>4, <1>5, <2>2
  <2>4. gesture'.origin \in 0 .. Length
    BY <1>4, <2>1, <2>3, BrushAssumption DEF InRange
  <2> QED
    BY <1>4, <1>5, <2>3, <2>4 DEF Holds
<1>14. BrushEventsPaired'
  BY <1>1, <1>2, <1>6 DEF BrushEventsPaired
<1>15. HandlesMatch'
  BY <1>6 DEF HandlesMatch
<1> QED
  BY <1>7, <1>8, <1>9, <1>11, <1>12, <1>13, <1>14, <1>15 DEF BrushInv

LEMMA StepBrushEnd ==
  ASSUME BrushInv, NEW p \in Int, NEW alt \in BOOLEAN, BrushEnd(p, alt)
  PROVE  BrushInv'
<1> DEFINE q == p + gesture.offset
           e == Ends
<1>1. PICK a, m : /\ a = Aimed(gesture, e, q, alt) /\ m = MovedTo(a, e, q)
                  /\ arrays' = [arrays EXCEPT ![extent] = m]
                  /\ domain' = IF m = Ends THEN domain ELSE Unset
                  /\ outrun' = (outrun \/ (m # Ends /\ glide # Unset))
                  /\ handles' = (m[1] # m[2])
  BY DEF BrushEnd
<1>2. /\ gesture # Unset /\ gesture' = Unset /\ open' = open - 1
      /\ stray' = FALSE /\ undrawn' = FALSE
      /\ UNCHANGED <<extent, chart, glide, cut, meddled>>
  BY DEF BrushEnd
<1>3. BrushTypes /\ BrushFlags /\ BrushEventsPaired
  BY DEF BrushInv
<1>4. gesture \in Grips /\ q \in Int /\ e \in Int \X Int
  <2>1. gesture \in Grips
    BY <1>2, <1>3 DEF BrushTypes
  <2> QED
    BY <1>3, <2>1 DEF BrushTypes, Grips, Ends
<1>5. ~meddled => InRange(e) /\ Holds(gesture, stray, e)
  BY <1>2 DEF BrushInv, RangeInv, HeldInv
<1> HIDE DEF q
<1> HIDE DEF e
<1>6. /\ a \in Grips /\ a.dragging = gesture.dragging
      /\ gesture.dragging = 0 => a.origin \in {gesture.origin, e[1], e[2]}
  BY <1>1, <1>4, AimedIs
<1>7. ~meddled => (a.dragging = 0 => a.origin \in 0 .. Length)
  <2> SUFFICES ASSUME ~meddled, gesture.dragging = 0 PROVE a.origin \in 0 .. Length
    BY <1>6
  <2>1. e[1] \in 0 .. Length /\ e[2] \in 0 .. Length
    BY <1>5, BrushAssumption DEF InRange
  <2>2. gesture.origin \in 0 .. Length
    BY <1>5 DEF Holds
  <2> QED
    BY <1>6, <2>1, <2>2
<1>8. m \in Int \X Int
  BY <1>1, <1>4, <1>6, MovedIs
<1>9. InRange(e) /\ (a.dragging = 0 => a.origin \in 0 .. Length) => InRange(m)
  BY <1>1, <1>4, <1>6, MovedIs
<1>10. ~meddled => InRange(m)
  BY <1>5, <1>7, <1>9
<1>a. UNCHANGED <<extent, chart, meddled>> /\ (glide' = glide \/ glide' = Unset)
  BY <1>2
<1>11. /\ arrays' \in [References -> Int \X Int] /\ domain' \in Domains \cup {Unset}
       /\ Ends' = m /\ GlideKept' /\ RangeInv' /\ DomainInv'
  BY <1>1, <1>8, <1>10, <1>a, ChangedInPlace
<1>12. BrushTypes'
  BY <1>2, <1>3, <1>11 DEF BrushTypes
<1>13. handles' \in BOOLEAN /\ outrun' \in BOOLEAN
  BY <1>1, <1>3 DEF BrushFlags
<1>14. BrushFlags'
  BY <1>2, <1>3, <1>13 DEF BrushFlags
<1>15. HeldInv'
  BY <1>2 DEF HeldInv
<1>16. BrushEventsPaired'
  BY <1>2, <1>3 DEF BrushEventsPaired, BrushTypes
<1>17. HandlesMatch'
  BY <1>1, <1>11 DEF HandlesMatch, EmptyExtent
<1> QED
  BY <1>11, <1>12, <1>14, <1>15, <1>16, <1>17 DEF BrushInv

-----------------------------------------------------------------------------
(* The program and the transition. *)
LEMMA StepSetExtent == ASSUME BrushInv, NEW z \in Domains, SetExtent(z) PROVE BrushInv'
<1> DEFINE e == Sorted(Scale(z[1]), Scale(z[2]))
<1>1. /\ domain' = z /\ (IF e = Ends THEN UNCHANGED <<arrays, extent>> ELSE New(e))
      /\ undrawn' = TRUE /\ meddled' = (gesture # Unset \/ (meddled /\ {glide, chart} # {Unset}))
      /\ outrun' = (glide # Unset)
      /\ UNCHANGED <<chart, glide, gesture, handles, open, cut, stray>>
  BY DEF SetExtent
<1>2. BrushTypes /\ BrushFlags /\ GlideKept /\ RangeInv /\ HeldInv /\ DomainInv /\ BrushEventsPaired
  BY DEF BrushInv
<1>3. e \in Int \X Int /\ InRange(e)
  <2>1. z[1] \in 0 .. Length /\ z[2] \in 0 .. Length
    BY BrushAssumption
  <2>2. Scale(z[1]) \in 0 .. Length /\ Scale(z[2]) \in 0 .. Length
    BY <2>1, BrushAssumption DEF Scale
  <2>3. InRange(e)
    BY <2>2, SortedIs, BrushAssumption
  <2> QED
    BY <2>3 DEF InRange
<1>a. Means(z, e)
  BY DEF Means
<1> HIDE DEF e
<1>4. /\ extent' \in References /\ arrays' \in [References -> Int \X Int]
      /\ Ends' = e /\ \A r \in Kept \cap References : arrays'[r] = arrays[r]
  <2>1. CASE e = Ends
    BY <1>1, <1>2, <2>1 DEF BrushTypes, Ends
  <2>2. CASE e # Ends
    BY <1>1, <1>2, <1>3, <2>2, NewIs
  <2> QED
    BY <2>1, <2>2
<1>5. BrushTypes'
  BY <1>1, <1>2, <1>4 DEF BrushTypes
<1>b. meddled' \in BOOLEAN /\ outrun' \in BOOLEAN
  BY <1>1
<1>6. BrushFlags'
  BY <1>1, <1>2, <1>b DEF BrushFlags
<1>7. GlideKept'
  BY <1>1, <1>2 DEF GlideKept
<1>8. RangeInv'
  <2> SUFFICES ASSUME ~meddled' PROVE RangeInv'
    BY DEF RangeInv
  <2>1. ~meddled \/ (glide = Unset /\ chart = Unset)
    <3>1. {glide, chart} = {Unset} => glide = Unset /\ chart = Unset
      OBVIOUS
    <3> QED
      BY <1>1, <3>1
  <2>2. CASE glide = Unset /\ chart = Unset
    BY <1>1, <1>3, <1>4, <2>2 DEF RangeInv
  <2>3. CASE ~meddled
    <3>1. chart # Unset => InRange(arrays'[chart.x])
      <4> SUFFICES ASSUME chart # Unset PROVE InRange(arrays'[chart.x])
        OBVIOUS
      <4>1. chart.x \in References
        BY <1>2 DEF BrushTypes, Keeps
      <4>2. chart.x \in Kept
        BY DEF Kept
      <4> QED
        BY <1>2, <1>4, <2>3, <4>1, <4>2 DEF RangeInv
    <3>2. glide # Unset /\ glide.stage = "pending" => InRange(arrays'[glide.from.x])
      <4> SUFFICES ASSUME glide # Unset, glide.stage = "pending" PROVE InRange(arrays'[glide.from.x])
        OBVIOUS
      <4>1. glide.from.x \in References
        BY <1>2 DEF BrushTypes, Glides, Keeps
      <4>2. glide.from.x \in Kept
        BY DEF Kept
      <4> QED
        BY <1>2, <1>4, <2>3, <4>1, <4>2 DEF RangeInv
    <3> QED
      BY <1>1, <1>2, <1>3, <1>4, <2>3, <3>1, <3>2 DEF RangeInv
  <2> QED
    BY <2>1, <2>2, <2>3
<1>9. HeldInv'
  BY <1>1 DEF HeldInv
<1>10. DomainInv'
  BY <1>1, <1>4, <1>a DEF DomainInv
<1>11. BrushEventsPaired'
  BY <1>1, <1>2 DEF BrushEventsPaired
<1>12. HandlesMatch'
  BY <1>1 DEF HandlesMatch
<1> QED
  BY <1>5, <1>6, <1>7, <1>8, <1>9, <1>10, <1>11, <1>12 DEF BrushInv

LEMMA StepClearBrush == ASSUME BrushInv, ClearBrush PROVE BrushInv'
<1> DEFINE e == <<0, 0>>
<1>1. /\ undrawn' = TRUE /\ outrun' = (outrun \/ glide # Unset)
      /\ UNCHANGED <<chart, glide, gesture, handles, open, cut, stray>>
  BY DEF ClearBrush
<1>2. BrushTypes /\ BrushFlags /\ GlideKept /\ RangeInv /\ HeldInv /\ DomainInv /\ BrushEventsPaired
  BY DEF BrushInv
<1>3. e \in Int \X Int /\ InRange(e)
  BY BrushAssumption DEF InRange
<1>4. \/ UNCHANGED <<arrays, extent, domain, meddled>>
      \/ /\ New(e) /\ domain' = Unset
         /\ meddled' = (gesture # Unset \/ (meddled /\ {glide, chart} # {Unset}))
  BY DEF ClearBrush
<1> HIDE DEF e
<1>5. CASE UNCHANGED <<arrays, extent, domain, meddled>>
  <2>1. BrushTypes'
    BY <1>1, <1>2, <1>5 DEF BrushTypes
  <2>b. outrun' \in BOOLEAN
    BY <1>1, <1>2 DEF BrushFlags
  <2>2. BrushFlags'
    BY <1>1, <1>2, <1>5, <2>b DEF BrushFlags
  <2>3. GlideKept' /\ Ends' = Ends
    BY <1>1, <1>2, <1>5 DEF GlideKept, Ends
  <2>4. RangeInv'
    BY <1>1, <1>2, <1>5, <2>3 DEF RangeInv
  <2>5. HeldInv'
    BY <1>1, <1>2, <1>5, <2>3 DEF HeldInv
  <2>6. DomainInv'
    BY <1>1, <1>2, <1>5, <2>3 DEF DomainInv
  <2>7. BrushEventsPaired' /\ HandlesMatch'
    BY <1>1, <1>2 DEF BrushEventsPaired, HandlesMatch
  <2> QED
    BY <2>1, <2>2, <2>3, <2>4, <2>5, <2>6, <2>7 DEF BrushInv
<1>6. CASE /\ New(e) /\ domain' = Unset
           /\ meddled' = (gesture # Unset \/ (meddled /\ {glide, chart} # {Unset}))
  <2>4. /\ extent' \in References /\ arrays' \in [References -> Int \X Int]
        /\ Ends' = e /\ \A r \in Kept \cap References : arrays'[r] = arrays[r]
    BY <1>2, <1>3, <1>6, NewIs
  <2>5. BrushTypes'
    BY <1>1, <1>2, <1>6, <2>4 DEF BrushTypes
  <2>b. meddled' \in BOOLEAN /\ outrun' \in BOOLEAN
    BY <1>1, <1>2, <1>6 DEF BrushFlags
  <2>6. BrushFlags'
    BY <1>1, <1>2, <2>b DEF BrushFlags
  <2>7. GlideKept'
    BY <1>1, <1>2 DEF GlideKept
  <2>8. RangeInv'
    <3> SUFFICES ASSUME ~meddled' PROVE RangeInv'
      BY DEF RangeInv
    <3>1. ~meddled \/ (glide = Unset /\ chart = Unset)
      <4>1. {glide, chart} = {Unset} => glide = Unset /\ chart = Unset
        OBVIOUS
      <4> QED
        BY <1>6, <4>1
    <3>2. CASE glide = Unset /\ chart = Unset
      BY <1>1, <1>3, <2>4, <3>2 DEF RangeInv
    <3>3. CASE ~meddled
      <4>1. chart # Unset => InRange(arrays'[chart.x])
        <5> SUFFICES ASSUME chart # Unset PROVE InRange(arrays'[chart.x])
          OBVIOUS
        <5>1. chart.x \in References
          BY <1>2 DEF BrushTypes, Keeps
        <5>2. chart.x \in Kept
          BY DEF Kept
        <5> QED
          BY <1>2, <2>4, <3>3, <5>1, <5>2 DEF RangeInv
      <4>2. glide # Unset /\ glide.stage = "pending" => InRange(arrays'[glide.from.x])
        <5> SUFFICES ASSUME glide # Unset, glide.stage = "pending" PROVE InRange(arrays'[glide.from.x])
          OBVIOUS
        <5>1. glide.from.x \in References
          BY <1>2 DEF BrushTypes, Glides, Keeps
        <5>2. glide.from.x \in Kept
          BY DEF Kept
        <5> QED
          BY <1>2, <2>4, <3>3, <5>1, <5>2 DEF RangeInv
      <4> QED
        BY <1>1, <1>2, <1>3, <2>4, <3>3, <4>1, <4>2 DEF RangeInv
    <3> QED
      BY <3>1, <3>2, <3>3
  <2>9. HeldInv'
    BY <1>1, <1>6 DEF HeldInv
  <2>10. DomainInv'
    BY <1>1, <1>6, <2>4 DEF DomainInv, Means
  <2>11. BrushEventsPaired' /\ HandlesMatch'
    BY <1>1, <1>2 DEF BrushEventsPaired, HandlesMatch
  <2> QED
    BY <2>5, <2>6, <2>7, <2>8, <2>9, <2>10, <2>11 DEF BrushInv
<1> QED
  BY <1>4, <1>5, <1>6

LEMMA StepRedrawBrush == ASSUME BrushInv, RedrawBrush PROVE BrushInv'
<1>1. /\ undrawn' = FALSE /\ handles' = ~EmptyExtent
      /\ UNCHANGED <<arrays, extent, domain, chart, glide, gesture, open, cut, meddled, stray, outrun>>
  BY DEF RedrawBrush
<1>2. BrushTypes /\ BrushFlags /\ GlideKept /\ RangeInv /\ HeldInv /\ DomainInv /\ BrushEventsPaired
  BY DEF BrushInv
<1>3. BrushTypes'
  BY <1>1, <1>2 DEF BrushTypes
<1>4. handles' \in BOOLEAN
  BY <1>1 DEF EmptyExtent
<1>5. BrushFlags'
  BY <1>1, <1>2, <1>4 DEF BrushFlags
<1>6. GlideKept' /\ Ends' = Ends
  BY <1>1, <1>2 DEF GlideKept, Ends
<1>7. RangeInv'
  BY <1>1, <1>2, <1>6 DEF RangeInv
<1>8. HeldInv'
  BY <1>1, <1>2, <1>6 DEF HeldInv
<1>9. DomainInv'
  BY <1>1, <1>2, <1>6 DEF DomainInv
<1>10. BrushEventsPaired'
  BY <1>1, <1>2 DEF BrushEventsPaired
<1>11. HandlesMatch'
  BY <1>1, <1>6 DEF HandlesMatch, EmptyExtent
<1> QED
  BY <1>3, <1>5, <1>6, <1>7, <1>8, <1>9, <1>10, <1>11 DEF BrushInv

LEMMA StepBrushEvent == ASSUME BrushInv, NEW eased \in BOOLEAN, BrushEvent(eased) PROVE BrushInv'
<1> DEFINE extent1 == [x |-> extent, i |-> domain]
           extent0 == IF chart = Unset THEN extent1 ELSE chart
           new == [stage |-> "pending", from |-> extent0, to |-> extent1, a |-> <<0, 0>>, b |-> <<0, 0>>, c |-> extent]
<1>1. /\ chart' = extent1 /\ glide' = (IF eased THEN new ELSE glide) /\ glide = Unset
      /\ UNCHANGED <<arrays, extent, domain, gesture, handles, open, cut, undrawn, meddled, stray, outrun>>
  BY DEF BrushEvent
<1>2. BrushTypes /\ BrushFlags /\ GlideKept /\ RangeInv /\ HeldInv /\ DomainInv /\ BrushEventsPaired /\ HandlesMatch
  BY DEF BrushInv
<1>3. extent1 \in Keeps /\ extent1.x = extent /\ extent1.i = domain
  BY <1>2 DEF BrushTypes, Keeps
<1>4. extent0 \in Keeps /\ (extent0.x = extent \/ (chart # Unset /\ extent0.x = chart.x))
  BY <1>2, <1>3 DEF BrushTypes
<1> HIDE DEF extent1
<1> HIDE DEF extent0
<1>5. /\ new \in Glides /\ new.stage = "pending" /\ new.from = extent0 /\ new.to = extent1
  BY <1>2, <1>3, <1>4 DEF BrushTypes, Glides
<1> HIDE DEF new
<1>6. new # Unset /\ extent1 # Unset
  BY <1>3, <1>5, BrushAssumption
<1>7. \/ glide' = Unset
      \/ /\ glide' # Unset /\ glide'.stage = "pending" /\ glide'.from = extent0
         /\ glide'.to = extent1 /\ glide' \in Glides
  BY <1>1, <1>5, <1>6
<1>8. BrushTypes'
  BY <1>1, <1>2, <1>3, <1>7 DEF BrushTypes
<1>9. BrushFlags'
  BY <1>1, <1>2 DEF BrushFlags
<1>10. GlideKept'
  BY <1>1, <1>6, <1>7 DEF GlideKept
<1>11. Ends' = Ends
  BY <1>1 DEF Ends
<1>12. RangeInv'
  <2> SUFFICES ASSUME ~meddled PROVE RangeInv'
    BY <1>1 DEF RangeInv
  <2>1. InRange(Ends) /\ (chart # Unset => InRange(arrays[chart.x]))
    BY <1>2 DEF RangeInv
  <2>2. InRange(arrays[extent1.x]) /\ InRange(arrays[extent0.x])
    BY <1>3, <1>4, <2>1 DEF Ends
  <2> QED
    BY <1>1, <1>7, <1>11, <2>1, <2>2 DEF RangeInv
<1>13. HeldInv'
  BY <1>1, <1>2, <1>11 DEF HeldInv
<1>14. DomainInv'
  <2> SUFFICES ASSUME ~outrun PROVE DomainInv'
    BY <1>1 DEF DomainInv
  <2>1. Means(domain, Ends)
    BY <1>2 DEF DomainInv
  <2>2. Means(extent1.i, arrays[extent1.x])
    BY <1>3, <2>1 DEF Ends
  <2> QED
    BY <1>1, <1>7, <1>11, <2>1, <2>2 DEF DomainInv
<1>15. BrushEventsPaired'
  BY <1>1, <1>2, <1>7 DEF BrushEventsPaired
<1>16. HandlesMatch'
  BY <1>1, <1>2, <1>11 DEF HandlesMatch, EmptyExtent
<1> QED
  BY <1>8, <1>9, <1>10, <1>12, <1>13, <1>14, <1>15, <1>16 DEF BrushInv

LEMMA StepGlideStart == ASSUME BrushInv, GlideStart PROVE BrushInv'
<1> DEFINE c == Fresh
<1>1. /\ glide # Unset /\ glide.stage = "pending"
      /\ extent' = glide.from.x /\ domain' = Unset
      /\ glide' = [glide EXCEPT !.stage = "running", !.a = arrays[glide.from.x], !.b = arrays[glide.to.x], !.c = c]
      /\ open' = open + 1 /\ undrawn' = TRUE /\ meddled' = (meddled \/ gesture # Unset)
      /\ UNCHANGED <<arrays, chart, gesture, handles, cut, stray, outrun>>
  BY DEF GlideStart
<1>2. BrushTypes /\ BrushFlags /\ GlideKept /\ RangeInv /\ HeldInv /\ DomainInv /\ BrushEventsPaired
  BY DEF BrushInv
<1>3. c \in References
  BY <1>2, FreshIs
<1> HIDE DEF c
<1>4. glide \in Glides
  BY <1>1, <1>2 DEF BrushTypes
<1>5. /\ glide.from \in Keeps /\ glide.to \in Keeps
      /\ glide.from.x \in References /\ glide.to.x \in References
  BY <1>4 DEF Glides, Keeps
<1>6. arrays[glide.from.x] \in Int \X Int /\ arrays[glide.to.x] \in Int \X Int
  BY <1>2, <1>5 DEF BrushTypes
<1>7. glide' = [stage |-> "running", from |-> glide.from, to |-> glide.to,
                a |-> arrays[glide.from.x], b |-> arrays[glide.to.x], c |-> c]
  BY <1>1, <1>4 DEF Glides
<1>8. glide' \in Glides
  BY <1>3, <1>5, <1>6, <1>7 DEF Glides
<1>9. /\ glide'.stage = "running" /\ glide'.from = glide.from /\ glide'.to = glide.to
      /\ glide'.a = arrays[glide.from.x] /\ glide'.b = arrays[glide.to.x]
  BY <1>7
<1>10. glide' # Unset
  BY <1>8, BrushAssumption
<1>11. BrushTypes'
  BY <1>1, <1>2, <1>5, <1>8 DEF BrushTypes
<1>a. meddled' \in BOOLEAN
  BY <1>1, <1>2 DEF BrushFlags
<1>12. BrushFlags'
  BY <1>1, <1>2, <1>a DEF BrushFlags
<1>13. GlideKept' /\ chart # Unset /\ chart.x = glide.to.x
  BY <1>1, <1>2, <1>9 DEF GlideKept
<1>14. Ends' = arrays[glide.from.x]
  BY <1>1 DEF Ends
<1>15. RangeInv'
  <2> SUFFICES ASSUME ~meddled PROVE RangeInv'
    BY <1>1 DEF RangeInv
  <2>1. InRange(arrays[chart.x]) /\ InRange(arrays[glide.from.x])
    BY <1>1, <1>2, <1>13 DEF RangeInv
  <2> QED
    BY <1>1, <1>9, <1>10, <1>13, <1>14, <2>1 DEF RangeInv
<1>16. HeldInv'
  BY <1>1 DEF HeldInv
<1>17. DomainInv'
  <2> SUFFICES ASSUME ~outrun PROVE DomainInv'
    BY <1>1 DEF DomainInv
  <2>1. Means(glide.to.i, arrays[glide.to.x])
    BY <1>1, <1>2 DEF DomainInv
  <2>2. Means(domain', Ends')
    BY <1>1 DEF Means
  <2> QED
    BY <1>1, <1>9, <2>1, <2>2 DEF DomainInv
<1>18. BrushEventsPaired'
  BY <1>1, <1>2, <1>9, <1>10 DEF BrushEventsPaired, BrushTypes
<1>19. HandlesMatch'
  BY <1>1 DEF HandlesMatch
<1> QED
  BY <1>11, <1>12, <1>13, <1>15, <1>16, <1>17, <1>18, <1>19 DEF BrushInv

(* Halfway between two extents of the range is one. *)
LEMMA Halfway ==
  ASSUME NEW a \in Int \X Int, NEW b \in Int \X Int, NEW h, h = [k \in 1..2 |-> (a[k] + b[k]) \div 2]
  PROVE  h \in Int \X Int /\ (InRange(a) /\ InRange(b) => InRange(h))
<1>1. a[1] \in Int /\ a[2] \in Int /\ b[1] \in Int /\ b[2] \in Int
  OBVIOUS
<1> DEFINE x == (a[1] + b[1]) \div 2
           y == (a[2] + b[2]) \div 2
<1>2. h = <<x, y>>
  OBVIOUS
<1>3. x \in Int /\ y \in Int
  BY <1>1
<1>4. InRange(a) /\ InRange(b) => 0 <= x /\ x <= y /\ y <= Length
  BY <1>1, BrushAssumption DEF InRange
<1> HIDE DEF x, y
<1> QED
  BY <1>2, <1>3, <1>4 DEF InRange

(* The transition fills its own array, which the extent becomes.            *)
LEMMA InterpolatedIs ==
  ASSUME BrushTypes, glide # Unset, chart # Unset, NEW e \in Int \X Int, Interpolated(e)
  PROVE  /\ arrays' \in [References -> Int \X Int] /\ extent' \in References /\ extent' = glide.c
         /\ Ends' = e /\ chart' \in Keeps /\ chart' # Unset /\ chart'.x = glide.c /\ arrays'[chart'.x] = e
<1>1. glide.c \in References
  BY DEF BrushTypes, Glides
<1>2. chart \in Keeps
  BY DEF BrushTypes
<1>3. arrays' = [arrays EXCEPT ![glide.c] = e] /\ extent' = glide.c /\ chart' = [chart EXCEPT !.x = glide.c]
  BY DEF Interpolated
<1>4. arrays' \in [References -> Int \X Int] /\ arrays'[glide.c] = e
  BY <1>1, <1>3 DEF BrushTypes
<1>5. chart' \in Keeps /\ chart'.x = glide.c
  BY <1>1, <1>2, <1>3 DEF Keeps
<1>6. chart' # Unset
  BY <1>5, BrushAssumption
<1> QED
  BY <1>1, <1>3, <1>4, <1>5, <1>6 DEF Ends

LEMMA StepGlideTick == ASSUME BrushInv, GlideTick PROVE BrushInv'
<1> DEFINE h == [k \in 1..2 |-> (glide.a[k] + glide.b[k]) \div 2]
<1>1. /\ glide # Unset /\ glide.stage = "running" /\ Interpolated(h)
      /\ glide' = [glide EXCEPT !.to.x = glide.c]
      /\ undrawn' = TRUE /\ meddled' = (meddled \/ gesture # Unset)
      /\ UNCHANGED <<domain, gesture, handles, open, cut, stray, outrun>>
  BY DEF GlideTick
<1>2. BrushTypes /\ BrushFlags /\ GlideKept /\ RangeInv /\ HeldInv /\ DomainInv /\ BrushEventsPaired
  BY DEF BrushInv
<1>3. glide \in Glides /\ chart # Unset
  BY <1>1, <1>2 DEF BrushTypes, GlideKept
<1>4. glide.a \in Int \X Int /\ glide.b \in Int \X Int /\ glide.to \in Keeps /\ glide.c \in References
  BY <1>3 DEF Glides
<1>5. h \in Int \X Int /\ (InRange(glide.a) /\ InRange(glide.b) => InRange(h))
  BY <1>4, Halfway
<1> HIDE DEF h
<1>6. /\ arrays' \in [References -> Int \X Int] /\ extent' \in References
      /\ Ends' = h /\ chart' \in Keeps /\ chart' # Unset /\ chart'.x = glide.c /\ arrays'[chart'.x] = h
  BY <1>1, <1>2, <1>3, <1>5, InterpolatedIs
<1> DEFINE to == [glide.to EXCEPT !.x = glide.c]
<1>7. to \in Keeps /\ to.x = glide.c /\ to.i = glide.to.i
  BY <1>4 DEF Keeps
<1>8. glide' = [glide EXCEPT !.to = to]
  BY <1>1, <1>3 DEF Glides
<1> HIDE DEF to
<1>9. glide' = [stage |-> "running", from |-> glide.from, to |-> to, a |-> glide.a, b |-> glide.b, c |-> glide.c]
  BY <1>1, <1>3, <1>8 DEF Glides
<1>10. glide' \in Glides
  BY <1>3, <1>4, <1>7, <1>9 DEF Glides
<1>11. glide'.stage = "running" /\ glide'.to = to /\ glide'.a = glide.a /\ glide'.b = glide.b /\ glide' # Unset
  BY <1>9, <1>10, BrushAssumption
<1>12. BrushTypes'
  BY <1>1, <1>2, <1>6, <1>10 DEF BrushTypes
<1>a. meddled' \in BOOLEAN
  BY <1>1, <1>2 DEF BrushFlags
<1>13. BrushFlags'
  BY <1>1, <1>2, <1>a DEF BrushFlags
<1>14. GlideKept'
  BY <1>6, <1>7, <1>11 DEF GlideKept
<1>15. RangeInv'
  <2> SUFFICES ASSUME ~meddled PROVE RangeInv'
    BY <1>1 DEF RangeInv
  <2>1. InRange(glide.a) /\ InRange(glide.b)
    BY <1>1, <1>2 DEF RangeInv
  <2> QED
    BY <1>5, <1>6, <1>11, <2>1 DEF RangeInv
<1>16. HeldInv'
  BY <1>1 DEF HeldInv
<1>17. DomainInv'
  <2> SUFFICES ASSUME ~outrun PROVE DomainInv'
    BY <1>1 DEF DomainInv
  <2>1. domain = Unset /\ Means(glide.to.i, glide.b)
    BY <1>1, <1>2 DEF DomainInv
  <2>2. Means(domain', Ends')
    BY <1>1, <2>1 DEF Means
  <2> QED
    BY <1>1, <1>7, <1>11, <2>1, <2>2 DEF DomainInv
<1>18. BrushEventsPaired'
  BY <1>1, <1>2, <1>11 DEF BrushEventsPaired
<1>19. HandlesMatch'
  BY <1>1 DEF HandlesMatch
<1> QED
  BY <1>12, <1>13, <1>14, <1>15, <1>16, <1>17, <1>18, <1>19 DEF BrushInv

LEMMA StepGlideEnd == ASSUME BrushInv, GlideEnd PROVE BrushInv'
<1>1. /\ glide # Unset /\ glide.stage = "running" /\ Interpolated(glide.b) /\ domain' = glide.to.i
      /\ glide' = Unset /\ open' = open - 1
      /\ undrawn' = TRUE /\ meddled' = (meddled \/ gesture # Unset)
      /\ UNCHANGED <<gesture, handles, cut, stray, outrun>>
  BY DEF GlideEnd
<1>2. BrushTypes /\ BrushFlags /\ GlideKept /\ RangeInv /\ HeldInv /\ DomainInv /\ BrushEventsPaired
  BY DEF BrushInv
<1>3. glide \in Glides /\ chart # Unset
  BY <1>1, <1>2 DEF BrushTypes, GlideKept
<1>4. glide.b \in Int \X Int /\ glide.to.i \in Domains \cup {Unset}
  BY <1>3 DEF Glides, Keeps
<1>6. /\ arrays' \in [References -> Int \X Int] /\ extent' \in References
      /\ Ends' = glide.b /\ chart' \in Keeps /\ arrays'[chart'.x] = glide.b
  BY <1>1, <1>2, <1>3, <1>4, InterpolatedIs
<1>7. BrushTypes'
  BY <1>1, <1>2, <1>4, <1>6 DEF BrushTypes
<1>a. meddled' \in BOOLEAN
  BY <1>1, <1>2 DEF BrushFlags
<1>8. BrushFlags'
  BY <1>1, <1>2, <1>a DEF BrushFlags
<1>9. GlideKept'
  BY <1>1 DEF GlideKept
<1>10. RangeInv'
  <2> SUFFICES ASSUME ~meddled PROVE RangeInv'
    BY <1>1 DEF RangeInv
  <2>1. InRange(glide.b)
    BY <1>1, <1>2 DEF RangeInv
  <2> QED
    BY <1>1, <1>6, <2>1 DEF RangeInv
<1>11. HeldInv'
  BY <1>1 DEF HeldInv
<1>12. DomainInv'
  <2> SUFFICES ASSUME ~outrun PROVE DomainInv'
    BY <1>1 DEF DomainInv
  <2>1. Means(glide.to.i, glide.b)
    BY <1>1, <1>2 DEF DomainInv
  <2> QED
    BY <1>1, <1>6, <2>1 DEF DomainInv
<1>13. BrushEventsPaired'
  BY <1>1, <1>2 DEF BrushEventsPaired, BrushTypes
<1>14. HandlesMatch'
  BY <1>1 DEF HandlesMatch
<1> QED
  BY <1>7, <1>8, <1>9, <1>10, <1>11, <1>12, <1>13, <1>14 DEF BrushInv

LEMMA BrushStarts == BrushInit => BrushInv
<1> SUFFICES ASSUME BrushInit PROVE BrushInv
  OBVIOUS
<1> USE DEF BrushInit
<1>1. <<0, 0>> \in Int \X Int /\ InRange(<<0, 0>>)
  BY BrushAssumption DEF InRange
<1>2. 1 \in References /\ arrays[1] = <<0, 0>> /\ Ends = <<0, 0>>
  BY DEF References, Ends
<1>3. BrushTypes
  BY <1>1, <1>2 DEF BrushTypes
<1>4. BrushFlags
  BY DEF BrushFlags
<1>5. GlideKept /\ HeldInv
  BY DEF GlideKept, HeldInv
<1>6. RangeInv
  BY <1>1, <1>2 DEF RangeInv
<1>7. DomainInv
  BY DEF DomainInv, Means
<1>8. BrushEventsPaired
  BY DEF BrushEventsPaired
<1>9. Ends[1] = Ends[2]
  BY <1>2
<1>10. HandlesMatch
  BY <1>9 DEF HandlesMatch, EmptyExtent
<1> QED
  BY <1>3, <1>4, <1>5, <1>6, <1>7, <1>8, <1>10 DEF BrushInv

LEMMA BrushFollows == BrushInv /\ [BrushNext]_brushVars => BrushInv'
<1> SUFFICES ASSUME BrushInv, [BrushNext]_brushVars PROVE BrushInv'
  OBVIOUS
<1> USE BrushAssumption
<1>1. ASSUME NEW part \in {"background", "extent", "e", "w"}, NEW p \in Stops, NEW alt \in BOOLEAN, BrushStart(part, p, alt)
      PROVE BrushInv'
  BY <1>1, StepBrushStart
<1>2. ASSUME NEW p \in Stops, NEW alt \in BOOLEAN, Move(p, alt) PROVE BrushInv'
  BY <1>2, StepMove
<1>3. ASSUME NEW p \in Stops, NEW alt \in BOOLEAN, BrushEnd(p, alt) PROVE BrushInv'
  BY <1>3, StepBrushEnd
<1>4. ASSUME NEW z \in Domains, SetExtent(z) PROVE BrushInv'
  BY <1>4, StepSetExtent
<1>5. ASSUME NEW eased \in BOOLEAN, BrushEvent(eased) PROVE BrushInv'
  BY <1>5, StepBrushEvent
<1>6. CASE UNCHANGED brushVars
  <2>1. Ends' = Ends
    BY <1>6 DEF brushVars, Ends
  <2> QED
    BY <1>6, <2>1 DEF brushVars, BrushInv, BrushTypes, BrushFlags, GlideKept, RangeInv, HeldInv, DomainInv,
                      BrushEventsPaired, HandlesMatch, EmptyExtent
<1> QED
  BY <1>1, <1>2, <1>3, <1>4, <1>5, <1>6, StepSpaceDown, StepSpaceUp, StepClearBrush, StepRedrawBrush,
     StepGlideStart, StepGlideTick, StepGlideEnd DEF BrushNext

LEMMA BrushIsKept == BrushInv => BrushKeepsExtent
<1> SUFFICES ASSUME BrushInv PROVE BrushKeepsExtent
  OBVIOUS
<1>1. BrushTypes /\ RangeInv /\ HeldInv /\ DomainInv /\ BrushEventsPaired /\ HandlesMatch
  BY DEF BrushInv
<1>2. ExtentInRange
  BY <1>1 DEF ExtentInRange, RangeInv, InRange
<1>3. OtherEndStays
  <2> SUFFICES ASSUME gesture # Unset, ~stray, ~meddled
               PROVE  CASE gesture.dragging = 0 -> gesture.origin \in {Ends[1], Ends[2]}
                        [] gesture.dragging = 2 -> gesture.origin \in {0, Ends[1] - Ends[2]}
                        [] gesture.dragging = 1 -> TRUE
    BY DEF OtherEndStays
  <2>1. Holds(gesture, stray, Ends)
    BY <1>1 DEF HeldInv
  <2>2. gesture.dragging \in 0 .. 2
    BY <1>1 DEF BrushTypes, Grips
  <2>3. gesture.dragging = 0 \/ gesture.dragging = 1 \/ gesture.dragging = 2
    BY <2>2
  <2> QED
    BY <2>1, <2>3 DEF Holds
<1>4. DomainIsOfExtent
  BY <1>1 DEF DomainIsOfExtent, DomainInv, Means
<1> QED
  BY <1>1, <1>2, <1>3, <1>4 DEF BrushKeepsExtent

-----------------------------------------------------------------------------
(* The force layout and the drags of its nodes. *)
ForceTypes ==
  /\ fixed \in [Bodies -> SUBSET {"drag", "over"}]
  /\ alpha \in Nat /\ ticking \in Nat /\ begun \in Nat /\ stops \in Nat
  /\ on \in Bodies \cup {NoBody} /\ down \subseteq Touches
  /\ \A d \in drags : d.node \in Bodies /\ d.name \in {Mouse} \cup Touches /\ d.at \in Nat

(* A cold layout has one place less in the queue than a hot one may have.   *)
TicksInv == TicksOnce /\ (alpha = 0 => ticking <= stops)

(* As long as no two drags were under way at once, the one that is has the  *)
(* style with which text can be selected, to put back.                      *)
SelectInv ==
  ~mixed => \/ drags = {} /\ select = TRUE
            \/ \E d \in drags : drags = {d} /\ d.select = TRUE /\ select = FALSE

ForceInv == ForceTypes /\ TicksInv /\ DragsHold /\ SelectInv

LEMMA StepResume ==
  ASSUME ForceInv, Resume, UNCHANGED <<fixed, on, down, stops, dragState>>
  PROVE  ForceInv'
<1> USE DragAssumption
<1>1. ForceTypes /\ TicksInv /\ DragsHold /\ SelectInv
  BY DEF ForceInv
<1>2. ForceTypes'
  BY <1>1 DEF ForceTypes, Resume, dragState
<1>3. TicksInv'
  BY <1>1 DEF ForceTypes, TicksInv, TicksOnce, Resume
<1>4. DragsHold'
  BY <1>1 DEF DragsHold, dragState
<1>5. SelectInv'
  BY <1>1 DEF SelectInv, dragState
<1> QED
  BY <1>2, <1>3, <1>4, <1>5 DEF ForceInv

LEMMA StepStopForce == ASSUME ForceInv, StopForce PROVE ForceInv'
<1>1. ForceTypes /\ TicksInv /\ DragsHold /\ SelectInv
  BY DEF ForceInv
<1>2. ForceTypes'
  BY <1>1 DEF ForceTypes, StopForce, dragState
<1>3. TicksInv'
  BY <1>1 DEF ForceTypes, TicksInv, TicksOnce, StopForce
<1>4. DragsHold'
  BY <1>1 DEF DragsHold, StopForce, dragState
<1>5. SelectInv'
  BY <1>1 DEF SelectInv, StopForce, dragState
<1> QED
  BY <1>2, <1>3, <1>4, <1>5 DEF ForceInv

LEMMA StepTick == ASSUME ForceInv, Tick PROVE ForceInv'
<1> DEFINE hot == IF alpha > ticking THEN ticking ELSE IF alpha = 0 THEN 0 ELSE alpha - 1
<1>1. ForceTypes /\ TicksInv /\ DragsHold /\ SelectInv
  BY DEF ForceInv
<1>2. /\ ticking > 0 /\ alpha' = (IF hot = ticking THEN alpha - ticking ELSE 0)
      /\ ticking' = hot /\ running' = running - (ticking - hot)
      /\ UNCHANGED <<fixed, on, down, begun, stops, drags, select, mixed, forsaken, parted>>
  BY DEF Tick, dragState
<1>3. alpha \in Nat /\ ticking \in Nat /\ stops \in Nat /\ running = ticking
  BY <1>1 DEF ForceTypes, TicksInv, TicksOnce
<1>4. hot \in Nat /\ hot <= ticking /\ (hot = ticking => alpha > ticking) /\ (hot # ticking => hot < ticking)
  BY <1>2, <1>3
<1> HIDE DEF hot
<1>5. ForceTypes'
  BY <1>1, <1>2, <1>3, <1>4 DEF ForceTypes
<1>6. TicksInv'
  BY <1>1, <1>2, <1>3, <1>4 DEF TicksInv, TicksOnce
<1>7. DragsHold'
  BY <1>1, <1>2 DEF DragsHold
<1>8. SelectInv'
  BY <1>1, <1>2 DEF SelectInv
<1> QED
  BY <1>5, <1>6, <1>7, <1>8 DEF ForceInv

LEMMA StepDragStart ==
  ASSUME ForceInv, NEW name \in {Mouse} \cup Touches, NEW n \in Bodies, DragStart(name, n),
         down \subseteq down', down' \subseteq Touches, name = Mouse \/ name \in down', on' = on
  PROVE  ForceInv'
<1> DEFINE new == [name |-> name, node |-> n, select |-> select, at |-> begun]
<1>1. ForceTypes /\ TicksInv /\ DragsHold /\ SelectInv
  BY DEF ForceInv
<1>2. /\ drags' = (drags \ Hearing({name})) \cup {new} /\ select' = FALSE
      /\ fixed' = [fixed EXCEPT ![n] = @ \cup {"drag"}]
      /\ forsaken' = forsaken \cup {d.node : d \in Hearing({name})}
      /\ mixed' = (mixed \/ drags # {})
      /\ begun' = begun + 1 /\ UNCHANGED <<parted, stops, alpha, ticking, running>>
  BY DEF DragStart, layoutState
<1>3. new.name = name /\ new.node = n /\ new.select = select /\ new.at = begun
  OBVIOUS
<1> HIDE DEF new
<1>4. \A d \in drags' : d \in drags \/ d = new
  BY <1>2
<1>5. \A d \in drags : d \in drags' \/ d.node \in forsaken'
  BY <1>2
<1>6. new \in drags' /\ forsaken \subseteq forsaken'
  BY <1>2
<1>7. /\ fixed' \in [Bodies -> SUBSET {"drag", "over"}] /\ "drag" \in fixed'[n]
      /\ \A m \in Bodies : m # n => fixed'[m] = fixed[m]
      /\ \A m \in Bodies : "over" \in fixed'[m] => "over" \in fixed[m]
  BY <1>1, <1>2 DEF ForceTypes
<1>8. ForceTypes'
  BY <1>1, <1>2, <1>3, <1>4, <1>7 DEF ForceTypes
<1>9. TicksInv'
  BY <1>1, <1>2 DEF TicksInv, TicksOnce
<1>10. DragsHold'
  <2>1. ASSUME NEW m \in Bodies, "drag" \in fixed'[m] PROVE m \in forsaken' \/ \E d \in drags' : d.node = m
    <3>1. CASE m = n
      BY <1>3, <1>6, <3>1
    <3>2. CASE m # n
      <4>1. m \in forsaken \/ \E d \in drags : d.node = m
        BY <1>1, <1>7, <2>1, <3>2 DEF DragsHold
      <4> QED
        BY <4>1, <1>5, <1>6
    <3> QED
      BY <3>1, <3>2
  <2>2. ASSUME NEW m \in Bodies, \E d \in drags' : d.node = m PROVE "drag" \in fixed'[m] \/ m \in parted'
    <3>1. CASE m = n
      BY <1>7, <3>1
    <3>2. CASE m # n
      <4>1. \E d \in drags : d.node = m
        BY <1>3, <1>4, <2>2, <3>2
      <4> QED
        BY <1>1, <1>2, <1>7, <3>2, <4>1 DEF DragsHold
    <3> QED
      BY <3>1, <3>2
  <2>3. ASSUME NEW m \in Bodies, "over" \in fixed'[m] PROVE on' = m
    BY <1>1, <1>7, <2>3 DEF DragsHold
  <2>4. \A d \in drags' : d.name = Mouse \/ d.name \in down'
    BY <1>1, <1>3, <1>4 DEF DragsHold
  <2> QED
    BY <2>1, <2>2, <2>3, <2>4 DEF DragsHold
<1>11. SelectInv'
  <2> SUFFICES ASSUME ~mixed' PROVE SelectInv'
    BY DEF SelectInv
  <2>1. drags = {} /\ ~mixed
    BY <1>2
  <2>2. select = TRUE
    BY <1>1, <2>1 DEF SelectInv
  <2>3. drags' = {new}
    BY <1>2, <2>1 DEF Hearing
  <2> QED
    BY <1>2, <1>3, <2>2, <2>3 DEF SelectInv
<1> QED
  BY <1>8, <1>9, <1>10, <1>11 DEF ForceInv

LEMMA StepDragsEnd ==
  ASSUME ForceInv, NEW names, DragsEnd(names),
         down' \subseteq down, names = {Mouse} \/ names = Touches, down' = down \/ names = Touches, on' = on
  PROVE  ForceInv'
<1> DEFINE ending == Hearing(names)
           freed == {d.node : d \in ending}
<1>1. ForceTypes /\ TicksInv /\ DragsHold /\ SelectInv
  BY DEF ForceInv
<1>2. /\ drags' = drags \ ending
      /\ select' = IF ending = {} THEN select
                   ELSE (CHOOSE d \in ending : \A other \in ending : other.at <= d.at).select
      /\ fixed' = [n \in Bodies |-> IF n \in freed THEN fixed[n] \ {"drag", "over"} ELSE fixed[n]]
      /\ parted' = parted \cup (freed \cap {d.node : d \in drags'})
      /\ UNCHANGED <<forsaken, mixed, begun, stops, alpha, ticking, running>>
  BY DEF DragsEnd, layoutState
<1>3. \A d \in drags : d \in ending <=> d.name \in names
  BY DEF Hearing
<1>4. ending \subseteq drags /\ \A d \in ending : d.node \in freed
  BY DEF Hearing
<1>a. \A n \in freed : \E d \in ending : d.node = n
  OBVIOUS
<1>b. \A d \in drags' : d.node \in freed => d.node \in parted'
  BY <1>2
<1> HIDE DEF ending, freed
<1>5. /\ fixed' \in [Bodies -> SUBSET {"drag", "over"}]
      /\ \A n \in Bodies : n \in freed => "drag" \notin fixed'[n] /\ "over" \notin fixed'[n]
      /\ \A n \in Bodies : n \notin freed => fixed'[n] = fixed[n]
  BY <1>1, <1>2 DEF ForceTypes
<1>6. ForceTypes'
  BY <1>1, <1>2, <1>5 DEF ForceTypes
<1>7. TicksInv'
  BY <1>1, <1>2 DEF TicksInv, TicksOnce
<1>8. DragsHold'
  <2>1. ASSUME NEW m \in Bodies, "drag" \in fixed'[m] PROVE m \in forsaken' \/ \E d \in drags' : d.node = m
    <3>1. m \notin freed /\ "drag" \in fixed[m]
      BY <1>5, <2>1
    <3>2. m \in forsaken \/ \E d \in drags : d.node = m
      BY <1>1, <3>1 DEF DragsHold
    <3> QED
      BY <1>2, <1>4, <3>1, <3>2
  <2>2. ASSUME NEW m \in Bodies, NEW d \in drags', d.node = m PROVE "drag" \in fixed'[m] \/ m \in parted'
    <3>1. CASE m \in freed
      BY <1>b, <2>2, <3>1
    <3>2. CASE m \notin freed
      <4>1. "drag" \in fixed[m] \/ m \in parted
        BY <1>1, <1>2, <2>2 DEF DragsHold
      <4> QED
        BY <1>2, <1>5, <3>2, <4>1
    <3> QED
      BY <3>1, <3>2
  <2>3. ASSUME NEW m \in Bodies, "over" \in fixed'[m] PROVE on' = m
    BY <1>1, <1>5, <2>3 DEF DragsHold
  <2>4. \A d \in drags' : d.name = Mouse \/ d.name \in down'
    <3> SUFFICES ASSUME NEW d \in drags' PROVE d.name = Mouse \/ d.name \in down'
      OBVIOUS
    <3>1. d \in drags /\ d.name \notin names /\ d.name \in {Mouse} \cup Touches
      BY <1>1, <1>2, <1>3 DEF ForceTypes
    <3>2. d.name = Mouse \/ d.name \in down
      BY <1>1, <3>1 DEF DragsHold
    <3> QED
      BY <3>1, <3>2
  <2> QED
    BY <2>1, <2>2, <2>3, <2>4 DEF DragsHold
<1>9. SelectInv'
  <2> SUFFICES ASSUME ~mixed PROVE SelectInv'
    BY <1>2 DEF SelectInv
  <2>1. CASE ending = {}
    <3>1. drags' = drags /\ select' = select
      BY <1>2, <2>1
    <3> QED
      BY <1>1, <3>1 DEF SelectInv
  <2>2. CASE ending # {}
    <3>1. PICK d \in drags : drags = {d} /\ d.select = TRUE
      BY <1>1, <1>4, <2>2 DEF SelectInv
    <3>2. ending = {d} /\ drags' = {}
      BY <1>2, <1>4, <2>2, <3>1
    <3>3. (CHOOSE x \in ending : \A other \in ending : other.at <= x.at) = d
      <4>1. d.at \in Nat
        BY <1>1 DEF ForceTypes
      <4>2. \A other \in ending : other.at <= d.at
        BY <3>2, <4>1
      <4> QED
        BY <3>2, <4>2
    <3>4. select' = TRUE
      BY <1>2, <2>2, <3>1, <3>3
    <3> QED
      BY <3>2, <3>4 DEF SelectInv
  <2> QED
    BY <2>1, <2>2
<1> QED
  BY <1>6, <1>7, <1>8, <1>9 DEF ForceInv

LEMMA StepMouse ==
  ASSUME ForceInv, MouseOut \/ \E n \in Bodies : MouseOver(n)
  PROVE  ForceInv'
<1>1. ForceTypes /\ TicksInv /\ DragsHold /\ SelectInv
  BY DEF ForceInv
<1>2. UNCHANGED <<down, stops, alpha, ticking, running, drags, select, begun, forsaken, parted, mixed>>
  BY DEF MouseOut, MouseOver, layoutState, dragState
<1>3. /\ fixed' \in [Bodies -> SUBSET {"drag", "over"}] /\ on' \in Bodies \cup {NoBody}
      /\ \A m \in Bodies : "drag" \in fixed'[m] <=> "drag" \in fixed[m]
      /\ \A m \in Bodies : "over" \in fixed'[m] => on' = m
  <2>1. CASE MouseOut
    <3>1. on \in Bodies /\ on' = NoBody /\ fixed' = [fixed EXCEPT ![on] = @ \ {"over"}]
      BY <1>1, <2>1 DEF MouseOut, ForceTypes
    <3>2. \A m \in Bodies : "over" \in fixed[m] => on = m
      BY <1>1 DEF DragsHold
    <3>3. fixed' \in [Bodies -> SUBSET {"drag", "over"}]
      BY <1>1, <3>1 DEF ForceTypes
    <3>4. \A m \in Bodies : fixed'[m] = IF m = on THEN fixed[m] \ {"over"} ELSE fixed[m]
      BY <1>1, <3>1 DEF ForceTypes
    <3> QED
      BY <3>1, <3>2, <3>3, <3>4
  <2>2. ASSUME NEW n \in Bodies, MouseOver(n)
        PROVE  /\ fixed' \in [Bodies -> SUBSET {"drag", "over"}] /\ on' \in Bodies \cup {NoBody}
               /\ \A m \in Bodies : "drag" \in fixed'[m] <=> "drag" \in fixed[m]
               /\ \A m \in Bodies : "over" \in fixed'[m] => on' = m
    <3>1. on = NoBody /\ on' = n /\ fixed' = [fixed EXCEPT ![n] = @ \cup {"over"}]
      BY <2>2 DEF MouseOver
    <3>2. \A m \in Bodies : "over" \notin fixed[m]
      BY <1>1, <3>1, DragAssumption DEF DragsHold
    <3>3. fixed' \in [Bodies -> SUBSET {"drag", "over"}]
      BY <1>1, <3>1 DEF ForceTypes
    <3>4. \A m \in Bodies : fixed'[m] = IF m = n THEN fixed[m] \cup {"over"} ELSE fixed[m]
      BY <1>1, <3>1 DEF ForceTypes
    <3> QED
      BY <3>1, <3>2, <3>3, <3>4
  <2> QED
    BY <2>1, <2>2
<1>4. ForceTypes'
  BY <1>1, <1>2, <1>3 DEF ForceTypes
<1>5. TicksInv'
  BY <1>1, <1>2 DEF TicksInv, TicksOnce
<1>6. DragsHold'
  BY <1>1, <1>2, <1>3 DEF DragsHold
<1>7. SelectInv'
  BY <1>1, <1>2 DEF SelectInv
<1> QED
  BY <1>4, <1>5, <1>6, <1>7 DEF ForceInv

LEMMA StepFingers ==
  ASSUME ForceInv, NEW f \in Touches, TouchBeside(f) \/ TouchEnd(f) \/ \E n \in Bodies : TouchStart(f, n)
  PROVE  ForceInv'
<1>1. CASE TouchBeside(f)
  <2>1. ForceTypes /\ TicksInv /\ DragsHold /\ SelectInv
    BY DEF ForceInv
  <2>2. /\ down' = down \cup {f}
        /\ UNCHANGED <<fixed, on, stops, alpha, ticking, running, drags, select, begun, forsaken, parted, mixed>>
    BY <1>1 DEF TouchBeside, layoutState, dragState
  <2>3. ForceTypes'
    BY <2>1, <2>2 DEF ForceTypes
  <2>4. TicksInv'
    BY <2>1, <2>2 DEF TicksInv, TicksOnce
  <2>5. DragsHold'
    BY <2>1, <2>2 DEF DragsHold
  <2>6. SelectInv'
    BY <2>1, <2>2 DEF SelectInv
  <2> QED
    BY <2>3, <2>4, <2>5, <2>6 DEF ForceInv
<1>2. CASE TouchEnd(f)
  <2>1. DragsEnd(Touches) /\ down' \subseteq down /\ on' = on
    BY <1>2 DEF TouchEnd
  <2> QED
    BY <2>1, StepDragsEnd
<1>3. ASSUME NEW n \in Bodies, TouchStart(f, n) PROVE ForceInv'
  <2>1. DragStart(f, n) /\ down' = down \cup {f} /\ on' = on
    BY <1>3 DEF TouchStart
  <2>2. down \subseteq Touches
    BY DEF ForceInv, ForceTypes
  <2>3. down \subseteq down' /\ down' \subseteq Touches /\ f \in down'
    BY <2>1, <2>2
  <2> QED
    BY <2>1, <2>3, StepDragStart
<1> QED
  BY <1>1, <1>2, <1>3

LEMMA ForceStarts == ForceInit => ForceInv
<1> SUFFICES ASSUME ForceInit PROVE ForceInv
  OBVIOUS
<1> USE DragAssumption DEF ForceInit
<1>1. ForceTypes
  BY DEF ForceTypes
<1>2. TicksInv
  BY DEF TicksInv, TicksOnce
<1>3. DragsHold
  BY DEF DragsHold
<1>4. SelectInv
  BY DEF SelectInv
<1> QED
  BY <1>1, <1>2, <1>3, <1>4 DEF ForceInv

LEMMA ForceFollows == ForceInv /\ [ForceNext]_forceVars => ForceInv'
<1> SUFFICES ASSUME ForceInv, [ForceNext]_forceVars PROVE ForceInv'
  OBVIOUS
<1>1. CASE alpha < Heat /\ Resume /\ UNCHANGED <<fixed, on, down, stops, dragState>>
  BY <1>1, StepResume
<1>2. CASE DragMove({Mouse}) \/ DragMove(Touches)
  BY <1>2, StepResume DEF DragMove
<1>3. CASE MouseDown
  <2>1. on \in Bodies /\ down \subseteq Touches
    BY <1>3 DEF MouseDown, ForceInv, ForceTypes
  <2>2. DragStart(Mouse, on) /\ down' = down /\ on' = on
    BY <1>3 DEF MouseDown
  <2> QED
    BY <2>1, <2>2, StepDragStart
<1>4. CASE DragMouseUp
  <2>1. DragsEnd({Mouse}) /\ down' = down /\ on' = on
    BY <1>4 DEF DragMouseUp
  <2> QED
    BY <2>1, StepDragsEnd
<1>5. CASE UNCHANGED forceVars
  BY <1>5 DEF forceVars, ForceInv, ForceTypes, TicksInv, TicksOnce, DragsHold, SelectInv
<1> QED
  BY <1>1, <1>2, <1>3, <1>4, <1>5, StepStopForce, StepTick, StepMouse, StepFingers DEF ForceNext

(* Whatever hands and programs do, what a drag of a node and what the brush *)
(* hold stays in their hands: the extent keeps to its range and its end     *)
(* where it is not held, numbers that were given are those of the extent,   *)
(* a dragged node is held and let go of, the layout is in the timers' queue *)
(* as long as it is hot, and text can be selected again.                    *)
THEOREM DragsHoldTheirOwn == BrushSpec /\ ForceSpec => []GesturesRight
<1>1. BrushInit => BrushInv
  BY BrushStarts
<1>2. BrushInv /\ [BrushNext]_brushVars => BrushInv'
  BY BrushFollows
<1>3. ForceInit => ForceInv
  BY ForceStarts
<1>4. ForceInv /\ [ForceNext]_forceVars => ForceInv'
  BY ForceFollows
<1>5. BrushInv => BrushKeepsExtent
  BY BrushIsKept
<1>6. ForceInv => ForceHolds
  <2> SUFFICES ASSUME ForceInv PROVE ForceHolds
    OBVIOUS
  <2>1. SelectionReturns
    <3> SUFFICES ASSUME ~mixed PROVE select = (drags = {})
      BY DEF SelectionReturns
    <3>1. \/ drags = {} /\ select = TRUE
          \/ drags # {} /\ select = FALSE
      BY DEF ForceInv, SelectInv
    <3> QED
      BY <3>1
  <2> QED
    BY <2>1 DEF ForceInv, TicksInv, ForceHolds
<1>7. BrushKeepsExtent /\ ForceHolds => GesturesRight
  BY DEF GesturesRight
<1> QED
  BY <1>1, <1>2, <1>3, <1>4, <1>5, <1>6, <1>7, PTL DEF BrushSpec, ForceSpec
================================================================================
