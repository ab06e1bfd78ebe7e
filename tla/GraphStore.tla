------------------------------ MODULE GraphStore ------------------------------
(***************************************************************************)
(* graphlib's graph objects: BaseGraph's nodes and edges, the index of     *)
(* edges by their ends that Digraph keeps twice and Graph once, and the    *)
(* hierarchy of nodes that compoundify adds.  An operation that throws     *)
(* before it changed anything is not a step; one that throws halfway       *)
(* leaves `broken` set, and the object is not used any further.            *)
(***************************************************************************)
EXTENDS Integers, FiniteSets

CONSTANTS
  Names,      \* ids that callers choose
  MaxId,      \* bound: the ids "_1" .. "_MaxId" that the object draws
  Root,       \* null, the parent of the nodes at the top
  NoEdge

Drawn   == 1 .. MaxId
AllIds  == Names \cup Drawn
Parents == AllIds \cup {Root}

ASSUME StoreAssumption ==
  /\ MaxId \in Nat
  /\ Names \cap Int = {} /\ Root \notin AllIds
  /\ NoEdge \notin AllIds \X AllIds

VARIABLES
  directed,  \* CDigraph or CGraph
  nodes,     \* _nodes
  ends,      \* _edges: <<u, v>> by id, or NoEdge
  into,      \* _inEdges[v][u], or _incidentEdges: sets of edges, {} if absent
  outof,     \* _outEdges[u][v]; not used by a Graph
  nextId,
  parents, children,
  broken     \* history: an operation threw halfway

storeVars == <<directed, nodes, ends, into, outof, nextId, parents, children, broken>>

Edges == {e \in AllIds : ends[e] # NoEdge}
IncidentTo(u) == {e \in Edges : u \in {ends[e][1], ends[e][2]}}
Loops(u) == {e \in Edges : ends[e] = <<u, u>>}
NoIndex == [u \in AllIds |-> [v \in AllIds |-> {}]]

StoreInit ==
  /\ directed \in BOOLEAN
  /\ nodes = {} /\ ends = [e \in AllIds |-> NoEdge]
  /\ into = NoIndex /\ outof = NoIndex
  /\ nextId = 0 /\ broken = FALSE
  /\ parents = [u \in AllIds |-> Root]
  /\ children = [u \in Parents |-> {}]
-----------------------------------------------------------------------------
(* the id a do-while loop over _nextId ends with, the used ones being taken *)
FreshId(n, used) ==
  /\ n > nextId /\ n \notin used
  /\ \A m \in (nextId + 1) .. (n - 1) : m \in used

PutNode(u) ==
  /\ ~broken
  /\ nodes' = nodes \cup {u}
  /\ parents' = [parents EXCEPT ![u] = Root]
  /\ children' = [children EXCEPT ![u] = {}, ![Root] = @ \cup {u}]
  /\ UNCHANGED <<directed, ends, into, outof, broken>>

AddNode(u) == u \notin nodes /\ PutNode(u) /\ UNCHANGED nextId
AddNewNode == \E n \in Drawn : FreshId(n, nodes) /\ PutNode(n) /\ nextId' = n

(* the cells [v][u] and [u][v] of a Graph's one map, one cell of each of a  *)
(* Digraph's two                                                            *)
PutEdge(e, u, v) ==
  /\ ~broken
  /\ {u, v} \subseteq nodes
  /\ ends' = [ends EXCEPT ![e] = <<u, v>>]
  /\ into' = [x \in AllIds |-> [y \in AllIds |->
                IF <<y, x>> = <<u, v>> \/ (~directed /\ <<x, y>> = <<u, v>>)
                  THEN into[x][y] \cup {e} ELSE into[x][y]]]
  /\ outof' = [x \in AllIds |-> [y \in AllIds |->
                IF directed /\ <<x, y>> = <<u, v>> THEN outof[x][y] \cup {e} ELSE outof[x][y]]]
  /\ UNCHANGED <<directed, nodes, parents, children, broken>>

StoreEdge(e, u, v) == e \notin Edges /\ PutEdge(e, u, v) /\ UNCHANGED nextId
AddNewEdge(u, v) == \E n \in Drawn : FreshId(n, Edges) /\ PutEdge(n, u, v) /\ nextId' = n

Without(map, es) == [x \in AllIds |-> [y \in AllIds |-> map[x][y] \ es]]

(* _delEdge of a Graph's only loop at a node: the first delEdgeFromMap takes *)
(* the emptied cell out, the second finds none and throws.                  *)
OnlyLoop(e) == ~directed /\ \E u \in AllIds : Loops(u) = {e}

DropEdge(e) ==
  /\ ~broken /\ e \in Edges
  /\ into' = Without(into, {e}) /\ outof' = Without(outof, {e})
  /\ IF OnlyLoop(e) THEN broken' = TRUE /\ UNCHANGED ends
                    ELSE ends' = [ends EXCEPT ![e] = NoEdge] /\ UNCHANGED broken
  /\ UNCHANGED <<directed, nodes, nextId, parents, children>>

\* Mutant: the old parent keeps the node among its children.
SetParentOnly(u, p) ==
  /\ ~broken /\ u \in nodes /\ p \in nodes \cup {Root} /\ p # u
  /\ parents' = [parents EXCEPT ![u] = p]
  /\ children' = [children EXCEPT ![p] = @ \cup {u}]
  /\ UNCHANGED <<directed, nodes, ends, into, outof, nextId, broken>>

SetParent(u, p) ==
  /\ ~broken /\ u \in nodes /\ p \in nodes \cup {Root} /\ p # u
  /\ parents' = [parents EXCEPT ![u] = p]
  /\ children' = [q \in Parents |-> (children[q] \ {u}) \cup (IF q = p THEN {u} ELSE {})]
  /\ UNCHANGED <<directed, nodes, ends, into, outof, nextId, broken>>

(* delNode where u's parent is one of its children: handing the children on *)
(* ends when it comes to make the parent a parent of itself.                *)
DelNodeInCycle(u, handed) ==
  /\ ~broken /\ u \in nodes /\ parents[u] \in children[u]
  /\ handed \subseteq children[u] \ {parents[u]}
  /\ parents' = [x \in AllIds |-> IF x \in handed THEN parents[u] ELSE parents[x]]
  /\ children' = [children EXCEPT ![u] = @ \ handed, ![parents[u]] = @ \cup handed]
  /\ broken' = TRUE
  /\ UNCHANGED <<directed, nodes, ends, into, outof, nextId>>

(* delNode otherwise: the edges go one by one; the last loop at a Graph's   *)
(* node throws, with the rest of the edges deleted up to there              *)
DropNode(u) ==
  /\ ~broken /\ u \in nodes /\ parents[u] \notin children[u]
  /\ LET p == parents[u]
     IN /\ parents' = [x \in AllIds |-> IF x \in children[u] THEN p
                                         ELSE IF x = u THEN Root ELSE parents[x]]
        /\ children' = [children EXCEPT ![u] = {}, ![p] = (@ \cup children[u]) \ {u}]
  /\ \E gone \in SUBSET IncidentTo(u) :
       IF directed \/ Loops(u) = {}
         THEN /\ gone = IncidentTo(u)
              /\ nodes' = nodes \ {u} /\ UNCHANGED broken
              /\ ends' = [e \in AllIds |-> IF e \in gone THEN NoEdge ELSE ends[e]]
              /\ into' = Without(into, gone) /\ outof' = Without(outof, gone)
         ELSE /\ Loops(u) \subseteq gone
              /\ broken' = TRUE /\ UNCHANGED nodes
              /\ \E last \in Loops(u) :
                   ends' = [e \in AllIds |-> IF e \in gone \ {last} THEN NoEdge ELSE ends[e]]
              /\ into' = Without(into, gone) /\ outof' = Without(outof, gone)
  /\ UNCHANGED <<directed, nextId>>

(* filterNodes: the copy has the kept nodes, the edges between them, as the *)
(* parent of a node its nearest ancestor that was kept, and a counter of    *)
(* its own.  The search for one does not end in a cycle of parents of which *)
(* none was kept; where it ends at the node itself the copy throws.         *)
SearchEnds(S) == ~\E u \in S, C \in SUBSET (nodes \ S) : \A w \in C \cup {u} : parents[w] \in C

FilterNodes(S) ==
  /\ ~broken /\ S \subseteq nodes /\ SearchEnds(S)
  /\ nodes' = S /\ nextId' = 0
  /\ LET kept == {e \in Edges : ends[e][1] \in S /\ ends[e][2] \in S}
         only(map) == [x \in AllIds |-> [y \in AllIds |-> map[x][y] \cap kept]]
     IN /\ ends' = [e \in AllIds |-> IF e \in kept THEN ends[e] ELSE NoEdge]
        /\ into' = only(into) /\ outof' = only(outof)
  /\ \E up \in [nodes -> S \cup {Root}] :
       /\ \A u \in nodes : up[u] = IF parents[u] \in S \cup {Root} THEN parents[u]
                                   ELSE up[parents[u]]
       /\ \A u \in S : up[u] # u
       /\ parents' = [u \in AllIds |-> IF u \in S THEN up[u] ELSE Root]
       /\ children' = [p \in Parents |-> {u \in S : up[u] = p}]
  /\ UNCHANGED <<directed, broken>>

(* converter.json: decode(encode(g)) *)
ReloadGraph ==
  /\ ~broken /\ nextId' = 0
  /\ UNCHANGED <<directed, nodes, ends, into, outof, parents, children, broken>>

StoreNext ==
  \/ \E u \in AllIds : AddNode(u) \/ DropNode(u)
  \/ AddNewNode
  \/ \E u \in AllIds, handed \in SUBSET AllIds : DelNodeInCycle(u, handed)
  \/ \E u, v \in AllIds : AddNewEdge(u, v) \/ \E e \in AllIds : StoreEdge(e, u, v)
  \/ \E e \in AllIds : DropEdge(e)
  \/ \E u \in AllIds, p \in Parents : SetParent(u, p)
  \/ \E S \in SUBSET AllIds : FilterNodes(S)
  \/ ReloadGraph

StoreSpec == StoreInit /\ [][StoreNext]_storeVars
-----------------------------------------------------------------------------
StoreTypeOK ==
  /\ directed \in BOOLEAN
  /\ nodes \subseteq AllIds
  /\ ends \in [AllIds -> (AllIds \X AllIds) \cup {NoEdge}]
  /\ into \in [AllIds -> [AllIds -> SUBSET AllIds]]
  /\ outof \in [AllIds -> [AllIds -> SUBSET AllIds]]
  /\ nextId \in Nat
  /\ parents \in [AllIds -> Parents]
  /\ children \in [Parents -> SUBSET AllIds]
  /\ broken \in BOOLEAN

EndsExist == \A e \in Edges : ends[e][1] \in nodes /\ ends[e][2] \in nodes

IndexAgrees ==
  \A u, v \in AllIds :
    /\ into[v][u] = {e \in Edges : ends[e] = <<u, v>> \/ (~directed /\ ends[e] = <<v, u>>)}
    /\ outof[u][v] = IF directed THEN {e \in Edges : ends[e] = <<u, v>>} ELSE {}

HierarchyAgrees ==
  /\ \A u \in nodes : parents[u] \in (nodes \cup {Root}) \ {u}
  /\ \A p \in Parents : children[p] = {u \in nodes : parents[u] = p}

(* BaseGraph.js:709-715, compoundify.js:794-806: an operation throws halfway *)
(* only at a loop of an undirected graph, or where two nodes are each       *)
(* other's parent.                                                          *)
BrokenByLoopOrCycle ==
  broken => \/ ~directed /\ \E u \in AllIds : Loops(u) # {}
            \/ \E u, v \in nodes : parents[u] = v /\ parents[v] = u

(* BaseGraph.js, compoundify.js: after any sequence of operations, none of   *)
(* which threw halfway, the edges' ends are nodes, each index lists exactly  *)
(* the edges between two nodes, and children inverts parents; and what      *)
(* throws halfway is known.                                                 *)
GraphConsistent ==
  /\ ~broken => EndsExist /\ IndexAgrees /\ HierarchyAgrees
  /\ BrokenByLoopOrCycle
=============================================================================
