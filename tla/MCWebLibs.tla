------------------------------- MODULE MCWebLibs -------------------------------
(***************************************************************************)
(* The libraries that draw: graphlib's graphs and algorithms, dagre's      *)
(* layout, d3's redrawing, its gestures and one of its data structures.    *)
(* Which of them moves is chosen in the initial state; the others stay as  *)
(* they start.                                                             *)
(***************************************************************************)
EXTENDS DagreLayout, GraphStore, DagreConstraints, RedBlackTree,
        D3Redraw, D3Gestures, D3Drags, QuadTree

VARIABLE part

Sublists(s) == {SelectSeq(s, LAMBDA item : item \in E) : E \in SUBSET ToSet(s)}
OfLength(S, n) == {s \in S : Len(s) \in n}
Graph(n, edges) == [nodes |-> [i \in 1..n |-> 100 + i], edges |-> edges]

(* every graph of three nodes, loops and opposite edges included *)
Any3 == << <<101, 102>>, <<103, 101>>, <<102, 103>>, <<101, 101>>, <<102, 101>>,
           <<102, 102>>, <<101, 103>>, <<103, 102>>, <<103, 103>> >>
(* pairs of opposite edges and a cycle of all of four nodes *)
Some4 == << <<101, 102>>, <<103, 101>>, <<104, 103>>, <<102, 104>>, <<102, 101>>, <<103, 102>> >>
(* two ranks of three, most of whose edges cross *)
Crossing == << <<101, 106>>, <<103, 104>>, <<102, 105>>, <<101, 104>>, <<102, 106>>,
               <<102, 104>>, <<101, 105>>, <<103, 105>>, <<103, 106>> >>
(* a graph whose tight tree has an edge with a negative cut value *)
Exchanged(p) ==
  [nodes |-> <<101, 102, 103, 104, 105, 106>>,
   edges |-> [i \in 1..7 |-> << <<101, 102>>, <<102, 103>>, <<103, 104>>, <<103, 106>>,
                               <<101, 105>>, <<105, 104>>, <<105, 106>> >>[((i + p) % 7) + 1]]]

(* With simplex: the new root leads to some nodes only, and edges come to    *)
(* lead up; numbers of an earlier tree decide what the second tree becomes;  *)
(* two exchanges that end with an edge that leads up; an edge within a rank; *)
(* an edge that enters and closes a cycle; none to enter; and exchanges that *)
(* never end.                                                                *)
Partial  == << <<104, 108>>, <<105, 107>>, <<103, 106>>, <<105, 108>>, <<101, 102>>, <<106, 107>>,
               <<101, 104>>, <<104, 107>>, <<102, 103>>, <<103, 105>> >>
Stale    == << <<105, 106>>, <<102, 104>>, <<105, 107>>, <<103, 108>>, <<102, 105>>, <<105, 108>>,
               <<103, 107>>, <<101, 102>>, <<104, 106>>, <<101, 107>>, <<101, 108>>, <<101, 103>> >>
Upward   == << <<104, 105>>, <<105, 107>>, <<101, 102>>, <<103, 104>>, <<105, 106>>, <<101, 105>>,
               <<102, 107>>, <<103, 107>>, <<102, 106>> >>
Beside   == << <<105, 106>>, <<102, 103>>, <<101, 102>>, <<104, 106>>, <<104, 105>>, <<103, 105>>,
               <<101, 104>> >>
Closing  == << <<102, 104>>, <<105, 106>>, <<104, 106>>, <<103, 105>>, <<103, 106>>, <<102, 105>>,
               <<101, 103>>, <<103, 104>>, <<101, 102>> >>
Lacking  == << <<101, 105>>, <<101, 103>>, <<102, 103>>, <<105, 106>>, <<103, 104>>, <<106, 107>>,
               <<104, 106>>, <<105, 107>> >>
Endless  == << <<103, 106>>, <<101, 102>>, <<101, 103>>, <<102, 105>>, <<104, 105>>, <<104, 106>>,
               <<105, 107>>, <<103, 104>>, <<102, 106>>, <<106, 107>> >>
Misled == {Graph(8, Partial), Graph(8, Stale), Graph(7, Upward), Graph(6, Beside), Graph(6, Closing),
           Graph(7, Lacking), Graph(7, Endless)}

TheInputs ==
  {Graph(3, s) : s \in OfLength(Sublists(Any3), 0..3)}
    \cup {Graph(4, s) : s \in OfLength(Sublists(Some4), 2..6)}
    \cup {Graph(6, s) : s \in OfLength(Sublists(Crossing), 6..6)}
    \cup {Exchanged(p) : p \in 0..6} \cup Misled

Widths == [u \in 101..108 |-> IF u % 2 = 0 THEN 3 ELSE 8]
Heights == [u \in 101..108 |-> 2]
Weights == <<3, 1, 4, 1, 5, 9, 2, 6, 5>>

(* Four nodes, the last one a group or not, with every wish for a rank. *)
Prefs == {"none", "min", "max", "same"}
Pairs == << <<101, 102>>, <<103, 101>>, <<102, 103>>, <<101, 101>>, <<102, 101>>, <<103, 102>> >>
Wishing(prefs, groups, edges) ==
  [nodes |-> <<101, 102, 103, 104>>, edges |-> edges,
   pref |-> [u \in 101..104 |-> IF u = 104 THEN "none" ELSE prefs[u - 100]],
   parent |-> [u \in 101..104 |-> IF u = 104 THEN NoGraph ELSE groups[u - 100]]]
TheWishes ==
  {Wishing(prefs, groups, edges) :
     prefs \in [1..3 -> Prefs], groups \in {<<0, 0, 0>>, <<104, 104, 0>>},
     edges \in OfLength(Sublists(Pairs), 2..2) \cup OfLength(Sublists(Pairs), 3..3)}

(* Nothing; two data; one of them again, in another place. *)
TheDraws == {<<>>, << <<1, 0>>, <<1, 1>> >>, << <<2, 0>>, <<1, 1>> >>}

(* A place in the brush's range, and one beside it. *)
TheStops == {4, 12}
TheDomains == {<<8, 4>>}

(* Places that are close to others, apart, and outside of a square. *)
ThePlaces == {<<0, 0>>, <<32, 0>>, <<32, 32>>, <<64, 64>>, <<0, 64>>, <<64, 32>>}
TheSquares == {Square(0, 0, 32), Square(0, 0, 64)}

----------------------------------------------------------------------------
Asked == part = "layout" /\ phase = "read" /\ ~simplex /\ Len(input.nodes) < 5

(* graphlib's algorithms give what they are defined to give: sorts, cycles,  *)
(* components and walks.                                                     *)
OrdersAndPiecesRight == Asked => TopsortRight(input) /\ ComponentsRight(input) /\ WalksRight(input)

(* ... and distances and least spanning trees, through a binary heap whose   *)
(* priorities fall while they are in it.                                     *)
DistancesAndTreesRight ==
  Asked => /\ DistancesRight(input, Weights, TRUE) /\ DistancesRight(input, Weights, FALSE)
           /\ SpanningRight(input, Weights)

(* dagre: every pass of the layout keeps what the earlier ones found, and   *)
(* nodes that wish for a rank get it with their graph unharmed.             *)
LayoutRight ==
  /\ part = "layout" => RankingSound /\ CrossingsCounted /\ NodesApart /\ LayoutKeepsGraph
  /\ part = "constraints" => ConstraintsHold

(* graphlib's algorithms and d3's trees do what they are meant to. *)
StructuresRight ==
  /\ OrdersAndPiecesRight /\ DistancesAndTreesRight
  /\ part = "tree" => OrderedTree
  /\ part = "quadtree" => QuadTreeFinds

(* d3: elements come, change and go with their data, and the picture stays  *)
(* under the pointer and the fingers that hold it.                          *)
PictureRight ==
  /\ part = "redraw" => RedrawRight
  /\ part = "gestures" => GesturesHold

----------------------------------------------------------------------------
moreVars == <<forceVars, quadVars>>
drawVars == <<redrawVars, gestureVars, brushVars>>
allVars == <<layoutVars, storeVars, constraintVars, treeVars, redrawVars, gestureVars, brushVars, moreVars, part>>

LibsInit ==
  /\ part \in {"layout", "store", "constraints", "tree", "redraw", "gestures", "brush", "force", "quadtree"}
  /\ part # "layout" => input = Graph(3, <<>>) /\ simplex = FALSE
  /\ part # "store" => directed = TRUE
  /\ part # "constraints" =>
       wish = Wishing([n \in 1..3 |-> "none"], <<0, 0, 0>>, << <<101, 102>>, <<103, 101>> >>)
  /\ part # "redraw" => style = CHOOSE s \in Styles : TRUE
  /\ part # "gestures" => pointer = 0
  /\ part # "quadtree" => given = <<>> /\ square = Unknown
  /\ LayoutInit /\ StoreInit /\ ConstraintInit /\ TreeInit /\ RedrawInit /\ GestureInit /\ BrushInit
  /\ ForceInit /\ QuadInit

OnLayout ==
  /\ part = "layout" /\ LayoutNext
  /\ UNCHANGED <<storeVars, constraintVars, treeVars, redrawVars, gestureVars, brushVars, moreVars, part>>
OnStore ==
  /\ part = "store" /\ StoreNext
  /\ UNCHANGED <<layoutVars, constraintVars, treeVars, redrawVars, gestureVars, brushVars, moreVars, part>>
OnConstraints ==
  /\ part = "constraints" /\ ConstraintNext
  /\ UNCHANGED <<layoutVars, storeVars, treeVars, redrawVars, gestureVars, brushVars, moreVars, part>>
OnTree ==
  /\ part = "tree" /\ TreeNext
  /\ UNCHANGED <<layoutVars, storeVars, constraintVars, redrawVars, gestureVars, brushVars, moreVars, part>>
NotRedraw == <<layoutVars, storeVars, constraintVars, treeVars, gestureVars, brushVars, moreVars, part>>
OnRedraw == part = "redraw" /\ RedrawNext /\ UNCHANGED NotRedraw
OnGestures ==
  /\ part = "gestures" /\ GestureNext
  /\ UNCHANGED <<layoutVars, storeVars, constraintVars, treeVars, redrawVars, brushVars, moreVars, part>>
OnBrush ==
  /\ part = "brush" /\ BrushNext
  /\ UNCHANGED <<layoutVars, storeVars, constraintVars, treeVars, redrawVars, gestureVars, moreVars, part>>
OnForce ==
  /\ part = "force" /\ ForceNext
  /\ UNCHANGED <<layoutVars, storeVars, constraintVars, treeVars, drawVars, quadVars, part>>
OnQuadTree ==
  /\ part = "quadtree" /\ QuadNext
  /\ UNCHANGED <<layoutVars, storeVars, constraintVars, treeVars, drawVars, forceVars, part>>

(* Time passes, and the browser calls for frames. *)
TimeElapses == part = "redraw" /\ Elapse /\ UNCHANGED NotRedraw
FramesCome  == part = "redraw" /\ Frame /\ UNCHANGED NotRedraw

LibsNext == OnLayout \/ OnStore \/ OnConstraints \/ OnTree \/ OnRedraw \/ OnGestures \/ OnBrush
              \/ OnForce \/ OnQuadTree

LibsSpec ==
  /\ LibsInit /\ [][LibsNext]_allVars
  /\ WF_allVars(TimeElapses) /\ WF_allVars(FramesCome)
=============================================================================
