------------------------------ MODULE QuadTree ------------------------------
(***************************************************************************)
(* d3.geom.quadtree (libs/d3/d3.js): points in squares that are quartered  *)
(* until each point has one of its own; points closer than a hundredth are *)
(* taken for the same place.                                               *)
(*                                                                         *)
(* Lengths count in units of which Close make that hundredth, and places   *)
(* are multiples of Grid.  A node is named by the way down to it: the      *)
(* quarters taken, 0 and 1 above 2 and 3.                                  *)
(***************************************************************************)
EXTENDS Integers, SequencesExt, FiniteSetsExt, TLC

CONSTANTS
  Places,        \* where points are, <<x, y>>
  NoPlace,       \* a point with a coordinate that is NaN
  Extents,       \* what quadtree.extent may be given: squares
  Unknown,       \* no extent; or that of no data, which is NaN
  Grid,
  Close,
  MaxData, MaxPoints   \* bounds: points the tree is made from, and in all

VARIABLES
  square,        \* x1_, y1_ and the length of the sides
  given,         \* the points so far, and those of the data that are to come
  inserted,      \* how many of them were inserted
  quad           \* the nodes; and whether the last insertion ended

quadVars == <<square, given, inserted, quad>>

Square(x, y, size) == [x |-> x, y |-> y, size |-> size]
QuadNode(k) == [point |-> k, leaf |-> TRUE]   \* k = 0 is null
QuadTop == <<>>

(* The bounding box of the data, made a square. *)
Around(data) ==
  LET known == ToSet(data) \ {NoPlace}
      xs == {p[1] : p \in known}
      ys == {p[2] : p \in known}
  IN IF known = {} THEN Unknown
     ELSE Square(Min(xs), Min(ys), Max({Max(xs) - Min(xs), Max(ys) - Min(ys)}))

QuadInit ==
  /\ given \in SeqOf(Places \cup {NoPlace}, MaxData)
  /\ \E extent \in Extents \cup {Unknown} :
       square = IF extent = Unknown THEN Around(given) ELSE extent
  /\ inserted = 0
  /\ quad = [nodes |-> QuadTop :> QuadNode(0), ends |-> TRUE]
-----------------------------------------------------------------------------
Distance(a, b) == IF a < b THEN b - a ELSE a - b
FarApart(p, q) == Distance(p[1], q[1]) + Distance(p[2], q[2]) >= Close

(* The quarter of s for p; comparing with NaN gives false. *)
Quarter(s, p) ==
  IF s = Unknown THEN 0
  ELSE (IF 2 * p[1] >= 2 * s.x + s.size THEN 1 ELSE 0)
         + (IF 2 * p[2] >= 2 * s.y + s.size THEN 2 ELSE 0)

Quartered(s, i) ==
  IF s = Unknown THEN Unknown
  ELSE LET half == s.size \div 2
       IN Square(s.x + (i % 2) * half, s.y + (i \div 2) * half, half)

(* Two points that a square no larger than the grid does not separate are   *)
(* on the same side of every line to come.                                  *)
NeverParted(s, p, q) ==
  Quarter(s, p) = Quarter(s, q) /\ (s = Unknown \/ s.size <= Grid)

(* insert and insertChild, of the k-th of `ps` into the node at the end of  *)
(* `way`.  A point that comes to a leaf takes it when it is empty, goes     *)
(* below when the one there is close, and sends that below as well if not.  *)
RECURSIVE Insert(_, _, _, _, _), InsertChild(_, _, _, _, _)
Insert(ps, t, way, k, s) ==
  LET n == t.nodes[way]
      emptied == [t EXCEPT !.nodes[way].point = 0]
  IN IF n.leaf /\ n.point = 0 THEN [t EXCEPT !.nodes[way].point = k]
     ELSE IF ~n.leaf \/ ~FarApart(ps[n.point], ps[k]) THEN InsertChild(ps, t, way, k, s)
     ELSE IF NeverParted(s, ps[n.point], ps[k]) THEN [t EXCEPT !.ends = FALSE]
     ELSE InsertChild(ps, InsertChild(ps, emptied, way, n.point, s), way, k, s)
InsertChild(ps, t, way, k, s) ==
  LET i == Quarter(s, ps[k])
      inner == [t EXCEPT !.nodes[way].leaf = FALSE,
                         !.nodes = @ @@ (Append(way, i) :> QuadNode(0))]
  IN IF ~t.ends THEN t ELSE Insert(ps, inner, Append(way, i), k, Quartered(s, i))

(* As root.add or from the data; NaN is left out. *)
InsertPoint(ps, k) ==
  /\ quad' = IF ps[k] = NoPlace THEN quad ELSE Insert(ps, quad, QuadTop, k, square)
  /\ inserted' = k
  /\ UNCHANGED square

(* quadtree: the data in their order.  An insertion that does not end ends  *)
(* with the stack, and nothing more is done to the tree.                    *)
InsertData ==
  /\ quad.ends /\ inserted < Len(given)
  /\ InsertPoint(given, inserted + 1)
  /\ UNCHANGED given

(* root.add: the square stays what it was. *)
AddPoint(p) ==
  /\ quad.ends /\ inserted = Len(given) /\ inserted < MaxPoints
  /\ given' = Append(given, p)
  /\ InsertPoint(given', inserted + 1)

QuadNext == InsertData \/ \E p \in Places \cup {NoPlace} : AddPoint(p)
QuadSpec == QuadInit /\ [][QuadNext]_quadVars
-----------------------------------------------------------------------------
(* d3_geom_quadtreeVisit with a function that does not go below squares     *)
(* outside of `r`: the points it meets.                                     *)
Meets(s, r) == /\ s.x <= r.x + r.size /\ r.x <= s.x + s.size
               /\ s.y <= r.y + r.size /\ r.y <= s.y + s.size
RECURSIVE QuadVisit(_, _, _)
QuadVisit(way, s, r) ==
  IF ~Meets(s, r) THEN {}
  ELSE {quad.nodes[way].point}
         \cup UNION {QuadVisit(Append(way, i), Quartered(s, i), r) :
                       i \in {j \in 0..3 : Append(way, j) \in DOMAIN quad.nodes}}

Inside(p, s) == s.x <= p[1] /\ p[1] <= s.x + s.size /\ s.y <= p[2] /\ p[2] <= s.y + s.size
Known(k) == given[k] # NoPlace
Below(way) == {w \in DOMAIN quad.nodes : Len(w) > Len(way) /\ SubSeq(w, 1, Len(way)) = way}

(* Every point is at one node, and a search that leaves out squares finds   *)
(* all those of its range that are in the tree's square.  Points end up     *)
(* above others only by being close to one of these.  An insertion that     *)
(* does not end had to do with a point outside of the tree's square.        *)
QuadTreeFinds ==
  IF quad.ends
    THEN /\ \A k \in 1..inserted : Known(k) =>
              Cardinality({w \in DOMAIN quad.nodes : quad.nodes[w].point = k}) = 1
         /\ square # Unknown => \A p \in Places, size \in {0, Grid} :
              {k \in 1..inserted : Known(k) /\ Inside(given[k], square)
                                    /\ Inside(given[k], Square(p[1], p[2], size))}
                \subseteq QuadVisit(QuadTop, square, Square(p[1], p[2], size))
         /\ \A w \in DOMAIN quad.nodes :
              /\ quad.nodes[w].leaf = (Below(w) = {})
              /\ quad.nodes[w].point # 0 /\ ~quad.nodes[w].leaf =>
                   \E v \in Below(w) : /\ quad.nodes[v].point # 0
                                       /\ ~FarApart(given[quad.nodes[v].point], given[quad.nodes[w].point])
  ELSE square = Unknown \/ \E k \in 1..inserted : Known(k) /\ ~Inside(given[k], square)
=============================================================================
