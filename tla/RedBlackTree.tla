---------------------------- MODULE RedBlackTree ----------------------------
(***************************************************************************)
(* The threaded red-black tree of d3 (d3.js 4690-4886) that keeps the      *)
(* beach line and the circle events of a Voronoi sweep in order.  There    *)
(* is no key: a caller says after which node a new one belongs, so the     *)
(* shape, the threads P and N and the colours are all that keep the order. *)
(*                                                                         *)
(* A node is named by the place the calls so far gave it: 1 is the first.  *)
(* A call that makes room or leaves a gap renames the nodes behind it,     *)
(* which the code does not do and no property can see; it spares the model *)
(* the permutations of equal trees.                                        *)
(***************************************************************************)
EXTENDS Naturals, Sequences

CONSTANT MaxTreeNodes

VARIABLES redBlack, size

treeVars == <<redBlack, size>>

NodeNames == 1 .. MaxTreeNodes
Nil == 0

EmptyTree ==
  LET nobody == [n \in NodeNames |-> Nil]
  IN [root |-> Nil, U |-> nobody, L |-> nobody, R |-> nobody, P |-> nobody,
      N |-> nobody, C |-> [n \in NodeNames |-> FALSE]]

Opposite(s) == IF s = "L" THEN "R" ELSE "L"

SideOf(t, parent, n) == IF t.L[parent] = n THEN "L" ELSE "R"

Put(f, n, v) == IF n = Nil THEN f ELSE [f EXCEPT ![n] = v]

RedNode(t, n) == n # Nil /\ t.C[n]

RECURSIVE FirstBelow(_, _)
FirstBelow(t, n) == IF t.L[n] = Nil THEN n ELSE FirstBelow(t, t.L[n])

(* What pointed to p points to q: the child of the parent, or the root. *)
Hang(t, p, q) ==
  IF t.U[p] = Nil THEN [t EXCEPT !.root = q]
  ELSE [t EXCEPT ![SideOf(t, t.U[p], p)][t.U[p]] = q]

(* p goes down to side s and its child on the other side takes its place. *)
Rotate(t, s, p) ==
  LET o == Opposite(s)
      q == t[o][p]
      between == t[s][q]
  IN [Hang(t, p, q) EXCEPT
        !.U = Put([@ EXCEPT ![q] = t.U[p], ![p] = q], between, p),
        ![o][p] = between,
        ![s][q] = p]

Paint(t, reds, blacks) ==
  [t EXCEPT !.C = [n \in NodeNames |-> (n \in reds \/ @[n]) /\ n \notin blacks]]

---------------------------------------------------------------------------
(* insert: the loop while the parent of the red node n is red. *)
RECURSIVE Rebalance(_, _)
Rebalance(t, n) ==
  LET p == t.U[n]
      g == t.U[p]
      s == SideOf(t, g, p)
      uncle == t[Opposite(s)][g]
      bent == n = t[Opposite(s)][p]
      top == IF bent THEN n ELSE p
      straight == IF bent THEN Rotate(t, s, p) ELSE t
  IN IF ~RedNode(t, p) THEN Paint(t, {}, {t.root})
     ELSE IF RedNode(t, uncle)
          THEN Rebalance(Paint(t, {g}, {p, uncle}), g)
          ELSE Rebalance(Rotate(Paint(straight, {g}, {top}), Opposite(s), g),
                         IF bent THEN p ELSE n)

(* The node n takes its place in the threads behind `after` and becomes    *)
(* the leftmost node right of it; without `after` it becomes the first.    *)
Attach(t, after, n) ==
  LET first == FirstBelow(t, t.root)
      next == t.N[after]
      parent == IF t.R[after] = Nil THEN after ELSE FirstBelow(t, t.R[after])
      side == IF parent = after THEN "R" ELSE "L"
  IN CASE after # Nil ->
            [t EXCEPT !.P = Put([@ EXCEPT ![n] = after], next, n),
                      !.N = [@ EXCEPT ![n] = next, ![after] = n],
                      ![side][parent] = n, !.U[n] = parent]
       [] after = Nil /\ t.root # Nil ->
            [t EXCEPT !.P[first] = n, !.N[n] = first, !.L[first] = n, !.U[n] = first]
       [] OTHER -> [t EXCEPT !.root = n]

InsertAfter(t, after, n) == Rebalance(Paint(Attach(t, after, n), {n}, {}), n)

---------------------------------------------------------------------------
(* remove: one side of the tree is a black node short at n, below parent.  *)
Lift(t, s, parent) ==
  LET sibling == t[Opposite(s)][parent]
  IN IF t.C[sibling] THEN Rotate(Paint(t, {parent}, {sibling}), s, parent) ELSE t

Level(t, s, parent) ==
  LET o == Opposite(s)
      sibling == t[o][parent]
      near == t[s][sibling]
      turned == IF RedNode(t, t[o][sibling]) THEN t
                ELSE Rotate(Paint(t, {sibling}, {near}), o, sibling)
      above == turned[o][parent]
      far == turned[o][above]
      blacks == {parent, far} \cup (IF t.C[parent] THEN {} ELSE {above})
  IN Rotate(Paint(turned, IF t.C[parent] THEN {above} ELSE {}, blacks), s, parent)

RECURSIVE Repair(_, _, _)
Repair(t, n, parent) ==
  LET s == SideOf(t, parent, n)
      lifted == Lift(t, s, parent)
      sibling == lifted[Opposite(s)][parent]
  IN IF n = t.root \/ RedNode(t, n) THEN Paint(t, {}, {n})
     ELSE IF RedNode(lifted, lifted.L[sibling]) \/ RedNode(lifted, lifted.R[sibling])
          THEN LET done == Level(lifted, s, parent) IN Paint(done, {}, {done.root})
          ELSE Repair(Paint(lifted, {sibling}, {}), parent, lifted.U[parent])

\* Mutant: the node behind the one that goes still knows it.
UnthreadOneWay(t, n) ==
  [t EXCEPT !.P = [@ EXCEPT ![n] = Nil], !.N = [Put(@, t.P[n], t.N[n]) EXCEPT ![n] = Nil]]

Unthread(t, n) ==
  [t EXCEPT !.P = [Put(@, t.N[n], t.P[n]) EXCEPT ![n] = Nil],
            !.N = [Put(@, t.P[n], t.N[n]) EXCEPT ![n] = Nil]]

(* A node with at most one child is replaced by it; one with two by the    *)
(* first node right of it, which leaves a gap where it was.                *)
RemoveNode(t, n) ==
  LET l == t.L[n]
      r == t.R[n]
      two == l # Nil /\ r # Nil
      next == IF l = Nil THEN r ELSE IF r = Nil THEN l ELSE FirstBelow(t, r)
      hung == Hang(Unthread(t, n), n, next)
      gap == IF ~two THEN next ELSE t.R[next]
      parent == IF ~two THEN t.U[n] ELSE IF next = r THEN r ELSE t.U[next]
      seated == [hung EXCEPT !.L[next] = l, !.U = [@ EXCEPT ![l] = next, ![next] = t.U[n]],
                             !.C[next] = t.C[n]]
      moved == IF next = r THEN seated
               ELSE [seated EXCEPT !.L[parent] = gap, !.R[next] = r, !.U[r] = next]
      spliced == IF two THEN moved ELSE hung
      cut == [spliced EXCEPT !.U = Put(@, gap, parent)]
      red == IF two THEN t.C[next] ELSE t.C[n]
  IN IF red THEN cut ELSE Repair(cut, gap, parent)

---------------------------------------------------------------------------
Renamed(t, New(_), Old(_), blank) ==
  LET Field(f) == [n \in NodeNames |-> IF n = blank THEN Nil ELSE New(f[Old(n)])]
  IN [root |-> New(t.root), U |-> Field(t.U), L |-> Field(t.L), R |-> Field(t.R),
      P |-> Field(t.P), N |-> Field(t.N),
      C |-> [n \in NodeNames |-> n # blank /\ t.C[Old(n)]]]

MakeRoom(t, k) ==
  Renamed(t, LAMBDA n : IF n > k THEN n + 1 ELSE n,
             LAMBDA n : IF n > k THEN n - 1 ELSE n, k + 1)

CloseUp(t, k) ==
  Renamed(t, LAMBDA n : IF n > k THEN n - 1 ELSE n,
             LAMBDA n : IF n >= k /\ n < MaxTreeNodes THEN n + 1 ELSE n, MaxTreeNodes)

TreeInit == redBlack = EmptyTree /\ size = 0

InsertOne(k) ==
  /\ k <= size
  /\ size < MaxTreeNodes
  /\ redBlack' = InsertAfter(MakeRoom(redBlack, k), k, k + 1)
  /\ size' = size + 1

RemoveOne(k) ==
  /\ k \in 1 .. size
  /\ redBlack' = CloseUp(RemoveNode(redBlack, k), k)
  /\ size' = size - 1

TreeNext == \/ \E k \in 0 .. MaxTreeNodes : InsertOne(k)
            \/ \E k \in NodeNames : RemoveOne(k)

TreeSpec == TreeInit /\ [][TreeNext]_treeVars

---------------------------------------------------------------------------
RECURSIVE LeftToRight(_, _)
LeftToRight(t, n) ==
  IF n = Nil THEN << >> ELSE LeftToRight(t, t.L[n]) \o <<n>> \o LeftToRight(t, t.R[n])

(* Black nodes on every way down from n, or 0 when the ways differ. *)
RECURSIVE BlackHeight(_, _)
BlackHeight(t, n) ==
  IF n = Nil THEN 1
  ELSE CHOOSE h \in {IF l = r THEN (IF l = 0 \/ t.C[n] THEN l ELSE l + 1) ELSE 0 :
                       l \in {BlackHeight(t, t.L[n])}, r \in {BlackHeight(t, t.R[n])}} : TRUE

(* Whatever is inserted and removed, walking the tree from left to right   *)
(* meets the nodes in the order the callers asked for, and so does         *)
(* following the threads in both directions.                               *)
OrderKept ==
  LET places == [k \in 1 .. size |-> k]
  IN /\ LeftToRight(redBlack, redBlack.root) = places
     /\ \A k \in 1 .. size : /\ redBlack.P[k] = k - 1
                             /\ redBlack.N[k] = IF k = size THEN Nil ELSE k + 1

(* The tree stays shallow: no red node has a red child, every way from the *)
(* root to a leaf has as many black nodes, and every child knows its       *)
(* parent.                                                                 *)
TreeBalanced ==
  /\ ~RedNode(redBlack, redBlack.root)
  /\ \A n \in 1 .. size : /\ redBlack.C[n] => ~redBlack.C[IF redBlack.U[n] = Nil THEN n ELSE redBlack.U[n]]
                          /\ \A s \in {"L", "R"} : redBlack[s][n] # Nil => redBlack.U[redBlack[s][n]] = n
  /\ BlackHeight(redBlack, redBlack.root) > 0

(* After any calls the tree gives its nodes in the callers' order and is   *)
(* balanced, the two things the sweep relies on.                           *)
OrderedTree == OrderKept /\ TreeBalanced
=============================================================================
