---------------------------- MODULE DependencyPage ----------------------------
(***************************************************************************)
(* The scripts of the page of service dependencies: the request for them,  *)
(* the graph drawn from the answer with its marks under the pointer, and   *)
(* the two modals that walk from service to service.                       *)
(***************************************************************************)
EXTENDS Integers, FiniteSets

CONSTANTS
  LinkSets,   \* the answers: finite sets of [parent, child, callCount]
  Log,        \* the logarithm of a call count, scaled to integers
  NoModal,    \* a modal that is hidden
  Off         \* the pointer is over no node and no edge

ASSUME DependencyAssumption ==
  /\ DOMAIN Log \subseteq Nat \ {0} /\ \A n \in DOMAIN Log : Log[n] \in Int
  /\ \A n, m \in DOMAIN Log : n < m => Log[n] < Log[m]
  /\ \A ls \in LinkSets :
       /\ IsFiniteSet(ls)
       /\ \A k \in ls : /\ k.callCount \in DOMAIN Log
                        /\ k.parent \notin ls /\ k.child \notin ls
                        /\ Off \notin {k, k.parent, k.child}

VARIABLES
  answer,          \* "pending", "received" or "failed"
  links,           \* data.links
  serviceModal,    \* the service #serviceModal shows, with its two lists
  dependencyModal, \* the link #dependencyModal shows
  over,            \* the node or the edge under the pointer
  dark,            \* the svg element has the class dark
  hover,           \* nodes with the class hover
  hoverLight,      \* nodes with the class hover-light
  hoverEdge        \* edges with the class hover-edge

modalVars == <<serviceModal, dependencyModal>>
hoverVars == <<over, dark, hover, hoverLight, hoverEdge>>
depVars   == <<answer, links, modalVars, hoverVars>>
-----------------------------------------------------------------------------
(* buildServiceData *)
ServicesIn(ls) == {k.parent : k \in ls} \cup {k.child : k \in ls}
Uses(ls, s)    == {k.child : k \in {l \in ls : l.parent = s}}
UsedBy(ls, s)  == {k.parent : k \in {l \in ls : l.child = s}}

(* dependencyGraph: an edge for each link between two services *)
Edges(ls) == {k \in ls : k.parent # k.child}
IncidentEdges(ls, n) == {k \in Edges(ls) : n \in {k.parent, k.child}}
AdjacentNodes(ls, n) ==
  (UNION {{k.parent, k.child} : k \in IncidentEdges(ls, n)}) \ {n}

(* The loop that finds minCallCount and maxCallCount, and arrowWidth in     *)
(* hundredths of a pixel.  scale divides by 0 when all counts are the same: *)
(* then the width is not a number and the style is not set.                 *)
CallCounts(ls) == {k.callCount : k \in Edges(ls)}
MinCount(ls) == CHOOSE n \in CallCounts(ls) : \A m \in CallCounts(ls) : n <= m
MaxCount(ls) == CHOOSE n \in CallCounts(ls) : \A m \in CallCounts(ls) : m <= n

ArrowWidth(ls, k) ==
  30 + ((Log[k.callCount] - Log[MinCount(ls)]) * 270)
         \div (Log[MaxCount(ls)] - Log[MinCount(ls)])
-----------------------------------------------------------------------------
(* getDependency: on success buildServiceData and the graph; `failure` is   *)
(* not an option of $.ajax, so a request that fails changes nothing         *)
Received ==
  /\ answer = "pending"
  /\ answer' = "received" /\ links' \in LinkSets
  /\ UNCHANGED <<modalVars, hoverVars>>

Failed ==
  /\ answer = "pending"
  /\ answer' = "failed"
  /\ UNCHANGED <<links, modalVars, hoverVars>>

NoModalShown == serviceModal = NoModal /\ dependencyModal = NoModal

(* getServiceData and renderServiceDataModal *)
ShowService(s) ==
  /\ serviceModal' = [service |-> s, uses |-> Uses(links, s), usedBy |-> UsedBy(links, s)]
  /\ dependencyModal' = NoModal

(* getDependencyData and renderDependencyModal *)
ShowDependency(parent, child) ==
  /\ dependencyModal' = (CHOOSE k \in links : k.parent = parent /\ k.child = child)
  /\ serviceModal' = NoModal

ClickNode(s) ==
  /\ over = s /\ NoModalShown
  /\ ShowService(s)
  /\ UNCHANGED <<answer, links, hoverVars>>

(* the links in the lists of #serviceModal *)
ClickUses(s) ==
  /\ serviceModal # NoModal /\ s \in serviceModal.uses
  /\ ShowDependency(serviceModal.service, s)
  /\ UNCHANGED <<answer, links, hoverVars>>

ClickUsedBy(s) ==
  /\ serviceModal # NoModal /\ s \in serviceModal.usedBy
  /\ ShowDependency(s, serviceModal.service)
  /\ UNCHANGED <<answer, links, hoverVars>>

(* the two services in #dependencyModal *)
ClickEnd(s) ==
  /\ dependencyModal # NoModal /\ s \in {dependencyModal.parent, dependencyModal.child}
  /\ ShowService(s)
  /\ UNCHANGED <<answer, links, hoverVars>>

CloseModal ==
  /\ ~NoModalShown
  /\ serviceModal' = NoModal /\ dependencyModal' = NoModal
  /\ UNCHANGED <<answer, links, hoverVars>>
-----------------------------------------------------------------------------
(* hover handlers of a node *)
EnterNode(s) ==
  /\ over = Off /\ answer = "received" /\ NoModalShown
  /\ over' = s /\ dark' = TRUE
  /\ hover' = hover \cup {s}
  /\ hoverEdge' = hoverEdge \cup IncidentEdges(links, s)
  /\ hoverLight' = hoverLight \cup AdjacentNodes(links, s)
  /\ UNCHANGED <<answer, links, modalVars>>

LeaveNode(s) ==
  /\ over = s
  /\ over' = Off /\ dark' = FALSE
  /\ hover' = hover \ {s}
  /\ hoverEdge' = hoverEdge \ IncidentEdges(links, s)
  /\ hoverLight' = hoverLight \ AdjacentNodes(links, s)
  /\ UNCHANGED <<answer, links, modalVars>>

(* hover handlers of an edge *)
EnterEdge(k) ==
  /\ over = Off /\ answer = "received" /\ NoModalShown
  /\ over' = k /\ dark' = TRUE
  /\ hover' = hover \cup {k.parent, k.child}
  /\ hoverEdge' = hoverEdge \cup {k}
  /\ UNCHANGED <<answer, links, modalVars, hoverLight>>

LeaveEdge(k) ==
  /\ over = k
  /\ over' = Off /\ dark' = FALSE
  /\ hover' = hover \ {k.parent, k.child}
  /\ hoverEdge' = hoverEdge \ {k}
  /\ UNCHANGED <<answer, links, modalVars, hoverLight>>
-----------------------------------------------------------------------------
DependencyInit ==
  /\ answer = "pending" /\ links = {}
  /\ serviceModal = NoModal /\ dependencyModal = NoModal
  /\ over = Off /\ dark = FALSE /\ hover = {} /\ hoverLight = {} /\ hoverEdge = {}

DependencyNext ==
  \/ Received \/ Failed
  \/ \E s \in ServicesIn(links) :
       ClickNode(s) \/ ClickUses(s) \/ ClickUsedBy(s) \/ ClickEnd(s)
         \/ EnterNode(s) \/ LeaveNode(s)
  \/ CloseModal
  \/ \E k \in Edges(links) : EnterEdge(k) \/ LeaveEdge(k)

DependencySpec == DependencyInit /\ [][DependencyNext]_depVars
-----------------------------------------------------------------------------
(* serviceDataModal.js:20-100, component_data/dependency.js:37-81: at most  *)
(* one modal is shown; walking from modal to modal only ever shows links    *)
(* of the answer, and a service's two lists mirror each other's.            *)
ModalsShowLinks ==
  /\ serviceModal = NoModal \/ dependencyModal = NoModal
  /\ dependencyModal # NoModal => dependencyModal \in links
  /\ serviceModal # NoModal =>
       /\ \A s \in serviceModal.uses : serviceModal.service \in UsedBy(links, s)
       /\ \A s \in serviceModal.usedBy : serviceModal.service \in Uses(links, s)
       /\ serviceModal.uses \cup serviceModal.usedBy # {}

(* dependencyGraph.js:138-197: what the page marks is what the pointer is   *)
(* over, with its neighbours; nothing stays marked when it has left.        *)
MarksFollowPointer ==
  /\ dark = (over # Off)
  /\ over = Off => hover = {} /\ hoverLight = {} /\ hoverEdge = {}
  /\ over \in ServicesIn(links) =>
       /\ hover = {over}
       /\ \A s \in ServicesIn(links) \ {over} :
            (s \in hoverLight) = (\E k \in hoverEdge : s \in {k.parent, k.child})
       /\ over \notin hoverLight

(* dependencyGraph.js:65-90: when the call counts differ, the widths run    *)
(* from 0.3 to 3 pixels, the more calls the wider.                          *)
WidthsFollowCalls ==
  Edges(links) # {} /\ Cardinality(CallCounts(links)) > 1 =>
    /\ {30, 300} \subseteq {ArrowWidth(links, k) : k \in Edges(links)}
    /\ \A k, l \in Edges(links) :
         /\ ArrowWidth(links, k) \in 30 .. 300
         /\ k.callCount <= l.callCount => ArrowWidth(links, k) <= ArrowWidth(links, l)
=============================================================================
