--------------------------- MODULE BoundedHandoff ---------------------------
(***************************************************************************)
(* What the collector's queue promises its callers, with no threads, no    *)
(* buffer order and no counters: an item enters while the intake is open,  *)
(* is held (never more than Capacity at a time) or refused, is taken once, *)
(* and is settled.  Shutting stops the intake; the shutdown is over when   *)
(* nothing is in anybody's hands and everything held when it began has     *)
(* been settled.                                                           *)
(***************************************************************************)
EXTENDS Naturals, FiniteSets

CONSTANTS
  Items,
  Capacity

VARIABLES
  phase,     \* "open", "closing" or "closed"
  stage,     \* where each item stands
  promised   \* the items held when the shutdown began

vars == <<phase, stage, promised>>

Stages == {"outside", "entering", "refused", "held", "taken", "settled"}

In(s) == {i \in Items : stage[i] = s}

Move(i, from, to) ==
  /\ stage[i] = from
  /\ stage' = [stage EXCEPT ![i] = to]

Init ==
  /\ phase = "open"
  /\ stage = [i \in Items |-> "outside"]
  /\ promised = {}

Enter(i) ==
  /\ phase = "open"
  /\ Move(i, "outside", "entering")
  /\ UNCHANGED <<phase, promised>>

TurnAway(i) ==
  /\ phase # "open"
  /\ Move(i, "outside", "refused")
  /\ UNCHANGED <<phase, promised>>

Hold(i) ==
  /\ Cardinality(In("held")) < Capacity
  /\ Move(i, "entering", "held")
  /\ UNCHANGED <<phase, promised>>

PushBack(i) ==
  /\ Cardinality(In("held")) >= Capacity
  /\ Move(i, "entering", "refused")
  /\ UNCHANGED <<phase, promised>>

Take(i) ==
  /\ phase # "closed"
  /\ Move(i, "held", "taken")
  /\ UNCHANGED <<phase, promised>>

Settle(i) ==
  /\ phase # "closed"
  /\ Move(i, "taken", "settled")
  /\ UNCHANGED <<phase, promised>>

Shut ==
  /\ phase = "open"
  /\ phase' = "closing"
  /\ promised' = In("held") \cup In("taken") \cup In("settled")
  /\ UNCHANGED stage

Finish ==
  /\ phase = "closing"
  /\ In("taken") = {}
  /\ promised \subseteq In("settled")
  /\ phase' = "closed"
  /\ UNCHANGED <<stage, promised>>

Next ==
  \/ \E i \in Items :
       Enter(i) \/ TurnAway(i) \/ Hold(i) \/ PushBack(i) \/ Take(i) \/ Settle(i)
  \/ Shut
  \/ Finish

Spec == Init /\ [][Next]_vars

\* What is taken gets settled, what is held gets taken unless the shutdown is
\* over first, and a shutdown ends.
Fairness ==
  /\ \A i \in Items : WF_vars(Take(i)) /\ WF_vars(Settle(i))
  /\ WF_vars(Finish)

FairSpec == Spec /\ Fairness
=============================================================================
