------------------------------- MODULE D3Redraw -------------------------------
(***************************************************************************)
(* Elements that are drawn again and again, the way dagre-d3's Renderer    *)
(* draws nodes and edges: a data join, a transition in for what has a      *)
(* datum and a transition out, with removal at its end, for what has none. *)
(* With it d3's transitions and the queue of d3.timer, which calls every   *)
(* transition's next step from one frame of the browser (libs/d3/d3.js).   *)
(* Listeners do not throw here: one that did would end the frame before it *)
(* asks for another, and no transition of the page would go on.            *)
(***************************************************************************)
EXTENDS Integers, FiniteSets, SequencesExt, TLC

CONSTANTS
  Draws,         \* the sequences of data that are drawn
  Delays, Duration,  \* of the transitions, in the time units of Elapse
  NoLock,
  Empty,         \* undefined, in a group
  MaxNodes,      \* bound: elements ever made
  MaxDraws       \* bound: draws and interrupts together

----------------------------------------------------------------------------
(***************************************************************************)
(* The data join (selection.data, enter and exit): which elements of a     *)
(* group a sequence of data is bound to, which are missing and which are   *)
(* left over, and where new ones go in the document.  A datum is           *)
(* <<key, version>>; a place of a group may be empty.                      *)
(***************************************************************************)
Key(d) == d[1]
First(seq, i) == \A j \in 1..(i - 1) : Key(seq[j]) # Key(seq[i])
Keys(seq) == {Key(d) : d \in ToSet(seq)}
Place(seq, x) == SelectInSeq(seq, LAMBDA y : y = x)
Filled(group) == SelectSeq(group, LAMBDA n : n # Empty)

(* bind: of several elements, or several data, with one key the first counts. *)
Bind(group, old, data, keyed) ==
  LET olds == [i \in DOMAIN group |-> old[group[i]]]
      At(i) == IF keyed THEN SelectInSeq(olds, LAMBDA d : Key(d) = Key(data[i]))
               ELSE IF i <= Len(group) THEN i ELSE 0
      Counts(i) == ~keyed \/ First(data, i) IN
  [update |-> [i \in DOMAIN data |-> IF Counts(i) /\ At(i) # 0 THEN group[At(i)] ELSE Empty],
   enter  |-> [i \in DOMAIN data |-> IF Counts(i) /\ At(i) = 0 THEN data[i] ELSE Empty],
   exit   |-> [i \in DOMAIN group |->
                 IF IF keyed THEN First(olds, i) /\ Key(olds[i]) \in Keys(data) ELSE i <= Len(data)
                 THEN Empty ELSE group[i]]]

(* insertBefore: moves a node that is there already. *)
InsertBefore(kids, node, next) ==
  LET rest == RemoveFirst(kids, node) IN
  IF next = Empty THEN Append(rest, node) ELSE InsertAt(rest, Place(rest, next), node)

(* enter().append and enter().insert: the new nodes take their places in the *)
(* update selection, and insert puts each before the next one that has its.  *)
EnterNode(r, i, node, inserting) ==
  LET later == {j \in (i + 1)..Len(r.update) : r.update[j] # Empty}
      next == IF inserting /\ later # {} THEN r.update[Min(later)] ELSE Empty IN
  [r EXCEPT !.kids = InsertBefore(@, node, next), !.update[i] = node, !.fresh = @ + 1]
Enter(kids, join, fresh, inserting) ==
  FoldLeft(LAMBDA r, i : IF join.enter[i] = Empty THEN r ELSE EnterNode(r, i, r.fresh, inserting),
           [kids |-> kids, update |-> join.update, fresh |-> fresh], [i \in DOMAIN join.enter |-> i])

(* order: from the last to the first, each node before the one that follows it. *)
Order(kids, group) ==
  LET nodes == Filled(group) IN
  FoldLeft(LAMBDA ks, k : IF Place(ks, nodes[k + 1]) = Place(ks, nodes[k]) + 1 THEN ks
                          ELSE InsertBefore(ks, nodes[k], nodes[k + 1]),
           kids, [i \in 1..(Len(nodes) - 1) |-> Len(nodes) - i])

(* sort: by the data, places without a node last; and then order. *)
SortedGroup(group, datum) ==
  LET nodes == SortSeq(Filled(group), LAMBDA a, b : Key(datum[a]) < Key(datum[b])) IN
  nodes \o [i \in 1..(Len(group) - Len(nodes)) |-> Empty]
----------------------------------------------------------------------------
VARIABLES
  style,         \* how the program draws: keyed, inserting, ordering
  kids,          \* the elements in the document, in its order
  datum, shown,  \* of each element: its datum, and whether it is seen
  lock,          \* of each element: its transitions' lock, or NoLock
  queue,         \* d3.timer's queue
  wake,          \* what calls the next frame: "frame", "timeout", or "none"
  bound,         \* the update selection of the last draw
  drawn,         \* its data
  draws,         \* draws so far; transition ids are counted with it
  fresh,         \* the next new element
  interrupts, interrupted,  \* history: how often, and which elements
  overtaken      \* history: elements of a transition that waits longer than one begun later

redrawVars == <<style, kids, datum, shown, lock, queue, wake, bound, drawn, draws, fresh, interrupts, interrupted, overtaken>>

----------------------------------------------------------------------------
(* The steps of one transition, on the state r of a frame. *)
Lock(r, i) == r.lock[r.queue[i].node]
Elapsed(q) == q.age - q.delay

Stop(r, i) ==
  [r EXCEPT !.lock[r.queue[i].node] = IF @.count = 1 THEN NoLock ELSE [@ EXCEPT !.count = @ - 1],
            !.queue[i].stage = "over"]

Start(r, i) ==
  IF Lock(r, i).active > r.queue[i].id THEN Stop(r, i)
  ELSE [r EXCEPT !.lock[r.queue[i].node].active = r.queue[i].id, !.queue[i].stage = "begun"]

\* Mutant: the element goes although another transition waits for it.
EndAlways(r, i) ==
  LET q == r.queue[i]
      seen == [r EXCEPT !.shown[q.node] = q.goal] IN
  Stop(IF q.goal = "out" THEN [seen EXCEPT !.kids = RemoveFirst(@, q.node)] ELSE seen, i)

(* The event "end", with what remove() made of it. *)
End(r, i) ==
  LET q == r.queue[i]
      seen == [r EXCEPT !.shown[q.node] = q.goal] IN
  Stop(IF q.goal = "out" /\ Lock(r, i).count < 2 THEN [seen EXCEPT !.kids = RemoveFirst(@, q.node)] ELSE seen, i)

\* Mutant: a transition that was superseded does not stop.
StepOnly(r, i) ==
  LET q == r.queue[i] IN
  IF Lock(r, i).active # q.id THEN r
  ELSE IF Elapsed(q) >= Duration THEN End(r, i)
  ELSE [r EXCEPT !.shown[q.node] = "between", !.queue[i].stage = "tick"]

Step(r, i) ==
  LET q == r.queue[i] IN
  IF Lock(r, i).active # q.id THEN Stop(r, i)
  ELSE IF Elapsed(q) >= Duration THEN End(r, i)
  ELSE [r EXCEPT !.shown[q.node] = "between", !.queue[i].stage = "tick"]

(* What the timer's callback is at this stage; TRUE ends the timer. *)
Callback(r, i) ==
  LET q == r.queue[i] IN
  CASE q.stage \in {"new", "later"} ->
         IF Elapsed(q) >= 0 THEN Start(r, i) ELSE [r EXCEPT !.queue[i].stage = "later"]
    [] q.stage = "tick" -> Step(r, i)
    [] OTHER -> r

(* mark: all callbacks in turn, and behind them the timers that start() adds *)
(* for the first step; sweep: a timer that is over by then stays until the   *)
(* next mark.                                                                *)
Calls(r, is, Op(_, _)) == FoldLeft(LAMBDA s, i : CHOOSE t \in {Op(q, i) : q \in {s}} : TRUE, r, is)
Indexes(seq) == [i \in DOMAIN seq |-> i]
Mark(r) == Calls(r, Indexes(r.queue), Callback)
FirstSteps(r) == Calls(r, SelectSeq(Indexes(r.queue), LAMBDA i : r.queue[i].stage = "begun"), Step)
Now == [lock |-> lock, queue |-> queue, kids |-> kids, shown |-> shown]

DueLater(q) == q.stage = "later" /\ Elapsed(q) < 0
NextWake(qs) ==
  IF qs = <<>> THEN "none" ELSE IF \A q \in ToSet(qs) : DueLater(q) THEN "timeout" ELSE "frame"

----------------------------------------------------------------------------
(* The Renderer's way, and with insert and order, or by index and sorted. *)
Styles == {[keyed |-> TRUE, inserting |-> FALSE, ordering |-> "none"],
           [keyed |-> TRUE, inserting |-> TRUE, ordering |-> "order"],
           [keyed |-> FALSE, inserting |-> FALSE, ordering |-> "sort"]}

RedrawInit ==
  /\ kids = <<>> /\ bound = <<>> /\ queue = <<>> /\ wake = "none"
  /\ datum = [n \in 1..MaxNodes |-> Empty] /\ shown = [n \in 1..MaxNodes |-> "out"]
  /\ lock = [n \in 1..MaxNodes |-> NoLock]
  /\ style \in Styles /\ drawn = <<>>
  /\ draws = 0 /\ fresh = 1 /\ interrupts = 0 /\ interrupted = {} /\ overtaken = {}

Timer(node, id, goal, delay) ==
  [node |-> node, id |-> id, goal |-> goal, delay |-> delay, age |-> 0, stage |-> "new"]

(* transition(): every node of a selection gets a timer and a share of its lock. *)
Locked(locks, nodes) ==
  [n \in DOMAIN locks |-> IF n \notin nodes THEN locks[n]
                          ELSE IF locks[n] = NoLock THEN [active |-> 0, count |-> 1]
                          ELSE [locks[n] EXCEPT !.count = @ + 1]]

DrawnNow(e, out, in, data, delay) ==
  /\ e.fresh - 1 <= MaxNodes /\ fresh' = e.fresh
  /\ datum' = [n \in DOMAIN datum |-> IF n \in ToSet(in) THEN data[Place(e.update, n)] ELSE datum[n]]
  /\ bound' = IF style.ordering = "sort" THEN SortedGroup(e.update, datum') ELSE e.update
  /\ kids' = IF style.ordering = "none" THEN e.kids ELSE Order(e.kids, bound')
  /\ lock' = Locked(Locked(lock, ToSet(out)), ToSet(in))
  /\ queue' = queue \o [i \in DOMAIN out |-> Timer(out[i], 2 * draws + 1, "out", delay)]
                    \o [i \in DOMAIN in |-> Timer(in[i], 2 * draws + 2, "in", delay)]
  /\ wake' = IF out \o in = <<>> THEN wake ELSE "frame"
  /\ overtaken' = overtaken \cup
       {q.node : q \in {p \in ToSet(queue) : p.stage # "over" /\ p.delay > delay /\ p.node \in ToSet(in \o out)}}
  /\ drawn' = data

Redraw(data, delay) ==
  /\ draws + interrupts < MaxDraws /\ draws' = draws + 1
  /\ \E join \in {Bind(kids, datum, data, style.keyed)} :
       \E e \in {Enter(kids, join, fresh, style.inserting)} :
         DrawnNow(e, Filled(join.exit), Filled(e.update), data, delay)
  /\ UNCHANGED <<style, shown, interrupts, interrupted>>

(* interrupt(): what a gesture of the zoom behaviour does first. *)
Interrupt(n) ==
  /\ lock[n] # NoLock /\ draws + interrupts < MaxDraws
  /\ lock' = [lock EXCEPT ![n].active = @ + 1]
  /\ interrupts' = interrupts + 1 /\ interrupted' = interrupted \cup {n}
  /\ UNCHANGED <<style, kids, datum, shown, queue, wake, bound, drawn, draws, fresh, overtaken>>

Elapse ==
  /\ queue' = [i \in DOMAIN queue |-> [queue[i] EXCEPT !.age = Min({@ + 1, queue[i].delay + Duration})]]
  /\ UNCHANGED <<style, kids, datum, shown, lock, wake, bound, drawn, draws, fresh, interrupts, interrupted, overtaken>>

Frame ==
  /\ \/ wake = "frame"
     \/ wake = "timeout" /\ \E q \in ToSet(queue) : ~DueLater(q)
  /\ \E marked \in {Mark(Now)} : \E r \in {FirstSteps(marked)} :
     /\ queue' = SelectSeq([i \in DOMAIN r.queue |-> IF marked.queue[i].stage = "over" THEN NoLock ELSE r.queue[i]],
                           LAMBDA q : q # NoLock)
     /\ lock' = r.lock /\ kids' = r.kids /\ shown' = r.shown
  /\ wake' = NextWake(queue')
  /\ UNCHANGED <<style, datum, bound, drawn, draws, fresh, interrupts, interrupted, overtaken>>

RedrawNext ==
  \/ \E data \in Draws, delay \in Delays : Redraw(data, delay)
  \/ \E n \in 1..MaxNodes : Interrupt(n)
  \/ Elapse \/ Frame

RedrawSpec == RedrawInit /\ [][RedrawNext]_redrawVars
RedrawFairSpec == RedrawSpec /\ WF_redrawVars(Elapse) /\ WF_redrawVars(Frame)

----------------------------------------------------------------------------
(* Every key that was drawn last has one element in the document, with the   *)
(* datum that was drawn: no earlier transition out takes it away again.      *)
DrawnIsThere ==
  /\ \A n \in ToSet(Filled(bound)) : n \in ToSet(kids)
  /\ IsInjective(Filled(bound)) /\ IsInjective(kids)
  /\ style.keyed => \A i \in DOMAIN drawn : First(drawn, i) =>
                      \E n \in ToSet(Filled(bound)) : datum[n] = drawn[i]
  /\ ~style.keyed => Len(Filled(bound)) = Len(drawn)

(* When no transition of an element is left it is seen if it was drawn, and  *)
(* gone if it was not; unless it was interrupted, or an earlier transition   *)
(* waited longer than the one out: that one then leaves the element.         *)
SettledIsRight ==
  \A n \in ToSet(kids) \ (interrupted \cup overtaken) :
    lock[n] = NoLock => n \in ToSet(bound) /\ shown[n] = "in"

(* After order and sort the document has the elements in that order.         *)
InOrder ==
  style.ordering # "none" => \A i, j \in DOMAIN Filled(bound) :
    i < j => Place(kids, Filled(bound)[i]) < Place(kids, Filled(bound)[j])

(* A lock counts the transitions that are not over, and the queue is never   *)
(* left without a wake-up.                                                   *)
LocksCount ==
  /\ \A n \in DOMAIN lock :
       Cardinality({i \in DOMAIN queue : queue[i].node = n /\ queue[i].stage # "over"}) =
         IF lock[n] = NoLock THEN 0 ELSE lock[n].count
  /\ queue # <<>> => wake # "none"

RedrawRight == DrawnIsThere /\ SettledIsRight /\ InOrder /\ LocksCount

(* Transitions end, whatever supersedes or interrupts them.                  *)
TransitionsEnd == []<>(queue = <<>>)
=============================================================================
