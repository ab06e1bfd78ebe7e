------------------------------- MODULE D3Drags -------------------------------
(***************************************************************************)
(* What is dragged in d3 (libs/d3/d3.js): the extent of d3.svg.brush, and  *)
(* the nodes that a force layout moves.                                    *)
(*                                                                         *)
(* The brush is an extent on a scale that the mouse draws, resizes and     *)
(* drags, that the program sets, and that a transition may carry from its  *)
(* old place to its new one.  One axis stands for both; its scale is       *)
(* mirrored, like that of a vertical axis, and clamps.  Positions count in *)
(* quarters, so that halves are exact.                                     *)
(***************************************************************************)
EXTENDS Integers, FiniteSets, FiniteSetsExt

CONSTANTS
  Length,          \* of the scale's range, which begins at 0
  Stops,          \* where the pointer goes, also beside the range
  Domains,         \* what brush.extent is called with, pairs of numbers
  MaxBrushings, MaxCalls, MaxInputs,   \* bounds: brushings, calls, and moves and
                   \* presses of the space bar during brushings
  Unset

(* What is kept: of the extent for a transition, of a gesture, of a         *)
(* transition that waits or runs.                                           *)
References == 1..5
Keeps  == [x : References, i : Domains \cup {Unset}]
Grips  == [dragging : 0 .. 2, origin : Int, offset : Int, middle : Int \cup {Unset}]
Glides == [stage : {"pending", "running"}, from : Keeps, to : Keeps,
           a : Int \X Int, b : Int \X Int, c : References]

ASSUME BrushAssumption ==
  /\ Length \in Nat /\ Stops \subseteq Int
  /\ Domains \subseteq (0 .. Length) \X (0 .. Length)
  /\ MaxBrushings \in Nat /\ MaxCalls \in Nat /\ MaxInputs \in Nat
  /\ Unset \notin Domains /\ Unset \notin Keeps /\ Unset \notin Grips /\ Unset \notin Glides

VARIABLES
  arrays,      \* the arrays of two numbers that can be reached, by reference
  extent,      \* xExtent, a reference
  domain,      \* xExtentDomain, or Unset
  chart,       \* __chart__ of the element: [x, i], or Unset
  glide,       \* the transition of brush.event, or Unset
  gesture,     \* what the window's listeners keep, or Unset
  handles,     \* whether the resize handles are displayed
  brushings, calls, inputs,   \* history: how many
  open,        \* history: how many brushstart more than brushend
  cut,         \* history: transitions that a gesture interrupted
  undrawn,     \* history: the extent changed and was not drawn
  meddled,     \* history: a gesture went on from numbers that are not the extent's,
               \* since the program set that; and what came of it is still kept
  stray,       \* history: the origin is where an end was before the last move
  outrun    \* history: others changed the extent while a transition waited or ran

brushVars == <<arrays, extent, domain, chart, glide, gesture, handles, brushings, calls,
               inputs, open, cut, undrawn, meddled, stray, outrun>>

Scale(d) == Length - d
Sorted(a, b) == IF b < a THEN <<b, a>> ELSE <<a, b>>
Clamped(low, high, p) == Max({low, Min({high, p})})

Ends == arrays[extent]
EmptyExtent == Ends[1] = Ends[2]

(* A new array, where nothing that is kept refers to. *)
Kept == {extent} \cup (IF chart = Unset THEN {} ELSE {chart.x})
          \cup (IF glide = Unset THEN {} ELSE {glide.from.x, glide.to.x, glide.c})
Fresh == CHOOSE r \in References : r \notin Kept
New(value) == /\ extent' = Fresh
              /\ arrays' = [r \in References |-> IF r = Fresh THEN value ELSE IF r \in Kept THEN arrays[r] ELSE <<0, 0>>]

BrushInit ==
  /\ arrays = [r \in References |-> <<0, 0>>] /\ extent = 1 /\ domain = Unset
  /\ chart = Unset /\ glide = Unset /\ gesture = Unset /\ handles = FALSE
  /\ brushings = 0 /\ calls = 0 /\ inputs = 0 /\ open = 0 /\ cut = 0
  /\ undrawn = FALSE /\ meddled = FALSE /\ stray = FALSE /\ outrun = FALSE

Histories == <<brushings, calls, inputs, open, cut, undrawn, meddled, stray, outrun>>

----------------------------------------------------------------------------
(* brushmove and move1, for a gesture g on the ends e. *)
Aimed(g, e, p, alt) ==
  LET middle == IF g.middle = Unset THEN e[1] + e[2] ELSE g.middle IN
  IF g.dragging # 0 THEN g
  ELSE IF alt THEN [g EXCEPT !.middle = middle, !.origin = IF 2 * p < middle THEN e[2] ELSE e[1]]
  ELSE [g EXCEPT !.middle = Unset]

MovedTo(g, e, p) ==
  LET size == e[2] - e[1]
      dragged == g.origin + Clamped(-g.origin, Length - size - g.origin, p)
      end == Clamped(0, Length, p)
      other == IF g.middle = Unset THEN g.origin ELSE Clamped(0, Length, g.middle - end)
  IN IF g.dragging # 0 THEN <<dragged, dragged + size>> ELSE Sorted(end, other)

(* The array is changed in place, whoever else refers to it. *)
BrushMove(g, p, alt) ==
  \E aimed \in {Aimed(g, Ends, p + g.offset, alt)} : \E e \in {MovedTo(aimed, Ends, p + g.offset)} :
    /\ gesture' = aimed
    /\ arrays' = [arrays EXCEPT ![extent] = e]
    /\ domain' = IF e = Ends THEN domain ELSE Unset
    /\ stray' = IF g.dragging # 0 THEN stray ELSE alt
    /\ outrun' = (outrun \/ (e # Ends /\ glide # Unset))

BrushStart(part, p, alt) ==
  LET grip(d, o, off, m) == [dragging |-> d, origin |-> o, offset |-> off, middle |-> m] IN
  /\ gesture = Unset /\ brushings < MaxBrushings
  /\ handles \/ part \notin {"e", "w"}
  /\ part = "background" => p \in 0 .. Length   \* it covers the range
  /\ BrushMove(CASE part = "extent" -> grip(1, Ends[1] - p, 0, Unset)
                 [] part = "e" -> grip(0, Ends[1], Ends[2] - p, Unset)
                 [] part = "w" -> grip(0, Ends[2], Ends[1] - p, Unset)
                 [] part = "background" -> grip(0, p, 0, IF alt THEN 2 * p ELSE Unset),
               p, alt)
  /\ brushings' = brushings + 1 /\ open' = open + 1 /\ handles' = TRUE
  /\ IF glide # Unset /\ glide.stage = "running"
       THEN glide' = Unset /\ cut' = cut + 1
       ELSE UNCHANGED <<glide, cut>>
  /\ UNCHANGED <<extent, chart, calls, inputs, undrawn, meddled>>

Move(p, alt) ==
  /\ gesture # Unset /\ BrushMove(gesture, p, alt)
  /\ inputs < MaxInputs /\ inputs' = inputs + 1
  /\ UNCHANGED <<extent, chart, glide, handles, brushings, calls, open, cut, undrawn, meddled>>

SpaceDown ==
  /\ gesture # Unset /\ gesture.dragging = 0
  /\ inputs < MaxInputs /\ inputs' = inputs + 1
  /\ gesture' = [gesture EXCEPT !.middle = Unset, !.origin = @ - Ends[2], !.dragging = 2]
  /\ meddled' = (meddled \/ stray)
  /\ UNCHANGED <<arrays, extent, domain, chart, glide, handles, brushings, calls, open, cut,
                 undrawn, stray, outrun>>

SpaceUp ==
  /\ gesture # Unset /\ gesture.dragging = 2
  /\ gesture' = [gesture EXCEPT !.origin = @ + Ends[2], !.dragging = 0]
  /\ UNCHANGED <<arrays, extent, domain, chart, glide, handles, Histories>>

BrushEnd(p, alt) ==
  /\ gesture # Unset
  /\ \E aimed \in {Aimed(gesture, Ends, p + gesture.offset, alt)} :
     \E e \in {MovedTo(aimed, Ends, p + gesture.offset)} :
       /\ arrays' = [arrays EXCEPT ![extent] = e]
       /\ domain' = IF e = Ends THEN domain ELSE Unset
       /\ outrun' = (outrun \/ (e # Ends /\ glide # Unset))
       /\ handles' = (e[1] # e[2])
  /\ gesture' = Unset /\ open' = open - 1
  /\ stray' = FALSE /\ undrawn' = FALSE
  /\ UNCHANGED <<extent, chart, glide, brushings, calls, inputs, cut, meddled>>

----------------------------------------------------------------------------
(* The program: brush.extent(z), brush.clear() and brush(g). *)
SetExtent(z) ==
  LET e == Sorted(Scale(z[1]), Scale(z[2])) IN
  /\ calls < MaxCalls /\ calls' = calls + 1
  /\ domain' = z
  /\ IF e = Ends THEN UNCHANGED <<arrays, extent>> ELSE New(e)
  /\ undrawn' = TRUE /\ meddled' = (gesture # Unset \/ (meddled /\ {glide, chart} # {Unset})) /\ outrun' = (glide # Unset)
  /\ UNCHANGED <<chart, glide, gesture, handles, brushings, inputs, open, cut, stray>>

ClearBrush ==
  /\ calls < MaxCalls /\ calls' = calls + 1
  /\ IF EmptyExtent THEN UNCHANGED <<arrays, extent, domain, meddled>>
     ELSE /\ New(<<0, 0>>) /\ domain' = Unset
          /\ meddled' = (gesture # Unset \/ (meddled /\ {glide, chart} # {Unset}))
  /\ undrawn' = TRUE /\ outrun' = (outrun \/ glide # Unset)
  /\ UNCHANGED <<chart, glide, gesture, handles, brushings, inputs, open, cut, stray>>

RedrawBrush ==
  /\ undrawn /\ undrawn' = FALSE /\ handles' = ~EmptyExtent
  /\ UNCHANGED <<arrays, extent, domain, chart, glide, gesture, brushings, calls, inputs, open, cut,
                 meddled, stray, outrun>>

(* brush.event: the three events at once, or with the transition's steps.   *)
(* What it keeps of the extent are references, not copies.                  *)
BrushEvent(eased) ==
  LET extent1 == [x |-> extent, i |-> domain]
      extent0 == IF chart = Unset THEN extent1 ELSE chart
  IN /\ chart' = extent1
     /\ glide' = IF eased THEN [stage |-> "pending", from |-> extent0, to |-> extent1,
                                a |-> <<0, 0>>, b |-> <<0, 0>>, c |-> extent] ELSE glide
     /\ glide = Unset /\ calls < MaxCalls /\ calls' = calls + 1
     /\ UNCHANGED <<arrays, extent, domain, gesture, handles, brushings, inputs, open, cut, undrawn,
                    meddled, stray, outrun>>

GlideStart ==
  /\ glide # Unset /\ glide.stage = "pending"
  /\ extent' = glide.from.x /\ domain' = Unset
  /\ LET c == Fresh IN
     glide' = [glide EXCEPT !.stage = "running", !.a = arrays[glide.from.x], !.b = arrays[glide.to.x],
                            !.c = c]
  /\ open' = open + 1 /\ undrawn' = TRUE /\ meddled' = (meddled \/ gesture # Unset)
  /\ UNCHANGED <<arrays, chart, gesture, handles, brushings, calls, inputs, cut, stray, outrun>>

(* The extent and what __chart__ keeps of it become the array that the      *)
(* interpolation fills.                                                     *)
Interpolated(e) ==
  /\ arrays' = [arrays EXCEPT ![glide.c] = e] /\ extent' = glide.c
  /\ chart' = [chart EXCEPT !.x = glide.c]

GlideTick ==
  /\ glide # Unset /\ glide.stage = "running"
  /\ Interpolated([k \in 1..2 |-> (glide.a[k] + glide.b[k]) \div 2])
  /\ glide' = [glide EXCEPT !.to.x = glide.c]
  /\ undrawn' = TRUE /\ meddled' = (meddled \/ gesture # Unset)
  /\ UNCHANGED <<domain, gesture, handles, brushings, calls, inputs, open, cut, stray, outrun>>

GlideEnd ==
  /\ glide # Unset /\ glide.stage = "running"
  /\ Interpolated(glide.b) /\ domain' = glide.to.i
  /\ glide' = Unset /\ open' = open - 1
  /\ undrawn' = TRUE /\ meddled' = (meddled \/ gesture # Unset)
  /\ UNCHANGED <<gesture, handles, brushings, calls, inputs, cut, stray, outrun>>

BrushNext ==
  \/ \E part \in {"background", "extent", "e", "w"}, p \in Stops, alt \in BOOLEAN : BrushStart(part, p, alt)
  \/ \E p \in Stops, alt \in BOOLEAN : Move(p, alt)
  \/ \E p \in Stops, alt \in BOOLEAN : BrushEnd(p, alt)
  \/ SpaceDown \/ SpaceUp
  \/ \E z \in Domains : SetExtent(z)
  \/ ClearBrush \/ RedrawBrush
  \/ \E eased \in BOOLEAN : BrushEvent(eased)
  \/ GlideStart \/ GlideTick \/ GlideEnd

BrushSpec == BrushInit /\ [][BrushNext]_brushVars

----------------------------------------------------------------------------
(* Neither drawing, dragging nor the keys turn the extent around or carry   *)
(* it out of the range, unless the program sets it while they go on, or the *)
(* space bar goes down and up after a move with the alt key, whose origin   *)
(* is not an end any more.                                                  *)
ExtentInRange == meddled \/ (0 <= Ends[1] /\ Ends[1] <= Ends[2] /\ Ends[2] <= Length)

(* The end that was not taken hold of stays where it is, also after the     *)
(* space bar moved the whole; with the alt key it lags by a move.           *)
OtherEndStays ==
  gesture # Unset /\ ~stray /\ ~meddled =>
    CASE gesture.dragging = 0 -> gesture.origin \in {Ends[1], Ends[2]}
      [] gesture.dragging = 2 -> gesture.origin \in {0, Ends[1] - Ends[2]}
      [] gesture.dragging = 1 -> TRUE

(* What brush.extent() answers is what is shown: numbers that were given    *)
(* are forgotten as soon as the extent is another, unless a transition was  *)
(* on its way: a gesture then changes the array that it goes to, or the     *)
(* next step of it the extent that the program gave.                        *)
DomainIsOfExtent ==
  domain # Unset /\ ~outrun => Sorted(Scale(domain[1]), Scale(domain[2])) = Ends

(* Every brushstart gets its brushend, but for interrupted transitions. *)
BrushEventsPaired ==
  open = cut + (IF gesture = Unset THEN 0 ELSE 1)
             + (IF glide # Unset /\ glide.stage = "running" THEN 1 ELSE 0)

(* The handles to resize with are there when there is something to resize. *)
HandlesMatch == gesture = Unset /\ ~undrawn => (handles <=> ~EmptyExtent)

(* An extent that is moved by hand, by program and by transition is what    *)
(* each of them left it.                                                    *)
BrushKeepsExtent == ExtentInRange /\ OtherEndStays /\ DomainIsOfExtent /\ BrushEventsPaired /\ HandlesMatch

-----------------------------------------------------------------------------
(* d3.behavior.drag with a mouse and fingers, the bits of a node's `fixed`, *)
(* and the timer of the force layout, which cools down and is heated again. *)
(* alpha counts the ticks that are left.  Where the nodes are is left out.  *)
CONSTANTS
  Bodies,        \* the nodes
  Mouse,         \* how a drag by the mouse is named, "drag"; one by a finger
  Touches,       \* has the finger's identifier in its name: these are
  NoBody,
  Heat,          \* the ticks that resume gives
  MaxDrags, MaxStops   \* bounds: drags, and calls of stop

ASSUME DragAssumption ==
  /\ NoBody \notin Bodies /\ Mouse \notin Touches
  /\ Heat \in Nat \ {0} /\ MaxDrags \in Nat /\ MaxStops \in Nat

VARIABLES
  fixed,         \* of each node: "drag" and "over" for the bits 2 and 4
  alpha,
  ticking,       \* how often d3.timer has force.tick in its queue
  running,       \* how many "start" more than "end"
  drags,         \* drags under way, [name, node, select, at]: what the window
                 \* listens for, the style that is put back, and which drag it was
  select,        \* whether text of the page can be selected, in a browser that
                 \* has a style for it and no event
  on,            \* the node under the mouse
  down,          \* the fingers on the screen
  begun, stops,  \* history: how many drags and stops
  forsaken,      \* history: nodes whose drag lost its listeners to another
  parted,        \* history: nodes of which one drag ended and another went on
  mixed          \* history: two drags were under way at once

forceVars == <<fixed, alpha, ticking, running, drags, select, on, down, begun, stops,
               forsaken, parted, mixed>>

ForceInit ==
  /\ fixed = [n \in Bodies |-> {}]
  /\ alpha = Heat /\ ticking = 1 /\ running = 1   \* force.start
  /\ drags = {} /\ select = TRUE /\ on = NoBody /\ down = {}
  /\ begun = 0 /\ stops = 0 /\ forsaken = {} /\ parted = {} /\ mixed = FALSE
-----------------------------------------------------------------------------
(* force.alpha with a number greater than 0, as resume calls it. *)
Resume ==
  /\ alpha' = Heat
  /\ ticking' = IF alpha = 0 THEN ticking + 1 ELSE ticking
  /\ running' = IF alpha = 0 THEN running + 1 ELSE running

layoutState == <<alpha, ticking, running>>
dragState == <<drags, select, begun, forsaken, parted, mixed>>

StopForce ==
  /\ stops < MaxStops
  /\ alpha' = 0 /\ stops' = stops + 1
  /\ UNCHANGED <<fixed, ticking, running, on, down, dragState>>

(* A frame calls force.tick for each place it has in the queue; a call that *)
(* finds the layout cold says so and leaves the queue.                      *)
Tick ==
  /\ ticking > 0
  /\ LET hot == IF alpha > ticking THEN ticking ELSE IF alpha = 0 THEN 0 ELSE alpha - 1
     IN /\ alpha' = IF hot = ticking THEN alpha - ticking ELSE 0
        /\ ticking' = hot /\ running' = running - (ticking - hot)
  /\ UNCHANGED <<fixed, on, down, stops, dragState>>

Hearing(names) == {d \in drags : d.name \in names}

(* dragstart: the listeners of a drag of the same name are replaced, and    *)
(* dragSuppress keeps the style that it finds.                              *)
DragStart(name, n) ==
  /\ begun < MaxDrags
  /\ begun' = begun + 1
  /\ drags' = (drags \ Hearing({name})) \cup {[name |-> name, node |-> n, select |-> select, at |-> begun]}
  /\ select' = FALSE
  /\ fixed' = [fixed EXCEPT ![n] = @ \cup {"drag"}]
  /\ forsaken' = forsaken \cup {d.node : d \in Hearing({name})}
  /\ mixed' = (mixed \/ drags # {})
  /\ UNCHANGED <<parted, stops, layoutState>>

MouseDown == on # NoBody /\ DragStart(Mouse, on) /\ UNCHANGED <<on, down>>
TouchStart(f, n) == f \in Touches \ down /\ DragStart(f, n) /\ down' = down \cup {f} /\ UNCHANGED on

(* dragmove, of every drag that hears the event. *)
DragMove(names) ==
  /\ Hearing(names) # {}
  /\ Resume
  /\ UNCHANGED <<fixed, on, down, stops, dragState>>

\* Mutant: the drag that ends does not put back what it found.
DragsEndOnly(names) ==
  LET nodes == {d.node : d \in Hearing(names)}
  IN /\ drags' = drags \ Hearing(names)
     /\ fixed' = [n \in Bodies |-> IF n \in nodes THEN fixed[n] \ {"drag", "over"} ELSE fixed[n]]
     /\ parted' = parted \cup (nodes \cap {d.node : d \in drags'})
     /\ UNCHANGED <<select, begun, forsaken, mixed, stops, layoutState>>

(* ended, of the drags that hear the event, in the order they began: each   *)
(* puts the style back that it found, so that the last one's stays.         *)
(* Swallowing the click that follows is left out.                           *)
DragsEnd(names) ==
  LET ending == Hearing(names)
      nodes == {d.node : d \in ending}
  IN /\ drags' = drags \ ending
     /\ select' = IF ending = {} THEN select
                  ELSE (CHOOSE d \in ending : \A other \in ending : other.at <= d.at).select
     /\ fixed' = [n \in Bodies |-> IF n \in nodes THEN fixed[n] \ {"drag", "over"} ELSE fixed[n]]
     /\ parted' = parted \cup (nodes \cap {d.node : d \in drags'})
     /\ UNCHANGED <<begun, forsaken, mixed, stops, layoutState>>

DragMouseUp == DragsEnd({Mouse}) /\ drags' # drags /\ UNCHANGED <<on, down>>

(* Every finger's drag listens for the end of any touch; one that began     *)
(* beside the nodes drags nothing.                                          *)
TouchBeside(f) ==
  /\ f \in Touches \ down /\ down' = down \cup {f}
  /\ UNCHANGED <<fixed, on, stops, layoutState, dragState>>
TouchEnd(f) == f \in down /\ DragsEnd(Touches) /\ down' = down \ {f} /\ UNCHANGED on

(* mouseover and mouseout of force.drag. *)
MouseOver(n) ==
  /\ on = NoBody /\ on' = n
  /\ fixed' = [fixed EXCEPT ![n] = @ \cup {"over"}]
  /\ UNCHANGED <<down, stops, layoutState, dragState>>
MouseOut ==
  /\ on # NoBody /\ on' = NoBody
  /\ fixed' = [fixed EXCEPT ![on] = @ \ {"over"}]
  /\ UNCHANGED <<down, stops, layoutState, dragState>>

ForceNext ==
  \/ (alpha < Heat /\ Resume /\ UNCHANGED <<fixed, on, down, stops, dragState>>)
  \/ StopForce \/ Tick
  \/ MouseDown \/ DragMouseUp \/ MouseOut \/ \E n \in Bodies : MouseOver(n)
  \/ DragMove({Mouse}) \/ DragMove(Touches)
  \/ \E f \in Touches : TouchBeside(f) \/ TouchEnd(f) \/ \E n \in Bodies : TouchStart(f, n)

ForceSpec == ForceInit /\ [][ForceNext]_forceVars
-----------------------------------------------------------------------------
(* The layout says "start" and "end" in turn, once for each place of its    *)
(* tick in the timers' queue, and is there as long as it is hot; it has     *)
(* more than one place only after a stop that the next frame did not see.   *)
TicksOnce == running = ticking /\ (alpha > 0 => ticking > 0) /\ ticking <= 1 + stops

(* A node that is dragged is held, unless another drag of it has ended; and *)
(* it is let go of when its drag ends, unless that lost its listeners to    *)
(* another button.  What the mouse held it keeps only until a drag ends.    *)
DragsHold ==
  /\ \A n \in Bodies :
       /\ "drag" \in fixed[n] => n \in forsaken \/ \E d \in drags : d.node = n
       /\ (\E d \in drags : d.node = n) => "drag" \in fixed[n] \/ n \in parted
       /\ "over" \in fixed[n] => on = n
  /\ \A d \in drags : d.name = Mouse \/ d.name \in down

(* Text cannot be selected during a drag, and can be afterwards, unless two *)
(* drags were under way at once.                                            *)
SelectionReturns == ~mixed => select = (drags = {})

ForceHolds == TicksOnce /\ DragsHold /\ SelectionReturns

(* d3: what a drag of a node and what the brush hold stays in their hands.  *)
GesturesRight == BrushKeepsExtent /\ ForceHolds
=============================================================================
