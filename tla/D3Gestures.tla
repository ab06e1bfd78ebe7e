------------------------------ MODULE D3Gestures ------------------------------
(***************************************************************************)
(* d3.behavior.zoom, which dagre-d3's Renderer puts on the graph of the    *)
(* dependency page (libs/d3/d3.js): dragging, the wheel, double clicks and *)
(* touches, several of which may be going on at once, and the one view     *)
(* that all of them change.                                                *)
(*                                                                         *)
(* One coordinate stands for both.  The scale is 2^e; locations, and the   *)
(* view's offset x, count in quarters of a pixel, which are exact here.    *)
(***************************************************************************)
EXTENDS Integers, FiniteSets, SequencesExt, FiniteSetsExt

CONSTANTS
  Points, Spots, \* where the fingers and the pointer may be
  Fingers,       \* identifiers of touches, numbers; the lowest that is free is taken
  MaxScale,      \* scaleExtent is [1, 2^MaxScale]
  MaxX, MaxGestures,  \* bounds: of the view's offset, and of gestures at all
  NoTouch

VARIABLES
  x, e,          \* the view
  pointer,       \* where the pointer is
  held,          \* mousedowned: the location that the window's listeners drag, or NoTouch
  wheeling,      \* mousewheelTimer
  anchor,        \* translate0: the location the wheel zooms around, or NoTouch
  fingers,       \* on the screen, in the order they came: <<identifier, point>>
  touch,         \* what a gesture of touches is kept with, or NoTouch
  tapped,        \* touchtime is less than 500 ms ago
  nested,        \* events: how many zoomstart more than zoomend
  gestures,      \* history: gestures so far
  lost,          \* history: drags whose listeners another took
  jolted         \* history: the view changed under "mouse" or "touch" by the other

gestureVars == <<x, e, pointer, held, wheeling, anchor, fingers, touch, tapped, nested, gestures, lost, jolted>>

----------------------------------------------------------------------------
Location(p) == (4 * p - x) \div (2 ^ e)
Clamp(k) == Max({0, Min({MaxScale, k})})

(* scaleTo and translateTo: the location l comes under the point p. *)
ZoomTo(k, p, l) ==
  /\ e' = Clamp(k)
  /\ x' = 4 * p - l * 2 ^ Clamp(k)
  /\ x' \in -MaxX..MaxX
View == <<x, e>>
Jolts(other, settled) == jolted' = (jolted \cup (IF View' # View THEN {other} ELSE {})) \ settled

Begin == gestures < MaxGestures /\ gestures' = gestures + 1 /\ nested' = nested + 1
Log2(n) == CHOOSE i \in 0..n : 2 ^ i = n

----------------------------------------------------------------------------
(* The mouse.  A second button that goes down takes the window's listeners,  *)
(* and the drag of the first never ends.                                     *)
MouseDowned ==
  /\ touch = NoTouch /\ Begin
  /\ held' = Location(pointer)
  /\ lost' = IF held = NoTouch THEN lost ELSE lost + 1
  /\ jolted' = IF anchor = NoTouch THEN jolted \ {"mouse"} ELSE jolted
  /\ UNCHANGED <<View, pointer, wheeling, anchor, fingers, touch, tapped>>

MouseMoved(p) ==
  /\ p # pointer /\ pointer' = p
  /\ anchor' = NoTouch
  /\ IF held # NoTouch THEN ZoomTo(e, p, held) ELSE UNCHANGED View
  /\ Jolts("touch", {"mouse"})
  /\ UNCHANGED <<held, wheeling, fingers, touch, tapped, nested, gestures, lost>>

MouseUp ==
  /\ held # NoTouch /\ held' = NoTouch
  /\ nested' = nested - 1
  /\ UNCHANGED <<View, pointer, wheeling, anchor, fingers, touch, tapped, gestures, lost, jolted>>

MouseWheeled(n) ==
  /\ IF wheeling THEN UNCHANGED <<nested, gestures>> ELSE Begin
  /\ wheeling' = TRUE
  /\ anchor' = IF anchor = NoTouch THEN Location(pointer) ELSE anchor
  /\ ZoomTo(e + n, pointer, anchor')
  /\ Jolts("touch", IF held = NoTouch THEN {"mouse"} ELSE {})
  /\ UNCHANGED <<pointer, held, fingers, touch, tapped, lost>>

WheelTimer ==
  /\ wheeling /\ wheeling' = FALSE
  /\ nested' = nested - 1
  /\ UNCHANGED <<View, pointer, held, anchor, fingers, touch, tapped, gestures, lost, jolted>>

DblClicked(shift) ==
  /\ gestures < MaxGestures /\ gestures' = gestures + 1
  /\ ZoomTo(IF shift THEN e - 1 ELSE e + 1, pointer, Location(pointer))
  /\ Jolts("touch", {})
  /\ UNCHANGED <<pointer, held, wheeling, anchor, fingers, touch, tapped, nested, lost>>

----------------------------------------------------------------------------
(* Touches. *)
TouchIds == {t[1] : t \in ToSet(fingers)}
Apart(s, t) == IF s[2] < t[2] THEN t[2] - s[2] ELSE s[2] - t[2]

(* relocate: what the view has under the fingers, before it changes. *)
Relocated(fs) == [f \in {t[1] : t \in ToSet(fs)} |-> Location(fs[SelectInSeq(fs, LAMBDA t : t[1] = f)][2])]

(* started: a second tap of one finger within half a second zooms in at it. *)
TouchStarted(f, p) ==
  /\ f \notin TouchIds /\ \A g \in Fingers \ TouchIds : f <= g
  /\ p \notin {t[2] : t \in ToSet(fingers)}
  /\ fingers' = Append(fingers, <<f, p>>)
  /\ IF fingers = <<>> /\ tapped THEN ZoomTo(e + 1, p, Location(p)) ELSE UNCHANGED View
  /\ tapped' = (tapped \/ fingers = <<>>)
  /\ touch' = [locations |-> Relocated(fingers'), scale |-> e, lifted |-> FALSE,
               distance |-> IF fingers = <<>> THEN 0 ELSE Apart(fingers'[1], fingers'[2])]
  /\ IF touch = NoTouch THEN Begin ELSE UNCHANGED <<nested, gestures>>
  /\ Jolts("mouse", {"touch"})
  /\ UNCHANGED <<pointer, held, wheeling, anchor, lost>>

(* moved: the first two fingers scale and move the view, a single one moves it. *)
Pinch(s, t) ==
  LET wide == Apart(s, t)  from == touch.distance IN
  /\ (wide % from = 0 \/ from % wide = 0)
  /\ ZoomTo(IF wide >= from THEN touch.scale + Log2(wide \div from) ELSE touch.scale - Log2(from \div wide),
            (s[2] + t[2]) \div 2, (touch.locations[s[1]] + touch.locations[t[1]]) \div 2)

TouchMoved(f, p) ==
  /\ f \in TouchIds /\ \A t \in ToSet(fingers) : t[2] = p => t[1] = f
  /\ fingers' = [i \in DOMAIN fingers |-> IF fingers[i][1] = f THEN <<f, p>> ELSE fingers[i]]
  /\ IF Len(fingers) > 1 THEN Pinch(fingers'[1], fingers'[2])
     ELSE ZoomTo(e, p, touch.locations[f])
  /\ tapped' = FALSE
  /\ Jolts("mouse", {"touch"})
  /\ UNCHANGED <<pointer, held, wheeling, anchor, touch, nested, gestures, lost>>

\* Mutant: the fingers that stay keep their old places in the picture.
TouchEndedOnly(f) ==
  /\ f \in TouchIds
  /\ fingers' = SelectSeq(fingers, LAMBDA t : t[1] # f)
  /\ IF fingers' # <<>>
     THEN touch' = [touch EXCEPT !.scale = e, !.lifted = TRUE] /\ UNCHANGED nested
     ELSE touch' = NoTouch /\ nested' = nested - 1
  /\ jolted' = jolted \ {"touch"}
  /\ UNCHANGED <<View, pointer, held, wheeling, anchor, tapped, gestures, lost>>

(* ended: those that stay are located anew, but their distance is not. *)
TouchEnded(f) ==
  /\ f \in TouchIds
  /\ fingers' = SelectSeq(fingers, LAMBDA t : t[1] # f)
  /\ IF fingers' # <<>>
     THEN /\ touch' = [touch EXCEPT !.locations = Relocated(fingers'), !.scale = e, !.lifted = TRUE]
          /\ UNCHANGED nested
     ELSE touch' = NoTouch /\ nested' = nested - 1
  /\ jolted' = jolted \ {"touch"}
  /\ UNCHANGED <<View, pointer, held, wheeling, anchor, tapped, gestures, lost>>

TapTimer ==
  /\ tapped /\ tapped' = FALSE
  /\ UNCHANGED <<View, pointer, held, wheeling, anchor, fingers, touch, nested, gestures, lost, jolted>>

----------------------------------------------------------------------------
GestureInit ==
  /\ x = 0 /\ e = 0 /\ pointer \in Spots
  /\ held = NoTouch /\ wheeling = FALSE /\ anchor = NoTouch
  /\ fingers = <<>> /\ touch = NoTouch /\ tapped = FALSE
  /\ nested = 0 /\ gestures = 0 /\ lost = 0 /\ jolted = {}

GestureNext ==
  \/ MouseDowned \/ MouseUp \/ WheelTimer \/ TapTimer
  \/ \E p \in Spots : MouseMoved(p)
  \/ \E n \in {-1, 1} : MouseWheeled(n)
  \/ \E shift \in BOOLEAN : DblClicked(shift)
  \/ \E f \in Fingers, p \in Points : TouchStarted(f, p) \/ TouchMoved(f, p)
  \/ \E f \in Fingers : TouchEnded(f)

GestureSpec == GestureInit /\ [][GestureNext]_gestureVars

----------------------------------------------------------------------------
(* What the pointer drags, or zooms around, is under it, unless a touch      *)
(* moved the view since: the next turn of the wheel then jumps.              *)
PointerHolds ==
  "mouse" \notin jolted =>
    /\ held # NoTouch => Location(pointer) = held
    /\ anchor # NoTouch => Location(pointer) = anchor

(* What one finger touched is under it, and what two touched is under both,  *)
(* within the limits of the scale and until they cross; unless the mouse     *)
(* moved the view, or one of three was lifted: then the scale may jump.      *)
FingersHold ==
  touch # NoTouch /\ "touch" \notin jolted =>
    LET under == touch.locations
        first == fingers[1] IN
    IF Len(fingers) = 1 THEN Location(first[2]) = under[first[1]]
    ELSE LET second == fingers[2] IN
         /\ Location((first[2] + second[2]) \div 2) = (under[first[1]] + under[second[1]]) \div 2
         /\ \/ touch.lifted \/ e \in {0, MaxScale}
            \/ (first[2] < second[2]) # (under[first[1]] < under[second[1]])
            \/ \A t \in {first, second} : Location(t[2]) = under[t[1]]

(* Every gesture that started and did not end is going on, but for the drags *)
(* of a second button.                                                       *)
EventsPaired ==
  nested = lost + (IF held = NoTouch THEN 0 ELSE 1) + (IF wheeling THEN 1 ELSE 0) + (IF touch = NoTouch THEN 0 ELSE 1)

GesturesHold == PointerHolds /\ FingersHold /\ EventsPaired
=============================================================================
