------------------------------ MODULE TracePage ------------------------------
(***************************************************************************)
(* The scripts of the page that shows one trace: component_ui/trace.js     *)
(* with the service labels, the Expand All / Collapse All buttons, the     *)
(* filter search, the span panel, the full page spinner and the zoom       *)
(* button.  They talk through events triggered on the document; a trigger  *)
(* runs every listener before it returns, so a click is one step.  What    *)
(* showSpinnerAround wraps is the exception: it runs 100 ms later, after   *)
(* whatever the user did meanwhile, the spinner covers only the top of a   *)
(* scrolled page.                                                          *)
(***************************************************************************)
EXTENDS Integers, Sequences, FiniteSets

CONSTANTS
  Spans,         \* the span elements of #trace-container
  Parent,        \* data-parent-id of each span, NoSpan for a root
  ServiceNames,  \* the set in data-service-names of each span
  First,         \* the first span of the page
  OtherService,  \* a serviceName of the URL that no span has
  NoSpan, NoService,
  Start, End,    \* the time each span starts and ends
  Whole,         \* <<from, to>> of the whole trace
  Ranges,        \* the <<from, to>> a user may select
  MaxActs      \* bound: the user's actions in a behaviour

(* Every span is drawn after its parent; its services are not OtherService. *)
ASSUME TraceAssumption ==
  /\ IsFiniteSet(Spans) /\ NoSpan \notin Spans
  /\ Parent \in [Spans -> Spans \cup {NoSpan}]
  /\ First \in Spans
  /\ NoService # OtherService
  /\ \A s \in Spans : {OtherService, NoService} \cap ServiceNames[s] = {}
  /\ \A s \in Spans : IsFiniteSet(ServiceNames[s])
  /\ MaxActs \in Nat

(* A selection is not empty (trace.js:208).  One that is exactly the whole  *)
(* trace is left out: its labels say what those of no selection say.        *)
ASSUME RangeAssumption ==
  /\ \A s \in Spans : Start[s] \in Nat /\ End[s] \in Nat /\ Start[s] <= End[s]
  /\ Whole \notin Ranges
  /\ \A r \in Ranges : r[1] \in Nat /\ r[2] \in Nat /\ r[1] < r[2]

VARIABLES
  span,         \* spans[id]: its counters, and how its element looks
  looked,       \* services whose spansByService entry was turned into elements
  actingOnAll,
  timers,       \* callbacks of showSpinnerAround that wait, oldest first
  requests,     \* fullPageSpinner.requests
  all,          \* filterAllServices: filtered, count, the two buttons' class
  tagged,       \* services whose label has the class service-tag-filtered
  zoom,         \* time labels, bars, and the zoom-out button
  mouse,        \* handlers bound on the container, the selection rectangle
  panel,        \* the span whose details are shown
  url,          \* the URL's serviceName
  acts,       \* the user's actions so far
  tidy,         \* history: only first additions and removals of filters so far
  jumped        \* history: a zoom callback ran before an older one

spanVars  == <<span, looked, actingOnAll>>
zoomVars  == <<zoom, mouse, jumped>>
traceVars == <<spanVars, timers, requests, all, tagged, zoomVars, panel, url, acts, tidy>>

SpanServices == UNION {ServiceNames[s] : s \in Spans}
FilterNames    == SpanServices \cup {OtherService}
-----------------------------------------------------------------------------
(* setupSpan *)
Children(s) == {c \in Spans : Parent[c] = s}
Parents[s \in Spans] ==
  IF Parent[s] = NoSpan THEN {} ELSE {Parent[s]} \cup Parents[Parent[s]]
Descendants(s) == {t \in Spans : s \in Parents[t]}
SpansOf(svc) == {s \in Spans : svc \in ServiceNames[s]}

(* getSpansByService: one id is found by getElementById; '#a,#b' also finds *)
(* the elements of the same ids in #trace-container-backup, each span twice *)
Times(svc) == IF Cardinality(SpansOf(svc)) = 1 THEN 1 ELSE 2

(* The keys of spansByService: a name that was looked up in vain is one too *)
Keys == SpanServices \cup looked
-----------------------------------------------------------------------------
Wanted(x) == x.inFilters > 0 \/ x.openChildren > 0 \/ x.openParents > 0

(* How often a list holding each span of sel `times` times touches s *)
Touched(sel, times, s)      == IF s \in sel THEN times ELSE 0
ParentTouched(sel, times, s) == IF Parent[s] \in sel THEN times ELSE 0
BelowTouched(sel, times, s) == times * Cardinality(Descendants(s) \cap sel)

(* expandSpans: a span whose inFilters passes through 0 is highlighted *)
Expand(sp, sel, times) ==
  [s \in Spans |->
    LET from   == sp[s].inFilters
        passed == s \in sel /\ 0 \in from .. (from + times - 1)
    IN [inFilters    |-> from + Touched(sel, times, s),
        openChildren |-> sp[s].openChildren + BelowTouched(sel, times, s),
        openParents  |-> sp[s].openParents + ParentTouched(sel, times, s),
        expanded     |-> sp[s].expanded \/ s \in sel,
        highlight    |-> sp[s].highlight \/ passed,
        shown        |-> \/ sp[s].shown \/ passed
                         \/ Parent[s] \in sel \/ Descendants(s) \cap sel # {}]]

(* collapseSpans with hideSpan.  Counters only go down, so a span hideSpan  *)
(* keeps while the list is walked and would hide at its end is in toHide.   *)
Collapse(sp, sel, times, childrenOnly) ==
  [s \in Spans |->
    LET to     == sp[s].inFilters - Touched(sel, times, s)
        passed == ~childrenOnly /\ s \in sel /\ 0 \in to .. (to + times - 1)
        toHide == Parent[s] \in sel \/ (~childrenOnly /\ Descendants(s) \cap sel # {})
        x == [inFilters    |-> to,
              openChildren |-> IF childrenOnly THEN sp[s].openChildren
                               ELSE sp[s].openChildren - BelowTouched(sel, times, s),
              openParents  |-> sp[s].openParents - ParentTouched(sel, times, s),
              expanded     |-> sp[s].expanded /\ s \notin sel,
              highlight    |-> sp[s].highlight /\ ~passed,
              shown        |-> sp[s].shown]
    IN [x EXCEPT !.shown = @ /\ ~((passed \/ toHide) /\ ~Wanted(x))]]

(* toggleExpander *)
Toggle(sp, s) ==
  IF sp[s].expanded THEN Collapse(sp, {s}, 1, TRUE) ELSE Expand(sp, {s}, 1)

(* the loops of expandAllSpans and collapseAllSpans over all spans *)
ExpandEvery(sp) ==
  [s \in Spans |->
    [inFilters    |-> 0,
     openChildren |-> sp[s].openChildren + Cardinality(Descendants(s)),
     openParents  |-> sp[s].openParents + (IF Parent[s] \in Spans THEN 1 ELSE 0),
     expanded |-> TRUE, highlight |-> TRUE, shown |-> TRUE]]

(* Mutant: collapsing every span forgets to reset its counters. *)
CountersSurvive(sp) ==
  [s \in Spans |-> [sp[s] EXCEPT !.expanded = FALSE, !.highlight = FALSE,
                                 !.shown = @ /\ Parent[s] = NoSpan]]

CollapseEvery(sp) ==
  [s \in Spans |->
    [inFilters |-> 0, openChildren |-> 0, openParents |-> 0,
     expanded |-> FALSE, highlight |-> FALSE,
     shown |-> sp[s].shown /\ Parent[s] = NoSpan]]
-----------------------------------------------------------------------------
(* filterAllServices: the listeners called once for each name of `names` *)
Total == Cardinality(SpanServices)

AllAdded(a, names) ==
  LET new   == names \ a.filtered
      steps == (a.count + 1) .. (a.count + Cardinality(new))
  IN [filtered       |-> a.filtered \cup new,
      count          |-> a.count + Cardinality(new),
      expandActive   |-> a.expandActive \/ Total \in steps,
      collapseActive |-> a.collapseActive /\ steps \subseteq {Total}]

AllRemoved(a, names) ==
  LET gone  == names \cap a.filtered
      steps == (a.count - Cardinality(gone)) .. (a.count - 1)
  IN [filtered       |-> a.filtered \ gone,
      count          |-> a.count - Cardinality(gone),
      expandActive   |-> a.expandActive /\ steps \subseteq {0},
      collapseActive |-> a.collapseActive \/ 0 \in steps]

(* uiAddServiceNameFilter and uiRemoveServiceNameFilter as the labels and   *)
(* the buttons hear them                                                    *)
TagAdded(names) ==
  /\ tagged' = tagged \cup (names \cap SpanServices)
  /\ all' = AllAdded(all, names)

TagRemoved(names) ==
  /\ tagged' = tagged \ names
  /\ all' = AllRemoved(all, names)

(* showSpinnerAround, while nothing acts on all spans: show the spinner and *)
(* put the callbacks off                                                    *)
Delay(cbs) ==
  /\ timers' = timers \o cbs
  /\ requests' = requests + Len(cbs)

FilterTimer(kind, svc) == [kind |-> kind, arg |-> svc]
ZoomTimer(t) == t.kind = "zoom"

(* The same events as trace.js hears them: filterAdded and filterRemoved     *)
(* are called at once, and return at once, while actingOnAll is set         *)
FilterEvent(kind, svc) ==
  IF actingOnAll THEN UNCHANGED <<timers, requests>>
                 ELSE Delay(<<FilterTimer(kind, svc)>>)
-----------------------------------------------------------------------------
Act == acts < MaxActs /\ acts' = acts + 1

(* a mouse press and release on the container that stays on its spot: the   *)
(* release runs and unbinds every pending mouseup handler                   *)
PlainClick == mouse' = [mouse EXCEPT !.ups = 0, !.rect = "off"]

\* Mutant: the label triggers the event of the state it is going to have.
ClickLabelLate(svc) ==
  /\ Act
  /\ IF svc \in tagged THEN FilterEvent("add", svc) /\ TagRemoved({svc})
                       ELSE FilterEvent("remove", svc) /\ TagAdded({svc})
  /\ UNCHANGED <<spanVars, zoomVars, panel, url, tidy>>

(* filterLabel.toggleFilter *)
ClickLabel(svc) ==
  /\ Act
  /\ IF svc \in tagged THEN FilterEvent("remove", svc) /\ TagRemoved({svc})
                       ELSE FilterEvent("add", svc) /\ TagAdded({svc})
  /\ UNCHANGED <<spanVars, zoomVars, panel, url, tidy>>

(* serviceFilterSearch.onChange *)
Search(svc) ==
  /\ Act
  /\ FilterEvent("add", svc) /\ TagAdded({svc})
  /\ tidy' = (tidy /\ svc \notin all.filtered)
  /\ UNCHANGED <<spanVars, zoomVars, panel, url>>

(* expandAllSpans adds 1 to what spansByService lists.  Where that is still *)
(* a list of ids the assignment throws (strict mode) and actingOnAll stays  *)
(* set; where it is a list of elements no span's counter changes.           *)
ExpandAll ==
  /\ Act
  /\ span' = ExpandEvery(span)
  /\ IF SpanServices \subseteq looked
       THEN actingOnAll' = FALSE /\ TagAdded(Keys)
       ELSE actingOnAll' = TRUE /\ UNCHANGED <<all, tagged>>
  /\ tidy' = FALSE
  /\ UNCHANGED <<looked, timers, requests, zoomVars, panel, url>>

CollapseAll ==
  /\ Act
  /\ span' = CollapseEvery(span)
  /\ actingOnAll' = FALSE
  /\ TagRemoved(Keys)
  /\ tidy' = FALSE
  /\ UNCHANGED <<looked, timers, requests, zoomVars, panel, url>>

(* handleClick on a span's expander, which a span without children hides *)
ClickExpander(s) ==
  /\ Act
  /\ span[s].shown /\ Children(s) # {}
  /\ span' = Toggle(span, s)
  /\ tidy' = FALSE
  /\ PlainClick
  /\ UNCHANGED <<looked, actingOnAll, timers, requests, all, tagged, zoom, jumped, panel, url>>

(* handleClick elsewhere on a span: showSpanDetails, and spanPanel.show *)
ClickSpan(s) ==
  /\ Act
  /\ span[s].shown /\ panel = NoSpan
  /\ panel' = s
  /\ PlainClick
  /\ UNCHANGED <<spanVars, timers, requests, all, tagged, zoom, jumped, url, tidy>>

(* the panel's close button *)
ClosePanel ==
  /\ panel # NoSpan
  /\ panel' = NoSpan
  /\ UNCHANGED <<spanVars, timers, requests, all, tagged, zoomVars, url, acts, tidy>>
-----------------------------------------------------------------------------
(* handleMouseDown, once for each time it is bound; the release may happen   *)
(* outside the container, where no mouseup handler hears it                 *)
PressMouse ==
  /\ Act
  /\ mouse.downs > 0 /\ panel = NoSpan
  /\ mouse' = [mouse EXCEPT !.ups = @ + mouse.downs, !.rect = "point"]
  /\ UNCHANGED <<spanVars, timers, requests, all, tagged, zoom, jumped, panel, url, tidy>>

MoveMouse ==
  /\ mouse.ups > 0 /\ mouse.rect = "point"
  /\ mouse' = [mouse EXCEPT !.rect = "drawn"]
  /\ UNCHANGED <<spanVars, timers, requests, all, tagged, zoom, jumped, panel, url, acts, tidy>>

(* the mouseup handlers when nothing is selected: handleClick is passed the *)
(* target where it expects the event, and finds no span                     *)
ReleaseMouse ==
  /\ mouse.ups > 0
  /\ mouse' = [mouse EXCEPT !.ups = 0, !.rect = "off"]
  /\ UNCHANGED <<spanVars, timers, requests, all, tagged, zoom, jumped, panel, url, acts, tidy>>

(* the mouseup handlers when something is: the first one zooms to the       *)
(* selection and removes the rectangle, so each of the others measures a    *)
(* rectangle at the left edge, or none                                      *)
Selections ==
  {<<r>> : r \in Ranges} \cup
  (IF mouse.ups > 1 THEN {<<r, q>> : r \in Ranges, q \in {p \in Ranges : p[1] = Whole[1]}}
                    ELSE {})

Bars(r) == [kind |-> "zoom", arg |-> r]

(* zoomInSpans for each selection of rs in turn *)
SelectRange(rs) ==
  /\ mouse.ups > 0 /\ mouse.rect = "drawn"
  /\ mouse' = [downs |-> 0, ups |-> 0, rect |-> "off"]
  /\ IF actingOnAll
       THEN /\ zoom' = [axis |-> rs[Len(rs)], bars |-> rs[Len(rs)], button |-> "shown"]
            /\ jumped' = (jumped \/ \E i \in DOMAIN timers : ZoomTimer(timers[i]))
            /\ UNCHANGED <<timers, requests>>
       ELSE /\ zoom' = [zoom EXCEPT !.axis = rs[Len(rs)], !.button = "shown"]
            /\ Delay([i \in DOMAIN rs |-> Bars(rs[i])])
            /\ UNCHANGED jumped
  /\ UNCHANGED <<spanVars, all, tagged, panel, url, acts, tidy>>

(* zoomOutSpans binds mousedown each time it is called; its button fades    *)
(* out slowly and can be clicked until it is gone                           *)
ZoomOut ==
  /\ Act
  /\ zoom.button # "hidden"
  /\ mouse' = [mouse EXCEPT !.downs = @ + 1]
  /\ IF actingOnAll
       THEN /\ zoom' = [axis |-> Whole, bars |-> Whole, button |-> "fading"]
            /\ jumped' = (jumped \/ \E i \in DOMAIN timers : ZoomTimer(timers[i]))
            /\ UNCHANGED <<timers, requests>>
       ELSE /\ zoom' = [zoom EXCEPT !.axis = Whole, !.button = "fading"]
            /\ Delay(<<Bars(Whole)>>)
            /\ UNCHANGED jumped
  /\ UNCHANGED <<spanVars, all, tagged, panel, url, tidy>>

ButtonFaded ==
  /\ zoom.button = "fading"
  /\ zoom' = [zoom EXCEPT !.button = "hidden"]
  /\ UNCHANGED <<spanVars, timers, requests, all, tagged, mouse, jumped, panel, url, acts, tidy>>
-----------------------------------------------------------------------------
(* filterAdded and filterRemoved *)
RunFilter(t) ==
  /\ t.kind \in {"add", "remove"}
  /\ IF actingOnAll THEN UNCHANGED <<span, looked>>
     ELSE /\ looked' = looked \cup {t.arg}
          /\ span' = IF t.kind = "add"
                       THEN Expand(span, SpansOf(t.arg), Times(t.arg))
                       ELSE Collapse(span, SpansOf(t.arg), Times(t.arg), FALSE)
  /\ UNCHANGED zoom

(* the callbacks of zoomInSpans and zoomOutSpans animate the bars *)
RunZoom(t) ==
  /\ ZoomTimer(t)
  /\ zoom' = [zoom EXCEPT !.bars = t.arg]
  /\ UNCHANGED <<span, looked>>

(* Mutant: a callback that finds actingOnAll set returns without hiding the *)
(* spinner.                                                                 *)
ReturnsUnderSpinner ==
  /\ timers # <<>>
  /\ RunFilter(Head(timers)) \/ RunZoom(Head(timers))
  /\ timers' = Tail(timers)
  /\ requests' = IF actingOnAll THEN requests ELSE requests - 1
  /\ UNCHANGED <<actingOnAll, all, tagged, mouse, jumped, panel, url, acts, tidy>>

(* the function showSpinnerAround gave to setTimeout *)
TimerFires ==
  /\ timers # <<>>
  /\ RunFilter(Head(timers)) \/ RunZoom(Head(timers))
  /\ timers' = Tail(timers)
  /\ requests' = requests - 1
  /\ UNCHANGED <<actingOnAll, all, tagged, mouse, jumped, panel, url, acts, tidy>>
-----------------------------------------------------------------------------
Hidden == [inFilters |-> 0, openChildren |-> 0, openParents |-> 0,
           expanded |-> FALSE, highlight |-> FALSE, shown |-> FALSE]
Unfiltered == [filtered |-> {}, count |-> 0, expandActive |-> FALSE, collapseActive |-> TRUE]

(* initialize: labels and buttons are attached before trace.js, so they     *)
(* hear the filter the URL asks for                                         *)
TraceInit ==
  /\ url \in FilterNames \cup {NoService}
  /\ IF url = NoService
       THEN /\ span = Expand([s \in Spans |-> Hidden], {First}, 1)
            /\ timers = <<>> /\ requests = 0
            /\ tagged = {} /\ all = Unfiltered
       ELSE /\ span = [s \in Spans |-> Hidden]
            /\ timers = <<FilterTimer("add", url)>> /\ requests = 1
            /\ tagged = {url} \cap SpanServices /\ all = AllAdded(Unfiltered, {url})
  /\ looked = {} /\ actingOnAll = FALSE
  /\ zoom = [axis |-> Whole, bars |-> Whole, button |-> "hidden"]
  /\ mouse = [downs |-> 1, ups |-> 0, rect |-> "off"]
  /\ panel = NoSpan /\ acts = 0 /\ tidy = TRUE /\ jumped = FALSE

UserActs ==
  \/ \E svc \in SpanServices : ClickLabel(svc) \/ Search(svc)
  \/ ExpandAll \/ CollapseAll
  \/ \E s \in Spans : ClickExpander(s) \/ ClickSpan(s)
  \/ ClosePanel
  \/ PressMouse \/ MoveMouse \/ ReleaseMouse
  \/ \E rs \in Selections : SelectRange(rs)
  \/ ZoomOut

TraceNext == UserActs \/ ButtonFaded \/ TimerFires

TraceSpec == TraceInit /\ [][TraceNext]_traceVars

(* A browser runs the timers that are due; nothing makes the user act. *)
TraceFairSpec == TraceSpec /\ WF_traceVars(TimerFires)
-----------------------------------------------------------------------------
(* How zoomInSpans draws a bar in the range r: its left end and width as    *)
(* lengths of time (the code divides both by the length of r), and whether  *)
(* it is red.                                                               *)
Bar(left, width, red) == [left |-> left, width |-> width, red |-> red]

ZoomedBar(s, r) ==
  LET from == r[1]  to == r[2]  start == Start[s]  end == End[s]
  IN CASE start < from /\ end < from -> Bar(0, 0, FALSE)
       [] start < from /\ end > from /\ end < to -> Bar(0, end - from, FALSE)
       [] start < from /\ end > from /\ end > to -> Bar(0, to - from, FALSE)
       [] start >= from /\ start < to /\ end <= to -> Bar(start - from, end - start, TRUE)
       [] start >= from /\ start < to /\ end > to -> Bar(start - from, to - start, TRUE)
       [] start > to -> Bar(to - from, 0, FALSE)
       [] start = to -> Bar(to - from, 0, TRUE)
       [] OTHER -> Bar(0, 0, FALSE)
-----------------------------------------------------------------------------
TraceTypeOK ==
  /\ span \in [Spans -> [inFilters : Int, openChildren : Int, openParents : Int,
                         expanded : BOOLEAN, highlight : BOOLEAN, shown : BOOLEAN]]
  /\ looked \subseteq FilterNames /\ actingOnAll \in BOOLEAN
  /\ timers \in Seq([kind : {"add", "remove"}, arg : FilterNames]
                    \cup [kind : {"zoom"}, arg : Ranges \cup {Whole}])
  /\ requests \in Int
  /\ url \in FilterNames \cup {NoService}

(* trace.js:129: a span that a filter, a child or a parent wants on the     *)
(* page is on it, whatever was expanded, filtered or collapsed before.      *)
WantedIsShown == \A s \in Spans : Wanted(span[s]) => span[s].shown

(* What the filter events heard so far have done to svc: the first callback *)
(* that still waits tells the state before it                               *)
Waiting(svc) == {i \in DOMAIN timers : timers[i].kind # "zoom" /\ timers[i].arg = svc}
Applied(svc) ==
  IF Waiting(svc) = {} THEN svc \in all.filtered
  ELSE timers[CHOOSE i \in Waiting(svc) : \A j \in Waiting(svc) : i <= j].kind = "remove"

(* trace.js:72-132: as long as filters are only added when absent and       *)
(* removed when present, in whatever order the delayed callbacks run, the   *)
(* page highlights exactly the spans of the filters that were applied, and  *)
(* shows these, their children and all their ancestors, and nothing else.   *)
ViewMatchesFilters ==
  LET on(s) == \/ url = NoService /\ s = First
               \/ \E svc \in ServiceNames[s] : Applied(svc)
  IN tidy => \A s \in Spans :
       /\ span[s].highlight = on(s)
       /\ span[s].shown = \/ on(s)
                          \/ \E t \in Descendants(s) : on(t)
                          \/ Parent[s] # NoSpan /\ on(Parent[s])

(* filterAllServices.js:23-45: on a page with more than one service, whose  *)
(* URL names none but these, Expand All is pressed exactly when every       *)
(* service label is tagged and Collapse All exactly when none is.           *)
ButtonsAgreeWithLabels ==
  Total > 1 /\ url # OtherService =>
    /\ all.expandActive = (tagged = SpanServices)
    /\ all.collapseActive = (tagged = {})

(* trace.js:261-270, fullPageSpinner.js: the spinner counts the callbacks   *)
(* that wait, so it goes away with the last one and not before.             *)
SpinnerCountsWork == requests = Len(timers)

(* trace.js:277-295: actingOnAll, which makes every filter a no-op, is left *)
(* set only by an Expand All that met a service nobody had filtered yet,    *)
(* and as long as it is set no filter is looked up that could end this.     *)
StuckMeansNeverLookedUp == actingOnAll => ~(SpanServices \subseteq looked)

(* trace.js:318-413: once the zoom callbacks have run, the bars are drawn   *)
(* for the range the time labels show, the zoom-out button is there exactly *)
(* while that is a selection, and a selection can be made otherwise.        *)
ZoomMatchesSelection ==
  /\ (zoom.axis # Whole) = (zoom.button = "shown")
  /\ (zoom.axis = Whole) = (mouse.downs > 0)
  /\ ~jumped /\ (\A i \in DOMAIN timers : ~ZoomTimer(timers[i])) => zoom.bars = zoom.axis

(* trace.js:351-372: a bar covers what the selection and the span have in   *)
(* common and is red when the span starts in it, except that a span that    *)
(* starts before the selection and ends exactly with it is not drawn.       *)
BarsShowOverlap ==
  LET r == zoom.bars
      clip(t) == IF t < r[1] THEN r[1] ELSE IF t > r[2] THEN r[2] ELSE t
  IN r # Whole => \A s \in Spans :
       ZoomedBar(s, r) =
         IF Start[s] < r[1] /\ End[s] = r[2] THEN Bar(0, 0, FALSE)
         ELSE Bar(clip(Start[s]) - r[1], clip(End[s]) - clip(Start[s]),
                  Start[s] \in r[1] .. r[2])

(* trace.js: what the page shows of the trace - spans, buttons, labels and  *)
(* bars - is what the filters, clicks and selections so far ask for.        *)
TraceShowsChoices ==
  /\ TraceTypeOK /\ ViewMatchesFilters /\ ButtonsAgreeWithLabels /\ SpinnerCountsWork
  /\ StuckMeansNeverLookedUp /\ ZoomMatchesSelection /\ BarsShowOverlap

(* fullPageSpinner.js:20-24: the spinner goes away when the user waits.     *)
SpinnerGoesAway == <>[](requests = 0)
=============================================================================
