---------------------------- MODULE WebPagesProofs ----------------------------
(***************************************************************************)
(* The scripts of the web pages, for any answers of the server and         *)
(* whatever a user does, however late callbacks run and answers come.      *)
(*                                                                         *)
(* The trace page, first: a span that is wanted on the trace page is on    *)
(* it.  The counters are arbitrary integers there, so the proof holds      *)
(* although Collapse All resets them under callbacks that still wait.      *)
(* Then: the page shows what the user has asked for, where the counters    *)
(* are exact as long as filters are added when absent and removed when     *)
(* present.                                                                *)
(*                                                                         *)
(* Then the index and the dependency page, which show what was found and   *)
(* chosen; and what flight/lib lends them, calls that are put off and the  *)
(* filters of its log.                                                     *)
(***************************************************************************)
EXTENDS TracePage, SearchPages, FlightUtilities,
        FiniteSetTheorems, SequenceTheorems, WellFoundedInduction, TLAPS
Counters == [inFilters : Int, openChildren : Int, openParents : Int,
             expanded : BOOLEAN, highlight : BOOLEAN, shown : BOOLEAN]

SpansKnown(sp) == sp \in [Spans -> Counters]
AllWantedShown(sp) == \A s \in Spans : Wanted(sp[s]) => sp[s].shown

(* What is inductive: the counters are integers, and WantedIsShown. *)
SpanInv == SpansKnown(span) /\ AllWantedShown(span)
-----------------------------------------------------------------------------
(* getSpansByService finds each span once or twice. *)
LEMMA TimesOnceOrTwice == \A svc : Times(svc) \in {1, 2}
BY DEF Times

(* trace.js:87-93: how often a list touches the spans below s is a number,  *)
(* and none when none of them is in it.                                     *)
LEMMA BelowCounts ==
  ASSUME NEW sel, NEW times \in {1, 2}, NEW s \in Spans
  PROVE  /\ BelowTouched(sel, times, s) \in Nat
         /\ Descendants(s) \cap sel = {} => BelowTouched(sel, times, s) = 0
<1> DEFINE D == Descendants(s) \cap sel
<1>1. IsFiniteSet(D)
  BY FS_Subset, TraceAssumption DEF Descendants, TraceAssumption
<1>2. Cardinality(D) \in Nat
  BY <1>1, FS_CardinalityType
<1>3. D = {} => Cardinality(D) = 0
  BY FS_EmptySet
<1> HIDE DEF D
<1>4. times * Cardinality(D) \in Nat /\ (D = {} => times * Cardinality(D) = 0)
  BY <1>2, <1>3
<1> QED
  BY <1>4 DEF BelowTouched, D
-----------------------------------------------------------------------------
(* expandSpans: a counter that becomes positive puts its span on the page.  *)
LEMMA ExpandKeeps ==
  ASSUME NEW sp, SpansKnown(sp), AllWantedShown(sp), NEW sel, NEW times \in {1, 2}
  PROVE  SpansKnown(Expand(sp, sel, times)) /\ AllWantedShown(Expand(sp, sel, times))
<1> DEFINE ex == Expand(sp, sel, times)
<1>1. ASSUME NEW s \in Spans
      PROVE  ex[s] \in Counters /\ (Wanted(ex[s]) => ex[s].shown)
  <2> DEFINE x == sp[s]
             n == BelowTouched(sel, times, s)
             passed == s \in sel /\ 0 \in x.inFilters .. (x.inFilters + times - 1)
  <2>1. x \in Counters /\ (Wanted(x) => x.shown)
    BY DEF SpansKnown, AllWantedShown
  <2>2. n \in Nat /\ (Descendants(s) \cap sel = {} => n = 0)
    BY BelowCounts
  <2>3. /\ Touched(sel, times, s) = IF s \in sel THEN times ELSE 0
        /\ ParentTouched(sel, times, s) = IF Parent[s] \in sel THEN times ELSE 0
    BY DEF Touched, ParentTouched
  <2>4. ex[s] = [inFilters    |-> x.inFilters + Touched(sel, times, s),
                 openChildren |-> x.openChildren + n,
                 openParents  |-> x.openParents + ParentTouched(sel, times, s),
                 expanded     |-> x.expanded \/ s \in sel,
                 highlight    |-> x.highlight \/ passed,
                 shown        |-> \/ x.shown \/ passed
                                  \/ Parent[s] \in sel \/ Descendants(s) \cap sel # {}]
    BY DEF Expand
  <2> HIDE DEF n, ex
  <2>5. ex[s] \in Counters
    BY <2>1, <2>2, <2>3, <2>4 DEF Counters
  <2>6. ASSUME ~x.shown, ~passed, Parent[s] \notin sel, Descendants(s) \cap sel = {}
        PROVE  ~Wanted(ex[s])
    <3>1. x.inFilters \in Int /\ x.openChildren \in Int /\ x.openParents \in Int
      BY <2>1 DEF Counters
    <3>2. x.inFilters <= 0 /\ x.openChildren <= 0 /\ x.openParents <= 0
      BY <2>1, <2>6, <3>1 DEF Wanted
    <3>3. x.inFilters + Touched(sel, times, s) <= 0
      BY <2>3, <2>6, <3>1, <3>2
    <3> QED
      BY <2>2, <2>3, <2>4, <2>6, <3>1, <3>2, <3>3 DEF Wanted
  <2> QED
    BY <2>4, <2>5, <2>6
<1>2. ex = [s \in Spans |-> ex[s]]
  BY DEF Expand
<1> QED
  BY <1>1, <1>2 DEF SpansKnown, AllWantedShown

(* collapseSpans, hideSpan: counters only go down, and hideSpan hides no    *)
(* span that is wanted.                                                     *)
LEMMA CollapseKeeps ==
  ASSUME NEW sp, SpansKnown(sp), AllWantedShown(sp), NEW sel, NEW times \in {1, 2},
         NEW childrenOnly \in BOOLEAN
  PROVE  /\ SpansKnown(Collapse(sp, sel, times, childrenOnly))
         /\ AllWantedShown(Collapse(sp, sel, times, childrenOnly))
<1> DEFINE co == Collapse(sp, sel, times, childrenOnly)
<1>1. ASSUME NEW s \in Spans
      PROVE  co[s] \in Counters /\ (Wanted(co[s]) => co[s].shown)
  <2> DEFINE x == sp[s]
             n == BelowTouched(sel, times, s)
             to == x.inFilters - Touched(sel, times, s)
             passed == ~childrenOnly /\ s \in sel /\ 0 \in to .. (to + times - 1)
             hides == Parent[s] \in sel \/ (~childrenOnly /\ Descendants(s) \cap sel # {})
             y == [inFilters    |-> to,
                   openChildren |-> IF childrenOnly THEN x.openChildren ELSE x.openChildren - n,
                   openParents  |-> x.openParents - ParentTouched(sel, times, s),
                   expanded     |-> x.expanded /\ s \notin sel,
                   highlight    |-> x.highlight /\ ~passed,
                   shown        |-> x.shown]
  <2>1. x \in Counters /\ (Wanted(x) => x.shown)
    BY DEF SpansKnown, AllWantedShown
  <2>2. n \in Nat
    BY BelowCounts
  <2>3. /\ Touched(sel, times, s) = IF s \in sel THEN times ELSE 0
        /\ ParentTouched(sel, times, s) = IF Parent[s] \in sel THEN times ELSE 0
    BY DEF Touched, ParentTouched
  <2>4. co[s] = [y EXCEPT !.shown = @ /\ ~((passed \/ hides) /\ ~Wanted(y))]
    BY DEF Collapse
  <2> HIDE DEF n, co
  <2>5. y \in Counters
    BY <2>1, <2>2, <2>3 DEF Counters
  <2>6. Wanted(y) => x.shown
    <3>1. x.inFilters \in Int /\ x.openChildren \in Int /\ x.openParents \in Int
      BY <2>1 DEF Counters
    <3>2. /\ y.inFilters <= x.inFilters /\ y.openChildren <= x.openChildren
          /\ y.openParents <= x.openParents
      BY <2>2, <2>3, <3>1
    <3>3. y.inFilters \in Int /\ y.openChildren \in Int /\ y.openParents \in Int
      BY <2>5 DEF Counters
    <3> HIDE DEF y
    <3> QED
      BY <2>1, <3>1, <3>2, <3>3 DEF Wanted
  <2>7. y.shown = x.shown
    OBVIOUS
  <2> HIDE DEF y, passed, hides
  <2>8. co[s] \in Counters
    BY <2>4, <2>5 DEF Counters
  <2>9. Wanted(co[s]) = Wanted(y)
    BY <2>4, <2>5 DEF Wanted, Counters
  <2>10. co[s].shown = (y.shown /\ ~((passed \/ hides) /\ ~Wanted(y)))
    BY <2>4, <2>5 DEF Counters
  <2> QED
    BY <2>6, <2>7, <2>8, <2>9, <2>10
<1>2. co = [s \in Spans |-> co[s]]
  BY DEF Collapse
<1> QED
  BY <1>1, <1>2 DEF SpansKnown, AllWantedShown

(* expandAllSpans shows every span. *)
LEMMA ExpandEveryKeeps ==
  ASSUME NEW sp, SpansKnown(sp)
  PROVE  SpansKnown(ExpandEvery(sp)) /\ AllWantedShown(ExpandEvery(sp))
<1>1. ASSUME NEW s \in Spans PROVE Cardinality(Descendants(s)) \in Nat
  <2>1. IsFiniteSet(Descendants(s))
    BY FS_Subset, TraceAssumption DEF Descendants, TraceAssumption
  <2> QED
    BY <2>1, FS_CardinalityType
<1>2. ASSUME NEW s \in Spans
      PROVE  ExpandEvery(sp)[s] \in Counters /\ ExpandEvery(sp)[s].shown
  <2>1. sp[s].openChildren \in Int /\ sp[s].openParents \in Int
    BY DEF SpansKnown, Counters
  <2> QED
    BY <1>1, <2>1 DEF ExpandEvery, Counters
<1>3. ExpandEvery(sp) = [s \in Spans |-> ExpandEvery(sp)[s]]
  BY DEF ExpandEvery
<1> QED
  BY <1>2, <1>3 DEF SpansKnown, AllWantedShown

(* collapseAllSpans leaves no span wanted. *)
LEMMA CollapseEveryKeeps ==
  ASSUME NEW sp, SpansKnown(sp)
  PROVE  SpansKnown(CollapseEvery(sp)) /\ AllWantedShown(CollapseEvery(sp))
<1>1. ASSUME NEW s \in Spans
      PROVE  CollapseEvery(sp)[s] \in Counters /\ ~Wanted(CollapseEvery(sp)[s])
  <2>1. sp[s].shown \in BOOLEAN
    BY DEF SpansKnown, Counters
  <2> QED
    BY <2>1 DEF CollapseEvery, Counters, Wanted
<1>2. CollapseEvery(sp) = [s \in Spans |-> CollapseEvery(sp)[s]]
  BY DEF CollapseEvery
<1> QED
  BY <1>1, <1>2 DEF SpansKnown, AllWantedShown
-----------------------------------------------------------------------------
(* The page comes up with its first span expanded, or with no span and the  *)
(* filter of the URL put off.                                               *)
LEMMA InitShows == TraceInit => SpanInv
<1> DEFINE none == [s \in Spans |-> Hidden]
<1>1. SpansKnown(none) /\ AllWantedShown(none)
  BY DEF SpansKnown, AllWantedShown, Counters, Hidden, Wanted
<1>2. SpansKnown(Expand(none, {First}, 1)) /\ AllWantedShown(Expand(none, {First}, 1))
  BY <1>1, ExpandKeeps
<1> QED
  BY <1>1, <1>2 DEF TraceInit, SpanInv

(* Whatever the user does and whichever callback runs keeps the invariant.  *)
LEMMA StepShows == SpanInv /\ [TraceNext]_traceVars => SpanInv'
<1> SUFFICES ASSUME SpanInv, [TraceNext]_traceVars PROVE SpanInv'
  OBVIOUS
<1> USE DEF SpanInv
<1>1. ASSUME span' = span PROVE SpanInv'
  BY <1>1 DEF SpansKnown, AllWantedShown
<1>2. CASE ExpandAll
  BY <1>2, ExpandEveryKeeps DEF ExpandAll
<1>3. CASE CollapseAll
  BY <1>3, CollapseEveryKeeps DEF CollapseAll
<1>4. ASSUME NEW s \in Spans, ClickExpander(s) PROVE SpanInv'
  <2>1. span' = Collapse(span, {s}, 1, TRUE) \/ span' = Expand(span, {s}, 1)
    BY <1>4 DEF ClickExpander, Toggle
  <2> QED
    BY <2>1, ExpandKeeps, CollapseKeeps
<1>5. CASE TimerFires
  <2> DEFINE t == Head(timers)
  <2>1. \/ span' = span
        \/ span' = Expand(span, SpansOf(t.arg), Times(t.arg))
        \/ span' = Collapse(span, SpansOf(t.arg), Times(t.arg), FALSE)
    BY <1>5 DEF TimerFires, RunFilter, RunZoom
  <2>2. Times(t.arg) \in {1, 2}
    BY TimesOnceOrTwice
  <2> HIDE DEF t
  <2> QED
    BY <1>1, <2>1, <2>2, ExpandKeeps, CollapseKeeps
<1>6. ASSUME NEW svc, ClickLabel(svc) \/ Search(svc) PROVE span' = span
  BY <1>6 DEF ClickLabel, Search, spanVars
<1>7. ASSUME NEW s, ClickSpan(s) PROVE span' = span
  BY <1>7 DEF ClickSpan, spanVars
<1>8. ASSUME ClosePanel \/ PressMouse \/ MoveMouse \/ ReleaseMouse \/ ZoomOut \/ ButtonFaded
      PROVE  span' = span
  BY <1>8 DEF ClosePanel, PressMouse, MoveMouse, ReleaseMouse, ZoomOut, ButtonFaded, spanVars
<1>9. ASSUME NEW rs, SelectRange(rs) PROVE span' = span
  BY <1>9 DEF SelectRange, spanVars
<1>10. CASE UNCHANGED traceVars
  BY <1>1, <1>10 DEF traceVars, spanVars
<1> QED
  BY <1>1, <1>2, <1>3, <1>4, <1>5, <1>6, <1>7, <1>8, <1>9, <1>10 DEF TraceNext, UserActs

(* trace.js:129, hideSpan, with expandSpans and collapseSpans: a span that  *)
(* a filter, a child or a parent wants on the page is on it, after any      *)
(* sequence of labels, searches, expanders, Expand All, Collapse All and    *)
(* late callbacks, for every trace.                                         *)
THEOREM WantedSpansAreShown == TraceSpec => []WantedIsShown
<1>1. SpanInv => WantedIsShown
  BY DEF SpanInv, AllWantedShown, WantedIsShown
<1> QED
  BY InitShows, StepShows, <1>1, PTL DEF TraceSpec
-----------------------------------------------------------------------------
(* How often filters touch spans.  What the page starts with, its first     *)
(* span expanded when the URL names no service, counts as one more filter.  *)
Chosen(f) == IF f = NoService THEN {First} ELSE SpansOf(f)
Weight(f) == IF f = NoService THEN 1 ELSE Times(f)

Cells(f, T) == {f} \X ((1 .. Weight(f)) \X (T \cap Chosen(f)))
Hits(F, T) == UNION {Cells(f, T) : f \in F}
Count(F, T) == Cardinality(Hits(F, T))

AllFilters == FilterNames \cup {NoService}

(* The page names finitely many services. *)
LEMMA NamesAreFinite == IsFiniteSet(SpanServices) /\ IsFiniteSet(FilterNames) /\ IsFiniteSet(AllFilters)
<1> DEFINE sets == {ServiceNames[s] : s \in Spans}
           f == [s \in Spans |-> ServiceNames[s]]
<1>1. f \in Surjection(Spans, sets)
  BY DEF Surjection
<1>2. IsFiniteSet(sets)
  BY <1>1, FS_Surjection, TraceAssumption DEF TraceAssumption
<1>3. IsFiniteSet(SpanServices)
  BY <1>2, FS_UNION, TraceAssumption DEF TraceAssumption, SpanServices
<1>4. QED BY <1>3, FS_AddElement DEF FilterNames, AllFilters

LEMMA CellsCounted ==
  ASSUME NEW f, NEW T
  PROVE  /\ IsFiniteSet(Cells(f, T)) /\ IsFiniteSet(T \cap Chosen(f)) /\ Weight(f) \in {1, 2}
         /\ Cardinality(T \cap Chosen(f)) \in Nat
         /\ Cardinality(Cells(f, T)) = Weight(f) * Cardinality(T \cap Chosen(f))
         /\ Cells(f, T) = {} <=> T \cap Chosen(f) = {}
<1> DEFINE C == T \cap Chosen(f)
           K == 1 .. Weight(f)
<1>1. Weight(f) \in {1, 2}
  BY TimesOnceOrTwice DEF Weight
<1>2. IsFiniteSet(C)
  BY FS_Subset, TraceAssumption DEF TraceAssumption, Chosen, SpansOf
<1>3. IsFiniteSet(K) /\ Cardinality(K) = Weight(f) /\ K # {}
  <2>1. \A b \in Int : IsFiniteSet(1 .. b) /\ Cardinality(1 .. b) = IF 1 > b THEN 0 ELSE b - 1 + 1
    BY FS_Interval
  <2>2. Weight(f) \in Int /\ ~(1 > Weight(f)) /\ Weight(f) - 1 + 1 = Weight(f)
    BY <1>1
  <2>3. 1 \in K
    BY <1>1
  <2>4. QED BY <2>1, <2>2, <2>3
<1>4. Cells(f, T) = {f} \X (K \X C)
  BY DEF Cells
<1> HIDE DEF C, K
<1>5. Cells(f, T) = {} <=> C = {}
  <2>1. PICK k : k \in K
    BY <1>3
  <2>2. \A c \in C : <<f, <<k, c>>>> \in Cells(f, T)
    BY <1>4, <2>1
  <2>3. \A x \in Cells(f, T) : x[2][2] \in C
    BY <1>4
  <2>4. QED BY <2>2, <2>3
<1>6. IsFiniteSet(K \X C) /\ Cardinality(K \X C) = Weight(f) * Cardinality(C)
  BY <1>2, <1>3, FS_Product
<1>7. IsFiniteSet({f}) /\ Cardinality({f}) = 1
  BY FS_Singleton
<1>8. /\ IsFiniteSet({f} \X (K \X C))
      /\ Cardinality({f} \X (K \X C)) = 1 * Cardinality(K \X C)
  BY <1>6, <1>7, FS_Product
<1>9. Cardinality(C) \in Nat /\ Cardinality(K \X C) \in Nat
  BY <1>2, <1>6, FS_CardinalityType
<1>10. QED BY <1>1, <1>2, <1>4, <1>5, <1>6, <1>8, <1>9 DEF C

LEMMA CountIsNumber ==
  ASSUME NEW F, IsFiniteSet(F), NEW T
  PROVE  /\ IsFiniteSet(Hits(F, T)) /\ Count(F, T) \in Nat
         /\ Count(F, T) = 0 <=> \A f \in F : T \cap Chosen(f) = {}
<1> DEFINE all_ == {Cells(f, T) : f \in F}
           g == [f \in F |-> Cells(f, T)]
<1>1. g \in Surjection(F, all_)
  BY DEF Surjection
<1>2. IsFiniteSet(all_)
  BY <1>1, FS_Surjection
<1>3. IsFiniteSet(Hits(F, T))
  BY <1>2, FS_UNION, CellsCounted DEF Hits
<1>4. Hits(F, T) = {} <=> \A f \in F : Cells(f, T) = {}
  BY DEF Hits
<1>5. QED BY <1>3, <1>4, CellsCounted, FS_CardinalityType, FS_EmptySet DEF Count

(* A filter more adds what it touches, whatever was applied before. *)
LEMMA CountAdds ==
  ASSUME NEW F, IsFiniteSet(F), NEW f, f \notin F, NEW T
  PROVE  Count(F \cup {f}, T) = Count(F, T) + Weight(f) * Cardinality(T \cap Chosen(f))
<1>1. Hits(F \cup {f}, T) = Hits(F, T) \cup Cells(f, T)
  BY DEF Hits
<1>2. Hits(F, T) \cap Cells(f, T) = {}
  BY DEF Hits, Cells
<1>3. IsFiniteSet(Hits(F, T)) /\ IsFiniteSet(Cells(f, T))
  BY CountIsNumber, CellsCounted
<1>4. Cardinality(Hits(F, T) \cup Cells(f, T))
        = Cardinality(Hits(F, T)) + Cardinality(Cells(f, T)) - Cardinality(Hits(F, T) \cap Cells(f, T))
  BY <1>3, FS_Union
<1>5. Cardinality(Hits(F, T) \cap Cells(f, T)) = 0
  BY <1>2, FS_EmptySet
<1>6. Cardinality(Hits(F, T)) \in Nat /\ Cardinality(Cells(f, T)) \in Nat
  BY <1>3, FS_CardinalityType
<1>7. Cardinality(Hits(F, T) \cup Cells(f, T)) = Cardinality(Hits(F, T)) + Cardinality(Cells(f, T))
  BY <1>4, <1>5, <1>6
<1>8. Cardinality(Cells(f, T)) = Weight(f) * Cardinality(T \cap Chosen(f))
  BY CellsCounted
<1>9. QED BY <1>1, <1>7, <1>8 DEF Count
-----------------------------------------------------------------------------
(* The callbacks that wait, and the spinner that covers them.              *)
TimerSet == [kind : {"add", "remove"}, arg : FilterNames]
              \cup [kind : {"zoom"}, arg : Ranges \cup {Whole}]

Fits(t) == t.kind = "zoom" \/ (url # OtherService => t.arg \in SpanServices)

LateInv ==
  /\ url \in AllFilters
  /\ timers \in Seq(TimerSet) /\ SpinnerCountsWork
  /\ \A i \in 1 .. Len(timers) : Fits(timers[i])

(* What is put off waits behind the rest. *)
LEMMA Filed ==
  ASSUME LateInv, NEW cbs \in Seq(TimerSet), timers' = timers \o cbs
  PROVE  /\ timers' \in Seq(TimerSet) /\ Len(timers') = Len(timers) + Len(cbs)
         /\ Len(timers) \in Nat /\ Len(cbs) \in Nat /\ DOMAIN timers' = 1 .. Len(timers')
         /\ \A i \in 1 .. Len(timers) : timers'[i] = timers[i]
         /\ \A i \in 1 .. Len(timers') : i > Len(timers) => timers'[i] = cbs[i - Len(timers)]
<1>1. timers \in Seq(TimerSet)
  BY DEF LateInv
<1>2. QED BY <1>1, ConcatProperties, LenProperties

LEMMA FiltersFile ==
  ASSUME NEW svc \in FilterNames, NEW kind \in {"add", "remove"}
  PROVE  LET cbs == <<FilterTimer(kind, svc)>> IN
         /\ cbs \in Seq(TimerSet) /\ Len(cbs) = 1 /\ cbs[1] = FilterTimer(kind, svc)
         /\ cbs[1].kind = kind /\ cbs[1].arg = svc
  BY DEF FilterTimer, TimerSet

LEMMA RangesFile ==
  ASSUME NEW rs \in Seq(Ranges \cup {Whole}), rs # <<>>
  PROVE  LET cbs == [i \in DOMAIN rs |-> Bars(rs[i])] IN
         /\ cbs \in Seq(TimerSet) /\ Len(cbs) = Len(rs) /\ Len(rs) \in Nat \ {0}
         /\ \A i \in 1 .. Len(rs) : cbs[i].kind = "zoom" /\ cbs[i].arg = rs[i] /\ rs[i] \in Ranges \cup {Whole}
<1>1. Len(rs) \in Nat \ {0} /\ DOMAIN rs = 1 .. Len(rs) /\ \A i \in 1 .. Len(rs) : rs[i] \in Ranges \cup {Whole}
  BY EmptySeq, LenProperties, ElementOfSeq
<1> DEFINE cbs == [i \in DOMAIN rs |-> Bars(rs[i])]
<1>2. cbs \in [1 .. Len(rs) -> TimerSet]
  BY <1>1 DEF Bars, TimerSet
<1>3. cbs \in Seq(TimerSet) /\ Len(cbs) = Len(rs)
  BY <1>1, <1>2, IsASeq, LenProperties
<1>4. QED BY <1>1, <1>3 DEF Bars

LEMMA SelectionsAreRanges ==
  ASSUME NEW rs \in Selections
  PROVE  rs \in Seq(Ranges) /\ rs \in Seq(Ranges \cup {Whole}) /\ rs # <<>> /\ rs[Len(rs)] \in Ranges
<1>1. \/ \E r \in Ranges : rs = <<r>>
      \/ \E r, q \in Ranges : rs = <<r, q>>
  BY DEF Selections
<1>2. ASSUME NEW r \in Ranges, rs = <<r>>
      PROVE  rs \in Seq(Ranges) /\ rs # <<>> /\ rs[Len(rs)] \in Ranges
  BY <1>2
<1>3. ASSUME NEW r \in Ranges, NEW q \in Ranges, rs = <<r, q>>
      PROVE  rs \in Seq(Ranges) /\ rs # <<>> /\ rs[Len(rs)] \in Ranges
  BY <1>3
<1>4. rs \in Seq(Ranges) /\ rs # <<>> /\ rs[Len(rs)] \in Ranges
  BY <1>1, <1>2, <1>3
<1>5. QED BY <1>4, SeqMonotonic

LEMMA DelayLate ==
  ASSUME LateInv, url' = url, NEW cbs \in Seq(TimerSet), Delay(cbs),
         \A i \in 1 .. Len(cbs) : Fits(cbs[i])
  PROVE  LateInv'
<1>1. timers' = timers \o cbs /\ requests' = requests + Len(cbs)
  BY DEF Delay
<1>2. /\ timers' \in Seq(TimerSet) /\ Len(timers') = Len(timers) + Len(cbs)
      /\ Len(timers) \in Nat /\ Len(cbs) \in Nat
      /\ \A i \in 1 .. Len(timers) : timers'[i] = timers[i]
      /\ \A i \in 1 .. Len(timers') : i > Len(timers) => timers'[i] = cbs[i - Len(timers)]
  BY <1>1, Filed
<1>3. ASSUME NEW i \in 1 .. Len(timers') PROVE Fits(timers'[i])
  <2>1. CASE i <= Len(timers)
    BY <1>2, <2>1 DEF LateInv
  <2>2. CASE i > Len(timers)
    <3>1. i - Len(timers) \in 1 .. Len(cbs)
      BY <1>2, <2>2
    <3>2. QED BY <1>2, <2>2, <3>1
  <2>3. QED BY <1>2, <2>1, <2>2
<1>4. QED BY <1>1, <1>2, <1>3 DEF LateInv, SpinnerCountsWork, Fits

LEMMA StepLate == LateInv /\ [TraceNext]_traceVars => LateInv'
<1> SUFFICES ASSUME LateInv, [TraceNext]_traceVars PROVE LateInv'
  OBVIOUS
<1>0. ASSUME UNCHANGED <<timers, requests, url>> PROVE LateInv'
  BY <1>0 DEF LateInv, SpinnerCountsWork, Fits
<1>1. ASSUME NEW svc \in SpanServices, NEW kind \in {"add", "remove"},
             FilterEvent(kind, svc), url' = url
      PROVE  LateInv'
  <2>1. CASE actingOnAll
    BY <1>0, <1>1, <2>1 DEF FilterEvent
  <2>2. CASE ~actingOnAll
    <3>1. svc \in FilterNames
      BY DEF FilterNames
    <3> DEFINE cbs == <<FilterTimer(kind, svc)>>
    <3>2. Delay(cbs)
      BY <1>1, <2>2 DEF FilterEvent
    <3>3. cbs \in Seq(TimerSet) /\ \A i \in 1 .. Len(cbs) : Fits(cbs[i])
      BY <3>1, FiltersFile DEF Fits
    <3> HIDE DEF cbs
    <3>4. QED BY <1>1, <3>2, <3>3, DelayLate
  <2>3. QED BY <2>1, <2>2
<1>2. ASSUME NEW svc \in SpanServices, ClickLabel(svc) \/ Search(svc) PROVE LateInv'
  <2>1. (FilterEvent("add", svc) \/ FilterEvent("remove", svc)) /\ url' = url
    BY <1>2 DEF ClickLabel, Search
  <2>2. QED BY <1>1, <2>1
<1>3. ASSUME NEW rs \in Seq(Ranges \cup {Whole}), rs # <<>>, url' = url,
             Delay([i \in DOMAIN rs |-> Bars(rs[i])])
      PROVE  LateInv'
  <2> DEFINE cbs == [i \in DOMAIN rs |-> Bars(rs[i])]
  <2>1. cbs \in Seq(TimerSet) /\ \A i \in 1 .. Len(cbs) : Fits(cbs[i])
    BY <1>3, RangesFile DEF Fits
  <2> HIDE DEF cbs
  <2>2. QED BY <1>3, <2>1, DelayLate DEF cbs
<1>4. ASSUME NEW rs \in Selections, SelectRange(rs) PROVE LateInv'
  BY <1>0, <1>3, <1>4, SelectionsAreRanges DEF SelectRange
<1>5. CASE ZoomOut
  <2> DEFINE rs == <<Whole>>
             cbs == [i \in DOMAIN rs |-> Bars(rs[i])]
  <2>1. rs \in Seq(Ranges \cup {Whole}) /\ rs # <<>>
    OBVIOUS
  <2>2. cbs = <<Bars(Whole)>>
    BY DEF Bars
  <2>3. UNCHANGED <<timers, requests>> \/ Delay(cbs)
    BY <1>5, <2>2 DEF ZoomOut
  <2>4. url' = url
    BY <1>5 DEF ZoomOut
  <2> HIDE DEF rs
  <2>5. QED BY <1>0, <1>3, <2>1, <2>3, <2>4
<1>6. CASE TimerFires
  <2>1. timers # <<>> /\ timers' = Tail(timers) /\ requests' = requests - 1 /\ url' = url
    BY <1>6 DEF TimerFires
  <2>2. /\ timers' \in Seq(TimerSet) /\ Len(timers') = Len(timers) - 1
        /\ \A i \in 1 .. Len(timers') : timers'[i] = timers[i + 1]
        /\ Len(timers) \in Nat \ {0} /\ Len(timers') \in Nat
    BY <2>1, HeadTailProperties, EmptySeq, LenProperties DEF LateInv
  <2>3. \A i \in 1 .. Len(timers') : i + 1 \in 1 .. Len(timers)
    BY <2>2
  <2>4. QED BY <2>1, <2>2, <2>3 DEF LateInv, SpinnerCountsWork, Fits
<1>7. CASE ExpandAll
  BY <1>0, <1>7 DEF ExpandAll
<1>8. CASE CollapseAll
  BY <1>0, <1>8 DEF CollapseAll
<1>9. ASSUME NEW s \in Spans, ClickExpander(s) \/ ClickSpan(s) PROVE LateInv'
  BY <1>0, <1>9 DEF ClickExpander, ClickSpan
<1>10. CASE ClosePanel \/ PressMouse \/ MoveMouse \/ ReleaseMouse \/ ButtonFaded
  BY <1>0, <1>10 DEF ClosePanel, PressMouse, MoveMouse, ReleaseMouse, ButtonFaded
<1>11. CASE UNCHANGED traceVars
  BY <1>0, <1>11 DEF traceVars
<1>12. QED
  BY <1>2, <1>4, <1>5, <1>6, <1>7, <1>8, <1>9, <1>10, <1>11 DEF TraceNext, UserActs
-----------------------------------------------------------------------------
(* The zoom: what the labels, the button and the mouse say of each other,  *)
(* and that the last callback on its way draws what the labels say.        *)
LastZoom(i) ==
  /\ i \in 1 .. Len(timers) /\ ZoomTimer(timers[i])
  /\ \A j \in 1 .. Len(timers) : j > i => ~ZoomTimer(timers[j])

ZoomInv ==
  /\ zoom \in [axis : Ranges \cup {Whole}, bars : Ranges \cup {Whole},
               button : {"hidden", "shown", "fading"}]
  /\ mouse \in [downs : Nat, ups : Nat, rect : {"off", "point", "drawn"}]
  /\ jumped \in BOOLEAN
  /\ ZoomMatchesSelection
  /\ ~jumped => \A i : LastZoom(i) => timers[i].arg = zoom.axis

LEMMA StepZoom == LateInv /\ ZoomInv /\ [TraceNext]_traceVars => ZoomInv'
<1> SUFFICES ASSUME LateInv, ZoomInv, [TraceNext]_traceVars PROVE ZoomInv'
  OBVIOUS
<1> DEFINE None(q) == \A i \in 1 .. Len(q) : ~ZoomTimer(q[i])
<1>a. timers \in Seq(TimerSet) /\ Len(timers) \in Nat /\ DOMAIN timers = 1 .. Len(timers)
  BY LenProperties DEF LateInv
<1>0. ASSUME UNCHANGED <<timers, zoom, jumped>>, mouse' \in [downs : Nat, ups : Nat, rect : {"off", "point", "drawn"}],
             mouse'.downs = mouse.downs
      PROVE  ZoomInv'
  BY <1>0 DEF ZoomInv, ZoomMatchesSelection, LastZoom
<1>1. ASSUME NEW svc \in SpanServices, NEW kind \in {"add", "remove"},
             FilterEvent(kind, svc), UNCHANGED zoomVars
      PROVE  ZoomInv'
  <2> USE <1>1 DEF zoomVars
  <2>1. CASE actingOnAll
    BY <1>0, <2>1 DEF FilterEvent, ZoomInv
  <2>2. CASE ~actingOnAll
    <3>1. svc \in FilterNames
      BY DEF FilterNames
    <3> DEFINE cbs == <<FilterTimer(kind, svc)>>
    <3>2. timers' = timers \o cbs
      BY <2>2 DEF FilterEvent, Delay
    <3>3. cbs \in Seq(TimerSet) /\ Len(cbs) = 1 /\ ~ZoomTimer(cbs[1])
      BY <3>1, FiltersFile DEF ZoomTimer
    <3> HIDE DEF cbs
    <3>4. /\ Len(timers') = Len(timers) + 1 /\ timers' \in Seq(TimerSet)
          /\ \A i \in 1 .. Len(timers) : timers'[i] = timers[i]
          /\ \A i \in 1 .. Len(timers') : i > Len(timers) => timers'[i] = cbs[i - Len(timers)]
      <4>1. /\ timers' \in Seq(TimerSet) /\ Len(timers') = Len(timers) + Len(cbs)
            /\ \A i \in 1 .. Len(timers) : timers'[i] = timers[i]
            /\ \A i \in 1 .. Len(timers') : i > Len(timers) => timers'[i] = cbs[i - Len(timers)]
        BY <3>2, <3>3, Filed
      <4>2. QED BY <3>3, <4>1
    <3>5. ~ZoomTimer(timers'[Len(timers) + 1])
      <4>1. Len(timers) + 1 - Len(timers) = 1 /\ Len(timers) + 1 > Len(timers) /\ Len(timers) + 1 \in 1 .. Len(timers')
        BY <1>a, <3>4
      <4>2. QED BY <3>3, <3>4, <4>1
    <3>6. ASSUME NEW i, LastZoom(i)' PROVE LastZoom(i) /\ timers'[i] = timers[i]
      <4>1. i \in 1 .. Len(timers') /\ ZoomTimer(timers'[i]) /\ i # Len(timers) + 1
        BY <3>5, <3>6 DEF LastZoom, ZoomTimer
      <4>2. i \in 1 .. Len(timers)
        BY <1>a, <3>4, <4>1
      <4>3. \A j \in 1 .. Len(timers) : j \in 1 .. Len(timers') /\ timers'[j] = timers[j]
        BY <1>a, <3>4
      <4>4. QED BY <3>6, <4>1, <4>2, <4>3 DEF LastZoom, ZoomTimer
    <3>7. DOMAIN timers' = 1 .. Len(timers')
      BY <3>4, LenProperties
    <3>8. None(timers') => None(timers)
      BY <1>a, <3>4 DEF ZoomTimer
    <3>9. ZoomMatchesSelection'
      BY <1>a, <3>7, <3>8 DEF ZoomInv, ZoomMatchesSelection, ZoomTimer
    <3>10. ~jumped' => \A i : LastZoom(i)' => timers'[i].arg = zoom'.axis
      BY <3>6 DEF ZoomInv
    <3>11. QED BY <3>9, <3>10 DEF ZoomInv, LastZoom
  <2>3. QED BY <2>1, <2>2
<1>2. ASSUME NEW svc \in SpanServices, ClickLabel(svc) \/ Search(svc) PROVE ZoomInv'
  <2>1. (FilterEvent("add", svc) \/ FilterEvent("remove", svc)) /\ UNCHANGED zoomVars
    BY <1>2 DEF ClickLabel, Search
  <2>2. QED BY <1>1, <2>1
\* Both ways to zoom, put off: the last callback is the one that was added last.
<1>3. ASSUME NEW rs \in Seq(Ranges \cup {Whole}), rs # <<>>, jumped' = jumped,
             Delay([i \in DOMAIN rs |-> Bars(rs[i])]), zoom'.axis = rs[Len(rs)],
             zoom' \in [axis : Ranges \cup {Whole}, bars : Ranges \cup {Whole},
                        button : {"hidden", "shown", "fading"}],
             mouse' \in [downs : Nat, ups : Nat, rect : {"off", "point", "drawn"}],
             zoom'.axis # Whole <=> zoom'.button = "shown",
             zoom'.axis = Whole <=> mouse'.downs > 0
      PROVE  ZoomInv'
  <2> DEFINE cbs == [i \in DOMAIN rs |-> Bars(rs[i])]
  <2>1. timers' = timers \o cbs
    BY <1>3 DEF Delay
  <2>2. /\ cbs \in Seq(TimerSet) /\ Len(cbs) = Len(rs) /\ Len(rs) \in Nat \ {0}
        /\ \A i \in 1 .. Len(rs) : cbs[i].kind = "zoom" /\ cbs[i].arg = rs[i]
    BY <1>3, RangesFile
  <2> HIDE DEF cbs
  <2> DEFINE n == Len(timers) + Len(rs)
  <2>3. /\ Len(timers') = n /\ timers' \in Seq(TimerSet) /\ DOMAIN timers' = 1 .. n
        /\ \A i \in 1 .. n : i > Len(timers) => timers'[i] = cbs[i - Len(timers)]
    <3>1. /\ timers' \in Seq(TimerSet) /\ Len(timers') = Len(timers) + Len(cbs)
          /\ \A i \in 1 .. Len(timers') : i > Len(timers) => timers'[i] = cbs[i - Len(timers)]
      BY <2>1, <2>2, Filed
    <3>2. DOMAIN timers' = 1 .. Len(timers')
      BY <3>1, LenProperties
    <3>3. QED BY <2>2, <3>1, <3>2
  <2>4. n \in 1 .. n /\ n > Len(timers) /\ n - Len(timers) = Len(rs) /\ Len(rs) \in 1 .. Len(rs)
    BY <1>a, <2>2
  <2>5. ZoomTimer(timers'[n]) /\ timers'[n].arg = rs[Len(rs)]
    BY <2>2, <2>3, <2>4 DEF ZoomTimer
  <2>6. ASSUME NEW i, LastZoom(i)' PROVE i = n
    <3>1. i \in 1 .. n /\ \A j \in 1 .. n : j > i => ~ZoomTimer(timers'[j])
      BY <2>3, <2>6 DEF LastZoom, ZoomTimer
    <3>2. ~(n > i)
      BY <2>4, <2>5, <3>1
    <3>3. n \in Nat
      BY <1>a, <2>2
    <3> HIDE DEF n
    <3>4. QED BY <3>1, <3>2, <3>3
  <2>7. ~jumped' => \A i : LastZoom(i)' => timers'[i].arg = zoom'.axis
    BY <1>3, <2>5, <2>6
  <2>8. ZoomMatchesSelection'
    BY <1>3, <2>3, <2>4, <2>5 DEF ZoomMatchesSelection, ZoomTimer
  <2>9. QED BY <1>3, <2>7, <2>8 DEF ZoomInv, LastZoom
\* Both ways to zoom at once, while actingOnAll is set.
<1>4. ASSUME UNCHANGED timers, jumped' = (jumped \/ \E i \in DOMAIN timers : ZoomTimer(timers[i])),
             zoom' \in [axis : Ranges \cup {Whole}, bars : Ranges \cup {Whole},
                        button : {"hidden", "shown", "fading"}],
             mouse' \in [downs : Nat, ups : Nat, rect : {"off", "point", "drawn"}],
             zoom'.axis # Whole <=> zoom'.button = "shown", zoom'.bars = zoom'.axis,
             zoom'.axis = Whole <=> mouse'.downs > 0
      PROVE  ZoomInv'
  <2>1. ZoomMatchesSelection'
    BY <1>4 DEF ZoomMatchesSelection
  <2>2. ~jumped' => \A i : ~LastZoom(i)'
    BY <1>a, <1>4 DEF LastZoom, ZoomTimer
  <2>3. QED BY <1>4, <2>1, <2>2 DEF ZoomInv, LastZoom
<1>5. ASSUME NEW rs \in Selections, SelectRange(rs) PROVE ZoomInv'
  <2>1. /\ rs \in Seq(Ranges \cup {Whole}) /\ rs # <<>> /\ rs[Len(rs)] \in Ranges
        /\ rs[Len(rs)] # Whole
    BY SelectionsAreRanges, RangeAssumption DEF RangeAssumption
  <2>2. mouse' = [downs |-> 0, ups |-> 0, rect |-> "off"]
    BY <1>5 DEF SelectRange
  <2>3. CASE actingOnAll
    BY <1>4, <1>5, <2>1, <2>2, <2>3 DEF SelectRange
  <2>4. CASE ~actingOnAll
    <3>1. /\ Delay([i \in DOMAIN rs |-> Bars(rs[i])]) /\ jumped' = jumped
          /\ zoom' = [zoom EXCEPT !.axis = rs[Len(rs)], !.button = "shown"]
      BY <1>5, <2>4 DEF SelectRange
    <3>2. /\ zoom' \in [axis : Ranges \cup {Whole}, bars : Ranges \cup {Whole},
                        button : {"hidden", "shown", "fading"}]
          /\ zoom'.axis = rs[Len(rs)] /\ zoom'.button = "shown"
      BY <2>1, <3>1 DEF ZoomInv
    <3>3. QED BY <1>3, <2>1, <2>2, <3>1, <3>2
  <2>5. QED BY <2>3, <2>4
<1>6. CASE ZoomOut
  <2>1. mouse' = [mouse EXCEPT !.downs = @ + 1]
    BY <1>6 DEF ZoomOut
  <2>2. mouse' \in [downs : Nat, ups : Nat, rect : {"off", "point", "drawn"}] /\ mouse'.downs > 0
    BY <2>1 DEF ZoomInv
  <2>3. CASE actingOnAll
    BY <1>4, <1>6, <2>2, <2>3 DEF ZoomOut
  <2>4. CASE ~actingOnAll
    <3> DEFINE rs == <<Whole>>
               cbs == [i \in DOMAIN rs |-> Bars(rs[i])]
    <3>1. rs \in Seq(Ranges \cup {Whole}) /\ rs # <<>> /\ rs[Len(rs)] = Whole
      OBVIOUS
    <3>2. cbs = <<Bars(Whole)>>
      BY DEF Bars
    <3>3. /\ Delay(cbs) /\ jumped' = jumped
          /\ zoom' = [zoom EXCEPT !.axis = Whole, !.button = "fading"]
      BY <1>6, <2>4, <3>2 DEF ZoomOut
    <3>4. /\ zoom' \in [axis : Ranges \cup {Whole}, bars : Ranges \cup {Whole},
                        button : {"hidden", "shown", "fading"}]
          /\ zoom'.axis = Whole /\ zoom'.button = "fading"
      BY <3>3 DEF ZoomInv
    <3> HIDE DEF rs
    <3>5. QED BY <1>3, <2>2, <3>1, <3>3, <3>4
  <2>5. QED BY <2>3, <2>4
<1>7. CASE TimerFires
  <2>1. timers # <<>> /\ timers' = Tail(timers) /\ UNCHANGED <<mouse, jumped>>
    BY <1>7 DEF TimerFires
  <2>2. /\ timers' \in Seq(TimerSet) /\ Len(timers') = Len(timers) - 1
        /\ \A i \in 1 .. Len(timers') : timers'[i] = timers[i + 1]
        /\ Len(timers) \in Nat \ {0} /\ Len(timers') \in Nat /\ DOMAIN timers' = 1 .. Len(timers')
        /\ Head(timers) = timers[1] /\ timers[1] \in TimerSet
    BY <2>1, HeadTailProperties, EmptySeq, LenProperties DEF LateInv
  <2>3. ASSUME NEW i, LastZoom(i)' PROVE LastZoom(i + 1) /\ timers'[i] = timers[i + 1]
    <3>1. i \in 1 .. Len(timers') /\ i + 1 \in 1 .. Len(timers) /\ timers'[i] = timers[i + 1]
      BY <2>2, <2>3 DEF LastZoom
    <3>2. ASSUME NEW j \in 1 .. Len(timers), j > i + 1 PROVE ~ZoomTimer(timers[j])
      <4>1. j - 1 \in 1 .. Len(timers') /\ j - 1 > i /\ (j - 1) + 1 = j
        BY <2>2, <3>1, <3>2
      <4>2. QED BY <2>2, <2>3, <4>1 DEF LastZoom, ZoomTimer
    <3>3. QED BY <2>3, <3>1, <3>2 DEF LastZoom, ZoomTimer
  <2>4. CASE RunFilter(timers[1])
    <3>1. zoom' = zoom /\ ~ZoomTimer(timers[1])
      BY <2>4 DEF RunFilter, ZoomTimer
    <3>2. None(timers') => None(timers)
      <4>1. SUFFICES ASSUME None(timers'), NEW i \in 1 .. Len(timers) PROVE ~ZoomTimer(timers[i])
        OBVIOUS
      <4>2. CASE i = 1
        BY <3>1, <4>2
      <4>3. CASE i # 1
        <5>1. i - 1 \in 1 .. Len(timers') /\ (i - 1) + 1 = i
          BY <2>2, <4>3
        <5>2. timers'[i - 1] = timers[i]
          BY <2>2, <5>1
        <5>3. QED BY <4>1, <5>1, <5>2
      <4>4. QED BY <4>2, <4>3
    <3>3. ZoomMatchesSelection'
      BY <1>a, <2>1, <2>2, <3>1, <3>2 DEF ZoomInv, ZoomMatchesSelection, ZoomTimer
    <3>4. ~jumped' => \A i : LastZoom(i)' => timers'[i].arg = zoom'.axis
      <4>1. zoom'.axis = zoom.axis /\ jumped' = jumped
        BY <2>1, <3>1
      <4>2. ~jumped => \A i : LastZoom(i) => timers[i].arg = zoom.axis
        BY DEF ZoomInv
      <4>3. QED BY <2>3, <4>1, <4>2
    <3>5. QED BY <2>1, <3>1, <3>3, <3>4 DEF ZoomInv
  <2>5. CASE RunZoom(timers[1])
    <3>1. zoom' = [zoom EXCEPT !.bars = timers[1].arg] /\ ZoomTimer(timers[1])
      BY <2>5 DEF RunZoom
    <3>2. timers[1].arg \in Ranges \cup {Whole}
      BY <2>2, <3>1 DEF TimerSet, ZoomTimer
    <3>3. None(timers') => LastZoom(1)
      <4>1. SUFFICES ASSUME None(timers'), NEW i \in 1 .. Len(timers), i > 1 PROVE ~ZoomTimer(timers[i])
        BY <2>2, <3>1 DEF LastZoom
      <4>2. i - 1 \in 1 .. Len(timers') /\ (i - 1) + 1 = i
        BY <2>2, <4>1
      <4>3. timers'[i - 1] = timers[i]
        BY <2>2, <4>2
      <4>4. QED BY <4>1, <4>2, <4>3
    <3>4. zoom'.axis = zoom.axis /\ zoom'.button = zoom.button /\ zoom'.bars = timers[1].arg
      BY <3>1 DEF ZoomInv
    <3>5. ZoomMatchesSelection'
      BY <1>a, <2>1, <2>2, <3>3, <3>4 DEF ZoomInv, ZoomMatchesSelection, ZoomTimer
    <3>6. zoom' \in [axis : Ranges \cup {Whole}, bars : Ranges \cup {Whole},
                     button : {"hidden", "shown", "fading"}]
      BY <3>1, <3>2 DEF ZoomInv
    <3>7. QED BY <2>1, <2>3, <3>4, <3>5, <3>6 DEF ZoomInv, LastZoom
  <2>6. QED BY <1>7, <2>2, <2>4, <2>5 DEF TimerFires
<1>8. CASE ButtonFaded
  <2>1. zoom.button = "fading" /\ zoom' = [zoom EXCEPT !.button = "hidden"] /\ UNCHANGED <<timers, mouse, jumped>>
    BY <1>8 DEF ButtonFaded
  <2>2. /\ zoom' \in [axis : Ranges \cup {Whole}, bars : Ranges \cup {Whole},
                      button : {"hidden", "shown", "fading"}]
        /\ zoom'.axis = zoom.axis /\ zoom'.bars = zoom.bars /\ zoom'.button = "hidden"
    BY <2>1 DEF ZoomInv
  <2>3. QED BY <2>1, <2>2 DEF ZoomInv, ZoomMatchesSelection, LastZoom, ZoomTimer
<1>9. ASSUME NEW s \in Spans, ClickExpander(s) \/ ClickSpan(s) PROVE ZoomInv'
  <2>1. UNCHANGED <<timers, zoom, jumped>> /\ mouse' = [mouse EXCEPT !.ups = 0, !.rect = "off"]
    BY <1>9 DEF ClickExpander, ClickSpan, PlainClick
  <2>2. QED BY <1>0, <2>1 DEF ZoomInv
<1>10. ASSUME PressMouse \/ MoveMouse \/ ReleaseMouse PROVE ZoomInv'
  <2>1. UNCHANGED <<timers, zoom, jumped>>
    BY <1>10 DEF PressMouse, MoveMouse, ReleaseMouse
  <2>2. /\ mouse' \in [downs : Nat, ups : Nat, rect : {"off", "point", "drawn"}]
        /\ mouse'.downs = mouse.downs
    <3>1. CASE PressMouse
      <4>1. mouse' = [mouse EXCEPT !.ups = @ + mouse.downs, !.rect = "point"]
        BY <3>1 DEF PressMouse
      <4>2. mouse \in [downs : Nat, ups : Nat, rect : {"off", "point", "drawn"}]
        BY DEF ZoomInv
      <4>3. mouse.ups + mouse.downs \in Nat
        BY <4>2
      <4>4. QED BY <4>1, <4>2, <4>3
    <3>2. CASE MoveMouse
      BY <3>2 DEF MoveMouse, ZoomInv
    <3>3. CASE ReleaseMouse
      BY <3>3 DEF ReleaseMouse, ZoomInv
    <3>4. QED BY <1>10, <3>1, <3>2, <3>3
  <2>3. QED BY <1>0, <2>1, <2>2
<1>11. ASSUME ExpandAll \/ CollapseAll \/ ClosePanel \/ UNCHANGED traceVars PROVE ZoomInv'
  <2>1. UNCHANGED <<timers, zoom, jumped, mouse>>
    BY <1>11 DEF ExpandAll, CollapseAll, ClosePanel, traceVars, zoomVars
  <2>2. QED BY <1>0, <2>1 DEF ZoomInv
<1>12. QED
  BY <1>2, <1>5, <1>6, <1>7, <1>8, <1>9, <1>10, <1>11 DEF TraceNext, UserActs
-----------------------------------------------------------------------------
(* The services whose filters are set, as the buttons count them.          *)
AllInv(a) ==
  /\ a \in [filtered : SUBSET FilterNames, count : Nat, expandActive : BOOLEAN, collapseActive : BOOLEAN]
  /\ a.count = Cardinality(a.filtered)

ButtonsRight(a) ==
  /\ a.filtered \subseteq SpanServices
  /\ Total > 1 => /\ a.expandActive = (a.filtered = SpanServices)
                  /\ a.collapseActive = (a.filtered = {})

(* One event after the other: the button of the last service that is added  *)
(* is pressed, the other one released by the first.                         *)
LEMMA AddedKeeps ==
  ASSUME NEW a, AllInv(a), NEW names \in SUBSET FilterNames
  PROVE  /\ AllInv(AllAdded(a, names)) /\ AllAdded(a, names).filtered = a.filtered \cup names
         /\ ButtonsRight(a) /\ names \subseteq SpanServices => ButtonsRight(AllAdded(a, names))
<1> DEFINE new == names \ a.filtered
           b == AllAdded(a, names)
           m == Cardinality(new)
<1>1. /\ a.filtered \subseteq FilterNames /\ a.count \in Nat /\ a.count = Cardinality(a.filtered)
      /\ a.expandActive \in BOOLEAN /\ a.collapseActive \in BOOLEAN
  BY DEF AllInv
<1>2. IsFiniteSet(a.filtered) /\ IsFiniteSet(new)
  BY <1>1, FS_Subset, NamesAreFinite
<1>3. m \in Nat /\ (m = 0 <=> new = {}) /\ (a.count = 0 <=> a.filtered = {})
  BY <1>1, <1>2, FS_CardinalityType, FS_EmptySet
<1>4. a.filtered \cap new = {} /\ a.filtered \cup new = a.filtered \cup names
  OBVIOUS
<1>5. Cardinality(a.filtered \cup new) = a.count + m
  <2>1. Cardinality(a.filtered \cup new) = Cardinality(a.filtered) + Cardinality(new) - Cardinality(a.filtered \cap new)
    BY <1>2, FS_Union
  <2>2. Cardinality(a.filtered \cap new) = 0
    BY <1>4, FS_EmptySet
  <2>3. QED BY <1>1, <1>3, <2>1, <2>2
<1>6. b = [filtered |-> a.filtered \cup new, count |-> a.count + m,
           expandActive |-> a.expandActive \/ Total \in (a.count + 1) .. (a.count + m),
           collapseActive |-> a.collapseActive /\ (a.count + 1) .. (a.count + m) \subseteq {Total}]
  BY DEF AllAdded
<1>7. AllInv(b) /\ b.filtered = a.filtered \cup names
  BY <1>1, <1>3, <1>4, <1>5, <1>6 DEF AllInv
<1>8. ASSUME ButtonsRight(a), names \subseteq SpanServices PROVE ButtonsRight(b)
  <2>1. b.filtered \subseteq SpanServices
    BY <1>7, <1>8 DEF ButtonsRight
  <2>2. /\ Total \in Nat
        /\ b.filtered = SpanServices <=> a.count + m = Total
        /\ a.filtered = SpanServices <=> a.count = Total
        /\ a.count + m <= Total
    <3>1. a.filtered \in SUBSET SpanServices /\ a.filtered \cup new \in SUBSET SpanServices
      BY <1>4, <1>8 DEF ButtonsRight
    <3>2. /\ Total \in Nat /\ Cardinality(a.filtered \cup new) <= Total
          /\ Cardinality(a.filtered \cup new) = Total <=> a.filtered \cup new = SpanServices
          /\ Cardinality(a.filtered) = Total <=> a.filtered = SpanServices
      BY <3>1, NamesAreFinite, FS_CardinalityType, FS_Subset DEF Total
    <3>3. QED BY <1>1, <1>4, <1>5, <1>7, <3>2
  <2>3. b.filtered = {} <=> a.count = 0 /\ m = 0
    BY <1>3, <1>4, <1>7
  <2>4. /\ b.expandActive = (a.expandActive \/ Total \in (a.count + 1) .. (a.count + m))
        /\ b.collapseActive = (a.collapseActive /\ (a.count + 1) .. (a.count + m) \subseteq {Total})
    BY <1>6
  <2>5. ASSUME Total > 1
        PROVE  /\ a.expandActive = (a.count = Total) /\ a.collapseActive = (a.count = 0)
    BY <1>3, <1>8, <2>2, <2>5 DEF ButtonsRight
  <2> HIDE DEF m, new, b
  <2>6. Total \in (a.count + 1) .. (a.count + m) <=> (m > 0 /\ a.count + m = Total)
    BY <1>1, <1>3, <2>2
  <2>7. ASSUME Total > 1, a.count = 0
        PROVE  (a.count + 1) .. (a.count + m) \subseteq {Total} <=> m = 0
    <3>1. m > 0 => 1 \in (a.count + 1) .. (a.count + m)
      BY <1>1, <1>3, <2>7
    <3>2. m = 0 => (a.count + 1) .. (a.count + m) = {}
      BY <1>1, <1>3
    <3>3. QED BY <1>3, <2>2, <2>7, <3>1, <3>2
  <2>8. ASSUME Total > 1
        PROVE  b.expandActive = (b.filtered = SpanServices) /\ b.collapseActive = (b.filtered = {})
    <3>1. b.expandActive <=> (a.count = Total \/ (m > 0 /\ a.count + m = Total))
      BY <2>4, <2>5, <2>6, <2>8
    <3>2. b.expandActive <=> a.count + m = Total
      BY <1>1, <1>3, <2>2, <3>1
    <3>3. b.collapseActive <=> (a.count = 0 /\ m = 0)
      BY <2>4, <2>5, <2>7, <2>8
    <3>4. b.expandActive \in BOOLEAN /\ b.collapseActive \in BOOLEAN
      BY <1>7 DEF AllInv
    <3>5. QED BY <2>2, <2>3, <3>2, <3>3, <3>4
  <2>9. QED BY <2>1, <2>8 DEF ButtonsRight
<1>9. QED BY <1>7, <1>8

LEMMA RemovedKeeps ==
  ASSUME NEW a, AllInv(a), NEW names
  PROVE  /\ AllInv(AllRemoved(a, names)) /\ AllRemoved(a, names).filtered = a.filtered \ names
         /\ ButtonsRight(a) => ButtonsRight(AllRemoved(a, names))
<1> DEFINE gone == names \cap a.filtered
           b == AllRemoved(a, names)
           m == Cardinality(gone)
<1>1. /\ a.filtered \subseteq FilterNames /\ a.count \in Nat /\ a.count = Cardinality(a.filtered)
      /\ a.expandActive \in BOOLEAN /\ a.collapseActive \in BOOLEAN
  BY DEF AllInv
<1>2. IsFiniteSet(a.filtered)
  BY <1>1, FS_Subset, NamesAreFinite
<1>3. gone \in SUBSET a.filtered /\ a.filtered \cap gone = gone /\ a.filtered \ gone = a.filtered \ names
  OBVIOUS
<1>4. IsFiniteSet(gone) /\ m <= a.count /\ m \in Nat /\ (m = 0 <=> gone = {})
  BY <1>1, <1>2, <1>3, FS_Subset, FS_CardinalityType, FS_EmptySet
<1>5. Cardinality(a.filtered \ gone) = a.count - m /\ IsFiniteSet(a.filtered \ gone)
  <2>1. /\ IsFiniteSet(a.filtered \ gone)
        /\ Cardinality(a.filtered \ gone) = Cardinality(a.filtered) - Cardinality(a.filtered \cap gone)
    BY <1>2, FS_Difference
  <2>2. QED BY <1>1, <1>3, <2>1
<1>6. a.filtered \ gone = {} <=> a.count = m
  <2>1. Cardinality(a.filtered \ gone) = 0 <=> a.filtered \ gone = {}
    BY <1>5, FS_EmptySet
  <2>2. QED BY <1>1, <1>4, <1>5, <2>1
<1>7. b = [filtered |-> a.filtered \ gone, count |-> a.count - m,
           expandActive |-> a.expandActive /\ (a.count - m) .. (a.count - 1) \subseteq {0},
           collapseActive |-> a.collapseActive \/ 0 \in (a.count - m) .. (a.count - 1)]
  BY DEF AllRemoved
<1> HIDE DEF b
<1>8. AllInv(b) /\ b.filtered = a.filtered \ names
  <2>1. a.count - m \in Nat
    BY <1>1, <1>4
  <2>2. QED BY <1>1, <1>3, <1>5, <1>7, <2>1 DEF AllInv
<1>9. ASSUME ButtonsRight(a) PROVE ButtonsRight(b)
  <2>1. b.filtered \subseteq SpanServices
    BY <1>8, <1>9 DEF ButtonsRight
  <2>2. /\ Total \in Nat /\ a.count <= Total
        /\ a.filtered = SpanServices <=> a.count = Total
        /\ b.filtered = SpanServices <=> a.count - m = Total
    <3>1. a.filtered \in SUBSET SpanServices /\ a.filtered \ gone \in SUBSET SpanServices
      BY <1>9 DEF ButtonsRight
    <3>2. /\ Total \in Nat /\ Cardinality(a.filtered) <= Total
          /\ Cardinality(a.filtered) = Total <=> a.filtered = SpanServices
          /\ Cardinality(a.filtered \ gone) = Total <=> a.filtered \ gone = SpanServices
      BY <3>1, NamesAreFinite, FS_CardinalityType, FS_Subset DEF Total
    <3>3. QED BY <1>1, <1>3, <1>5, <1>8, <3>2
  <2>3. b.filtered = {} <=> a.count = m
    BY <1>3, <1>6, <1>8
  <2>4. /\ b.expandActive = (a.expandActive /\ (a.count - m) .. (a.count - 1) \subseteq {0})
        /\ b.collapseActive = (a.collapseActive \/ 0 \in (a.count - m) .. (a.count - 1))
    BY <1>7
  <2>5. ASSUME Total > 1
        PROVE  /\ a.expandActive = (a.count = Total) /\ a.collapseActive = (a.count = 0)
    <3>1. a.count = 0 <=> a.filtered = {}
      BY <1>1, <1>2, FS_EmptySet
    <3>2. QED BY <1>9, <2>2, <2>5, <3>1 DEF ButtonsRight
  <2> HIDE DEF m, gone
  <2>6. 0 \in (a.count - m) .. (a.count - 1) <=> (m > 0 /\ a.count = m)
    BY <1>1, <1>4
  <2>7. ASSUME Total > 1, a.count = Total
        PROVE  (a.count - m) .. (a.count - 1) \subseteq {0} <=> m = 0
    <3>1. m > 0 => a.count - 1 \in (a.count - m) .. (a.count - 1) /\ a.count - 1 # 0
      BY <1>1, <1>4, <2>2, <2>7
    <3>2. m = 0 => (a.count - m) .. (a.count - 1) = {}
      BY <1>1, <1>4
    <3>3. CASE m = 0
      BY <3>2, <3>3
    <3>4. CASE m > 0
      <4>1. ~((a.count - m) .. (a.count - 1) \subseteq {0})
        BY <3>1, <3>4, Zenon
      <4>2. QED BY <3>4, <4>1
    <3>5. QED BY <1>4, <3>3, <3>4
  <2>8. ASSUME Total > 1
        PROVE  b.expandActive = (b.filtered = SpanServices) /\ b.collapseActive = (b.filtered = {})
    <3>1. b.collapseActive <=> (a.count = 0 \/ (m > 0 /\ a.count = m))
      BY <2>4, <2>5, <2>6, <2>8
    <3>2. b.collapseActive <=> a.count = m
      BY <1>1, <1>4, <3>1
    <3>3. b.expandActive <=> (a.count = Total /\ m = 0)
      BY <2>4, <2>5, <2>7, <2>8
    <3>4. b.expandActive <=> a.count - m = Total
      BY <1>1, <1>4, <2>2, <3>3
    <3>5. b.expandActive \in BOOLEAN /\ b.collapseActive \in BOOLEAN
      BY <1>8 DEF AllInv
    <3>6. QED BY <2>2, <2>3, <3>2, <3>4, <3>5
  <2>9. QED BY <2>1, <2>8 DEF ButtonsRight
<1>10. QED BY <1>8, <1>9 DEF b
\* What filter events do to the labels and buttons, and the buttons to everything.
FilterInv ==
  /\ AllInv(all) /\ tagged = all.filtered \cap SpanServices
  /\ looked \subseteq FilterNames /\ actingOnAll \in BOOLEAN
  /\ StuckMeansNeverLookedUp
  /\ url # OtherService => ButtonsRight(all) /\ looked \subseteq SpanServices

LEMMA TagAddedKeeps ==
  ASSUME FilterInv, url' = url, looked' = looked, NEW names \in SUBSET FilterNames, TagAdded(names),
         url # OtherService => names \subseteq SpanServices,
         actingOnAll' \in BOOLEAN, StuckMeansNeverLookedUp'
  PROVE  FilterInv'
<1>1. /\ all' = AllAdded(all, names) /\ all'.filtered = all.filtered \cup names /\ AllInv(all')
      /\ ButtonsRight(all) /\ names \subseteq SpanServices => ButtonsRight(all')
  BY AddedKeeps DEF FilterInv, TagAdded
<1>2. tagged' = all'.filtered \cap SpanServices
  BY <1>1 DEF FilterInv, TagAdded
<1>3. QED BY <1>1, <1>2 DEF FilterInv

LEMMA TagRemovedKeeps ==
  ASSUME FilterInv, url' = url, looked' = looked, NEW names, TagRemoved(names),
         actingOnAll' \in BOOLEAN, StuckMeansNeverLookedUp'
  PROVE  FilterInv'
<1>1. /\ all' = AllRemoved(all, names) /\ all'.filtered = all.filtered \ names /\ AllInv(all')
      /\ ButtonsRight(all) => ButtonsRight(all')
  BY RemovedKeeps DEF FilterInv, TagRemoved
<1>2. tagged' = all'.filtered \cap SpanServices
  BY <1>1 DEF FilterInv, TagRemoved
<1>3. QED BY <1>1, <1>2 DEF FilterInv

LEMMA StepFilters == LateInv /\ FilterInv /\ [TraceNext]_traceVars => FilterInv'
<1> SUFFICES ASSUME LateInv, FilterInv, [TraceNext]_traceVars PROVE FilterInv'
  OBVIOUS
<1>0. ASSUME UNCHANGED <<all, tagged, looked, actingOnAll, url>> PROVE FilterInv'
  BY <1>0 DEF FilterInv, StuckMeansNeverLookedUp
<1>1. ASSUME NEW svc \in SpanServices, ClickLabel(svc) \/ Search(svc) PROVE FilterInv'
  <2>1. UNCHANGED <<looked, actingOnAll, url>> /\ (TagAdded({svc}) \/ TagRemoved({svc}))
    BY <1>1 DEF ClickLabel, Search, spanVars
  <2>2. actingOnAll' \in BOOLEAN /\ StuckMeansNeverLookedUp' /\ {svc} \in SUBSET FilterNames /\ {svc} \subseteq SpanServices
    BY <2>1 DEF FilterInv, StuckMeansNeverLookedUp, FilterNames
  <2>3. QED BY <2>1, <2>2, TagAddedKeeps, TagRemovedKeeps
<1>2. CASE ExpandAll
  <2>1. UNCHANGED <<looked, url>>
    BY <1>2 DEF ExpandAll
  <2>2. Keys \in SUBSET FilterNames /\ (url # OtherService => Keys \subseteq SpanServices)
    BY DEF FilterInv, Keys, FilterNames
  <2>3. CASE SpanServices \subseteq looked
    <3>1. actingOnAll' = FALSE /\ TagAdded(Keys)
      BY <1>2, <2>3 DEF ExpandAll
    <3>2. actingOnAll' \in BOOLEAN /\ StuckMeansNeverLookedUp'
      BY <3>1 DEF StuckMeansNeverLookedUp
    <3>3. QED BY <2>1, <2>2, <3>1, <3>2, TagAddedKeeps
  <2>4. CASE ~(SpanServices \subseteq looked)
    <3>1. actingOnAll' = TRUE /\ UNCHANGED <<all, tagged>>
      BY <1>2, <2>4 DEF ExpandAll
    <3>2. QED BY <2>1, <2>4, <3>1 DEF FilterInv, StuckMeansNeverLookedUp
  <2>5. QED BY <2>3, <2>4
<1>3. CASE CollapseAll
  <2>1. UNCHANGED <<looked, url>> /\ actingOnAll' = FALSE /\ TagRemoved(Keys)
    BY <1>3 DEF CollapseAll
  <2>2. actingOnAll' \in BOOLEAN /\ StuckMeansNeverLookedUp'
    BY <2>1 DEF StuckMeansNeverLookedUp
  <2>3. QED BY <2>1, <2>2, TagRemovedKeeps
<1>4. CASE TimerFires
  <2>1. timers # <<>> /\ UNCHANGED <<actingOnAll, all, tagged, url>> /\ (RunFilter(Head(timers)) \/ RunZoom(Head(timers)))
    BY <1>4 DEF TimerFires
  <2>2. Head(timers) = timers[1] /\ timers[1] \in TimerSet /\ 1 \in 1 .. Len(timers)
    BY <2>1, HeadTailProperties, EmptySeq, LenProperties DEF LateInv
  <2>3. CASE looked' = looked
    BY <1>0, <2>1, <2>3
  <2>4. CASE looked' # looked
    <3>1. ~actingOnAll /\ looked' = looked \cup {timers[1].arg} /\ timers[1].kind \in {"add", "remove"}
      BY <2>1, <2>2, <2>4 DEF RunFilter, RunZoom
    <3>2. timers[1].arg \in FilterNames /\ (url # OtherService => timers[1].arg \in SpanServices)
      BY <2>2, <3>1 DEF TimerSet, LateInv, Fits
    <3>3. QED BY <2>1, <3>1, <3>2 DEF FilterInv, StuckMeansNeverLookedUp
  <2>5. QED BY <2>3, <2>4
<1>5. ASSUME NEW s \in Spans, ClickExpander(s) \/ ClickSpan(s) PROVE FilterInv'
  BY <1>0, <1>5 DEF ClickExpander, ClickSpan, spanVars
<1>6. ASSUME NEW rs \in Selections, SelectRange(rs) PROVE FilterInv'
  BY <1>0, <1>6 DEF SelectRange, spanVars
<1>7. CASE ClosePanel \/ PressMouse \/ MoveMouse \/ ReleaseMouse \/ ButtonFaded \/ ZoomOut
  BY <1>0, <1>7 DEF ClosePanel, PressMouse, MoveMouse, ReleaseMouse, ButtonFaded, ZoomOut, spanVars
<1>8. CASE UNCHANGED traceVars
  BY <1>0, <1>8 DEF traceVars, spanVars
<1>9. QED
  BY <1>1, <1>2, <1>3, <1>4, <1>5, <1>6, <1>7, <1>8 DEF TraceNext, UserActs
-----------------------------------------------------------------------------
(* What a span looks like under a set of filters, and that a filter that is *)
(* applied or taken away makes it look so under the new set.               *)
ViewOf(F, sp) ==
  \A s \in Spans :
    /\ sp[s].inFilters = Count(F, {s})
    /\ sp[s].openParents = Count(F, {Parent[s]})
    /\ sp[s].openChildren = Count(F, Descendants(s))
    /\ sp[s].highlight = (sp[s].inFilters > 0)
    /\ sp[s].shown = Wanted(sp[s])

\* The counters of a span move by what CountAdds says.
LEMMA TouchesCounted ==
  ASSUME NEW f, NEW s \in Spans
  PROVE  LET C == Chosen(f)  w == Weight(f) IN
         /\ Touched(C, w, s) = w * Cardinality({s} \cap C)
         /\ ParentTouched(C, w, s) = w * Cardinality({Parent[s]} \cap C)
         /\ BelowTouched(C, w, s) = w * Cardinality(Descendants(s) \cap C)
         /\ Touched(C, w, s) \in Nat /\ ParentTouched(C, w, s) \in Nat /\ BelowTouched(C, w, s) \in Nat
         /\ Touched(C, w, s) = IF s \in C THEN w ELSE 0
         /\ ParentTouched(C, w, s) > 0 <=> Parent[s] \in C
         /\ BelowTouched(C, w, s) > 0 <=> Descendants(s) \cap C # {}
         /\ w \in {1, 2}
<1> DEFINE C == Chosen(f)
           w == Weight(f)
           n == Cardinality(Descendants(s) \cap C)
<1>1. w \in {1, 2} /\ n \in Nat /\ IsFiniteSet(Descendants(s) \cap C)
  BY CellsCounted
<1>2. n = 0 <=> Descendants(s) \cap C = {}
  BY <1>1, FS_EmptySet
<1> HIDE DEF C, w
<1>3. ASSUME NEW x PROVE w * Cardinality({x} \cap C) = IF x \in C THEN w ELSE 0
  <2>1. CASE x \in C
    <3>1. {x} \cap C = {x} /\ Cardinality({x}) = 1
      BY <2>1, FS_Singleton
    <3>2. w * 1 = w
      BY <1>1
    <3>3. QED BY <2>1, <3>1, <3>2
  <2>2. CASE x \notin C
    <3>1. {x} \cap C = {} /\ Cardinality({}) = 0
      BY <2>2, FS_EmptySet
    <3>2. w * 0 = 0
      BY <1>1
    <3>3. QED BY <2>2, <3>1, <3>2
  <2>3. QED BY <2>1, <2>2
<1>4. /\ Touched(C, w, s) = IF s \in C THEN w ELSE 0
      /\ ParentTouched(C, w, s) = IF Parent[s] \in C THEN w ELSE 0
      /\ BelowTouched(C, w, s) = w * n
  BY DEF Touched, ParentTouched, BelowTouched
<1>5. w * n \in Nat /\ (w * n > 0 <=> n # 0)
  <2> HIDE DEF n
  <2>1. QED BY <1>1
<1>6. QED BY <1>1, <1>2, <1>3, <1>4, <1>5 DEF C, w

LEMMA ExpandShows ==
  ASSUME NEW F, IsFiniteSet(F), NEW f, f \notin F, NEW sp, SpansKnown(sp), ViewOf(F, sp)
  PROVE  ViewOf(F \cup {f}, Expand(sp, Chosen(f), Weight(f)))
<1> DEFINE C == Chosen(f)
           w == Weight(f)
           ex == Expand(sp, C, w)
           G == F \cup {f}
<1>1. SUFFICES ASSUME NEW s \in Spans
               PROVE  /\ ex[s].inFilters = Count(G, {s})
                      /\ ex[s].openParents = Count(G, {Parent[s]})
                      /\ ex[s].openChildren = Count(G, Descendants(s))
                      /\ ex[s].highlight = (ex[s].inFilters > 0)
                      /\ ex[s].shown = Wanted(ex[s])
  BY DEF ViewOf
<1> DEFINE x == sp[s]
           a == Touched(C, w, s)
           p == ParentTouched(C, w, s)
           n == BelowTouched(C, w, s)
           passed == s \in C /\ 0 \in x.inFilters .. (x.inFilters + w - 1)
<1>2. /\ a = w * Cardinality({s} \cap C) /\ p = w * Cardinality({Parent[s]} \cap C)
      /\ n = w * Cardinality(Descendants(s) \cap C)
      /\ a \in Nat /\ p \in Nat /\ n \in Nat /\ a = IF s \in C THEN w ELSE 0
      /\ p > 0 <=> Parent[s] \in C
      /\ n > 0 <=> Descendants(s) \cap C # {}
      /\ w \in {1, 2}
  BY TouchesCounted
<1>3. /\ x.inFilters = Count(F, {s}) /\ x.openParents = Count(F, {Parent[s]})
      /\ x.openChildren = Count(F, Descendants(s))
      /\ x.highlight = (x.inFilters > 0) /\ x.shown = Wanted(x)
  BY DEF ViewOf
<1>4. x.inFilters \in Nat /\ x.openParents \in Nat /\ x.openChildren \in Nat
  BY <1>3, CountIsNumber
<1>5. /\ Count(G, {s}) = Count(F, {s}) + w * Cardinality({s} \cap C)
      /\ Count(G, {Parent[s]}) = Count(F, {Parent[s]}) + w * Cardinality({Parent[s]} \cap C)
      /\ Count(G, Descendants(s)) = Count(F, Descendants(s)) + w * Cardinality(Descendants(s) \cap C)
  BY CountAdds
<1> DEFINE opened == x.expanded \/ s \in C
           red == x.highlight \/ passed
           seen == x.shown \/ passed \/ Parent[s] \in C \/ Descendants(s) \cap C # {}
<1>6. ex[s] = [inFilters    |-> x.inFilters + a,
               openChildren |-> x.openChildren + n,
               openParents  |-> x.openParents + p,
               expanded |-> opened, highlight |-> red, shown |-> seen]
  BY DEF Expand
<1> HIDE DEF a, p, n, ex, C, w, x
<1>7. passed <=> s \in C /\ x.inFilters = 0
  BY <1>2, <1>4
<1> HIDE DEF passed, opened, red, seen
<1>8. /\ ex[s].inFilters = x.inFilters + a /\ ex[s].openChildren = x.openChildren + n
      /\ ex[s].openParents = x.openParents + p
      /\ ex[s].highlight = red /\ ex[s].shown = seen
  BY <1>6
<1>9. red <=> x.inFilters + a > 0
  <2>1. x.highlight <=> x.inFilters > 0
    BY <1>3
  <2>2. x.inFilters + a > 0 <=> (x.inFilters > 0 \/ passed)
    BY <1>2, <1>4, <1>7
  <2>3. QED BY <2>1, <2>2 DEF red
<1>10. seen <=> Wanted(ex[s])
  <2>1. Wanted(x) <=> (x.inFilters > 0 \/ x.openChildren > 0 \/ x.openParents > 0)
    BY DEF Wanted
  <2>2. Wanted(ex[s]) <=> (x.inFilters + a > 0 \/ x.openChildren + n > 0 \/ x.openParents + p > 0)
    BY <1>8 DEF Wanted
  <2>3. x.inFilters + a > 0 <=> (x.inFilters > 0 \/ passed)
    BY <1>2, <1>4, <1>7
  <2>4. x.openChildren + n > 0 <=> (x.openChildren > 0 \/ Descendants(s) \cap C # {})
    BY <1>2, <1>4
  <2>5. x.openParents + p > 0 <=> (x.openParents > 0 \/ Parent[s] \in C)
    BY <1>2, <1>4
  <2>6. QED BY <1>3, <2>1, <2>2, <2>3, <2>4, <2>5 DEF seen
<1>11. Wanted(ex[s]) \in BOOLEAN /\ red \in BOOLEAN /\ seen \in BOOLEAN
  BY DEF Wanted, red, seen
<1>12. QED BY <1>2, <1>3, <1>5, <1>8, <1>9, <1>10, <1>11

LEMMA CollapseShows ==
  ASSUME NEW F, IsFiniteSet(F), NEW f, f \notin F, NEW sp, SpansKnown(sp), ViewOf(F \cup {f}, sp)
  PROVE  ViewOf(F, Collapse(sp, Chosen(f), Weight(f), FALSE))
<1> DEFINE C == Chosen(f)
           w == Weight(f)
           co == Collapse(sp, C, w, FALSE)
           G == F \cup {f}
<1>1. SUFFICES ASSUME NEW s \in Spans
               PROVE  /\ co[s].inFilters = Count(F, {s})
                      /\ co[s].openParents = Count(F, {Parent[s]})
                      /\ co[s].openChildren = Count(F, Descendants(s))
                      /\ co[s].highlight = (co[s].inFilters > 0)
                      /\ co[s].shown = Wanted(co[s])
  BY DEF ViewOf
<1> DEFINE x == sp[s]
           a == Touched(C, w, s)
           p == ParentTouched(C, w, s)
           n == BelowTouched(C, w, s)
           to == x.inFilters - a
           passed == ~FALSE /\ s \in C /\ 0 \in to .. (to + w - 1)
           hides == Parent[s] \in C \/ (~FALSE /\ Descendants(s) \cap C # {})
           y == [inFilters    |-> to,
                 openChildren |-> IF FALSE THEN x.openChildren ELSE x.openChildren - n,
                 openParents  |-> x.openParents - p,
                 expanded     |-> x.expanded /\ s \notin C,
                 highlight    |-> x.highlight /\ ~passed,
                 shown        |-> x.shown]
<1>2. /\ a = w * Cardinality({s} \cap C) /\ p = w * Cardinality({Parent[s]} \cap C)
      /\ n = w * Cardinality(Descendants(s) \cap C)
      /\ a \in Nat /\ p \in Nat /\ n \in Nat /\ a = IF s \in C THEN w ELSE 0
      /\ p > 0 <=> Parent[s] \in C
      /\ n > 0 <=> Descendants(s) \cap C # {}
      /\ w \in {1, 2}
  BY TouchesCounted
<1>3. /\ x.inFilters = Count(G, {s}) /\ x.openParents = Count(G, {Parent[s]})
      /\ x.openChildren = Count(G, Descendants(s))
      /\ x.highlight = (x.inFilters > 0) /\ x.shown = Wanted(x)
  BY DEF ViewOf
<1>4. Count(F, {s}) \in Nat /\ Count(F, {Parent[s]}) \in Nat /\ Count(F, Descendants(s)) \in Nat
  BY CountIsNumber
<1>5. /\ Count(G, {s}) = Count(F, {s}) + w * Cardinality({s} \cap C)
      /\ Count(G, {Parent[s]}) = Count(F, {Parent[s]}) + w * Cardinality({Parent[s]} \cap C)
      /\ Count(G, Descendants(s)) = Count(F, Descendants(s)) + w * Cardinality(Descendants(s) \cap C)
  BY CountAdds
<1>6. co[s] = [y EXCEPT !.shown = @ /\ ~((passed \/ hides) /\ ~Wanted(y))]
  BY DEF Collapse
<1> HIDE DEF a, p, n, co, C, w, x
<1>7. /\ to = Count(F, {s}) /\ x.openParents - p = Count(F, {Parent[s]})
      /\ x.openChildren - n = Count(F, Descendants(s))
      /\ x.inFilters = to + a /\ x.openParents = Count(F, {Parent[s]}) + p
      /\ x.openChildren = Count(F, Descendants(s)) + n
  BY <1>2, <1>3, <1>4, <1>5
<1> HIDE DEF to
<1>8. passed <=> s \in C /\ to = 0
  BY <1>2, <1>4, <1>7
<1>9. hides <=> p > 0 \/ n > 0
  BY <1>2
<1>10. /\ y.inFilters = to /\ y.openChildren = x.openChildren - n /\ y.openParents = x.openParents - p
       /\ y.highlight = (x.highlight /\ ~passed) /\ y.shown = x.shown
  OBVIOUS
<1>11. Wanted(y) <=> (to > 0 \/ x.openChildren - n > 0 \/ x.openParents - p > 0)
  BY <1>10 DEF Wanted
<1>12. /\ co[s].inFilters = to /\ co[s].openChildren = x.openChildren - n
       /\ co[s].openParents = x.openParents - p
       /\ co[s].highlight = (x.highlight /\ ~passed)
       /\ co[s].shown = (x.shown /\ ~((passed \/ hides) /\ ~Wanted(y)))
  BY <1>6
<1> HIDE DEF passed, hides, y
<1>13. Wanted(co[s]) <=> Wanted(y)
  BY <1>11, <1>12 DEF Wanted
<1>14. x.highlight /\ ~passed <=> to > 0
  <2>1. x.highlight <=> to + a > 0
    BY <1>3, <1>7
  <2>2. (to + a > 0 /\ ~passed) <=> to > 0
    BY <1>2, <1>4, <1>7, <1>8
  <2>3. QED BY <2>1, <2>2
<1>15. Wanted(x) <=> (to + a > 0 \/ x.openChildren > 0 \/ x.openParents > 0)
  BY <1>7 DEF Wanted
<1>16. Wanted(x) /\ ~((passed \/ hides) /\ ~Wanted(y)) <=> Wanted(y)
  BY <1>2, <1>4, <1>7, <1>8, <1>9, <1>11, <1>15
<1>17. Wanted(co[s]) \in BOOLEAN
  BY DEF Wanted
<1>18. QED BY <1>3, <1>7, <1>12, <1>13, <1>14, <1>16, <1>17
-----------------------------------------------------------------------------
(* The callbacks of one service wait in turn: each undoes the one before   *)
(* it, and the last one leads to what the labels say.  q stands for timers *)
(* and fs for all.filtered, before a step or after it.                     *)
In(q, x) == {i \in DOMAIN q : q[i].kind # "zoom" /\ q[i].arg = x}
FirstIn(q, x, i) == i \in In(q, x) /\ \A j \in In(q, x) : i <= j
NextIn(q, x, i, j) == j \in In(q, x) /\ i < j /\ \A k \in In(q, x) : k <= i \/ k >= j

AppliedBy(q, fs, x) ==
  IF In(q, x) = {} THEN x \in fs
  ELSE q[CHOOSE i \in In(q, x) : \A j \in In(q, x) : i <= j].kind = "remove"

Alternate(q, fs, x) ==
  /\ In(q, x) # {} => \E i : FirstIn(q, x, i)
  /\ \A i \in In(q, x) :
       \/ \E j : NextIn(q, x, i, j) /\ q[i].kind # q[j].kind
       \/ (\A j \in In(q, x) : j <= i) /\ (q[i].kind = "add" <=> x \in fs)

LEMMA WaitingKnown ==
  ASSUME NEW q \in Seq(TimerSet), NEW x
  PROVE  /\ In(q, x) \subseteq 1 .. Len(q) /\ In(q, x) \subseteq Nat /\ Len(q) \in Nat
         /\ \A i \in 1 .. Len(q) : i \in In(q, x) <=> (q[i].kind # "zoom" /\ q[i].arg = x)
         /\ \A i \in In(q, x) : q[i].kind \in {"add", "remove"} /\ x \in FilterNames
<1>1. DOMAIN q = 1 .. Len(q) /\ Len(q) \in Nat /\ \A i \in 1 .. Len(q) : q[i] \in TimerSet
  BY LenProperties, ElementOfSeq
<1>2. QED BY <1>1 DEF In, TimerSet

LEMMA FirstTells ==
  ASSUME NEW q \in Seq(TimerSet), NEW fs, NEW x, NEW i, FirstIn(q, x, i)
  PROVE  AppliedBy(q, fs, x) <=> q[i].kind = "remove"
<1> DEFINE c == CHOOSE k \in In(q, x) : \A j \in In(q, x) : k <= j
<1>1. c \in In(q, x) /\ \A j \in In(q, x) : c <= j
  BY DEF FirstIn
<1>2. c = i
  BY <1>1, WaitingKnown DEF FirstIn
<1>3. In(q, x) # {}
  BY DEF FirstIn
<1>4. QED BY <1>2, <1>3 DEF AppliedBy

\* What does not concern x changes nothing for it.
LEMMA OthersKeep ==
  ASSUME NEW q, NEW r, NEW fs, NEW gs, NEW x, Alternate(q, fs, x), In(r, x) = In(q, x),
         \A i \in In(q, x) : r[i] = q[i], x \in gs <=> x \in fs
  PROVE  Alternate(r, gs, x) /\ (AppliedBy(r, gs, x) <=> AppliedBy(q, fs, x))
<1>1. Alternate(r, gs, x)
  BY DEF Alternate, FirstIn, NextIn
<1>2. CASE In(q, x) = {}
  BY <1>2, <1>1 DEF AppliedBy
<1>3. CASE In(q, x) # {}
  <2> DEFINE c == CHOOSE k \in In(q, x) : \A j \in In(q, x) : k <= j
  <2>1. c \in In(q, x)
    BY <1>3 DEF Alternate, FirstIn
  <2>2. r[c] = q[c]
    BY <2>1
  <2>3. QED BY <1>1, <1>3, <2>2 DEF AppliedBy
<1>4. QED BY <1>2, <1>3

(* An event that changes a label is put off behind what it undoes. *)
LEMMA EventKeeps ==
  ASSUME NEW q \in Seq(TimerSet), NEW r \in Seq(TimerSet), NEW fs, NEW gs, NEW x,
         Alternate(q, fs, x), Len(r) = Len(q) + 1, \A i \in 1 .. Len(q) : r[i] = q[i],
         NEW kind \in {"add", "remove"}, r[Len(q) + 1].kind = kind, r[Len(q) + 1].arg = x,
         kind = "add" <=> x \notin fs, kind = "add" <=> x \in gs
  PROVE  Alternate(r, gs, x) /\ (AppliedBy(r, gs, x) <=> AppliedBy(q, fs, x))
<1> DEFINE n == Len(q) + 1
<1>1. /\ Len(q) \in Nat /\ n \in 1 .. Len(r) /\ n \in Nat /\ \A i \in 1 .. Len(q) : i < n
      /\ 1 .. Len(r) = (1 .. Len(q)) \cup {n}
  BY WaitingKnown
<1>2. In(r, x) = In(q, x) \cup {n}
  <2>1. \A i \in 1 .. Len(q) : i \in In(r, x) <=> i \in In(q, x)
    BY <1>1, WaitingKnown
  <2>2. n \in In(r, x)
    BY <1>1, WaitingKnown
  <2>3. QED BY <1>1, <2>1, <2>2, WaitingKnown
<1>3. /\ \A i \in In(q, x) : i < n /\ i <= n /\ r[i] = q[i] /\ i \in Nat
      /\ r[n].kind = kind /\ n <= n
  BY <1>1, WaitingKnown
<1> HIDE DEF n
<1>4. CASE In(q, x) = {}
  <2>1. In(r, x) = {n}
    BY <1>2, <1>4
  <2>2. FirstIn(r, x, n) /\ \A j \in In(r, x) : j <= n
    BY <1>3, <2>1 DEF FirstIn
  <2>3. Alternate(r, gs, x)
    BY <1>3, <2>1, <2>2 DEF Alternate
  <2>4. AppliedBy(r, gs, x) <=> r[n].kind = "remove"
    BY <2>2, FirstTells
  <2>5. AppliedBy(q, fs, x) <=> x \in fs
    BY <1>4 DEF AppliedBy
  <2>6. QED BY <1>3, <2>3, <2>4, <2>5
<1>5. CASE In(q, x) # {}
  <2>1. PICK f : FirstIn(q, x, f)
    BY <1>5 DEF Alternate
  <2>2. FirstIn(r, x, f) /\ f \in In(q, x)
    BY <1>2, <1>3, <2>1 DEF FirstIn
  <2>3. AppliedBy(r, gs, x) <=> AppliedBy(q, fs, x)
    <3>1. AppliedBy(r, gs, x) <=> r[f].kind = "remove"
      BY <2>2, FirstTells
    <3>2. AppliedBy(q, fs, x) <=> q[f].kind = "remove"
      BY <2>1, FirstTells
    <3>3. QED BY <1>3, <2>2, <3>1, <3>2
  <2>4. ASSUME NEW i \in In(q, x)
        PROVE  \E j : NextIn(r, x, i, j) /\ r[i].kind # r[j].kind
    <3>1. CASE \E j : NextIn(q, x, i, j) /\ q[i].kind # q[j].kind
      <4>1. PICK j : NextIn(q, x, i, j) /\ q[i].kind # q[j].kind
        BY <3>1
      <4>2. NextIn(r, x, i, j)
        BY <1>2, <1>3, <4>1 DEF NextIn
      <4>3. r[i] = q[i] /\ r[j] = q[j]
        BY <1>3, <4>1 DEF NextIn
      <4>4. QED BY <4>1, <4>2, <4>3
    <3>2. CASE (\A j \in In(q, x) : j <= i) /\ (q[i].kind = "add" <=> x \in fs)
      <4>1. NextIn(r, x, i, n)
        BY <1>2, <1>3, <3>2 DEF NextIn
      <4>2. r[i].kind # r[n].kind
        BY <1>3, <3>2
      <4>3. QED BY <4>1, <4>2
    <3>3. QED BY <3>1, <3>2 DEF Alternate
  <2>5. (\A j \in In(r, x) : j <= n) /\ (r[n].kind = "add" <=> x \in gs)
    BY <1>2, <1>3
  <2>6. Alternate(r, gs, x)
    BY <1>2, <2>2, <2>4, <2>5 DEF Alternate
  <2>7. QED BY <2>3, <2>6
<1>6. QED BY <1>4, <1>5

(* A callback that runs applies its filter or takes it away, no other. *)
LEMMA FiringKeeps ==
  ASSUME NEW q \in Seq(TimerSet), NEW r \in Seq(TimerSet), NEW fs, NEW x,
         Alternate(q, fs, x), Len(q) \in Nat \ {0}, Len(r) = Len(q) - 1,
         \A i \in 1 .. Len(r) : r[i] = q[i + 1]
  PROVE  /\ Alternate(r, fs, x)
         /\ 1 \in In(q, x) => /\ AppliedBy(q, fs, x) <=> q[1].kind = "remove"
                              /\ AppliedBy(r, fs, x) <=> q[1].kind = "add"
         /\ 1 \notin In(q, x) => (AppliedBy(r, fs, x) <=> AppliedBy(q, fs, x))
<1>1. /\ \A i \in In(r, x) : i \in Nat /\ i >= 1 /\ i + 1 \in In(q, x) /\ r[i] = q[i + 1]
      /\ \A i \in In(q, x) : i \in Nat /\ (i = 1 \/ (i > 1 /\ i - 1 \in In(r, x) /\ r[i - 1] = q[i]))
  <2>1. ASSUME NEW i \in 1 .. Len(r) PROVE i + 1 \in 1 .. Len(q) /\ r[i] = q[i + 1]
    OBVIOUS
  <2>2. ASSUME NEW i \in 1 .. Len(r) PROVE i \in In(r, x) <=> i + 1 \in In(q, x)
    BY <2>1, WaitingKnown
  <2>3. ASSUME NEW i \in In(r, x)
        PROVE  i \in Nat /\ i >= 1 /\ i + 1 \in In(q, x) /\ r[i] = q[i + 1]
    <3>1. i \in 1 .. Len(r)
      BY WaitingKnown
    <3>2. QED BY <2>1, <2>2, <3>1
  <2>4. ASSUME NEW i \in In(q, x)
        PROVE  i \in Nat /\ (i = 1 \/ (i > 1 /\ i - 1 \in In(r, x) /\ r[i - 1] = q[i]))
    <3>1. i \in 1 .. Len(q)
      BY WaitingKnown
    <3>2. CASE i # 1
      <4>1. i - 1 \in 1 .. Len(r) /\ (i - 1) + 1 = i /\ i > 1 /\ i \in Nat
        BY <3>1, <3>2
      <4>2. QED BY <2>1, <2>2, <4>1
    <3>3. QED BY <3>1, <3>2
  <2>5. QED BY <2>3, <2>4
<1>2. ASSUME NEW i \in In(r, x), NEW j, NextIn(q, x, i + 1, j)
      PROVE  NextIn(r, x, i, j - 1) /\ r[j - 1] = q[j]
  <2>1. j \in In(q, x) /\ i + 1 < j /\ i \in Nat /\ i >= 1
    BY <1>1, <1>2 DEF NextIn
  <2>2. j - 1 \in In(r, x) /\ r[j - 1] = q[j] /\ i < j - 1
    BY <1>1, <2>1
  <2>3. ASSUME NEW k \in In(r, x) PROVE k <= i \/ k >= j - 1
    <3>1. k + 1 \in In(q, x) /\ k \in Nat
      BY <1>1
    <3>2. k + 1 <= i + 1 \/ k + 1 >= j
      BY <1>2, <3>1 DEF NextIn
    <3>3. j \in Nat
      BY <1>1, <2>1
    <3>4. QED BY <2>1, <3>1, <3>2, <3>3
  <2>4. QED BY <2>2, <2>3 DEF NextIn
<1>3. ASSUME NEW i \in In(r, x)
      PROVE  \/ \E j : NextIn(r, x, i, j) /\ r[i].kind # r[j].kind
             \/ (\A j \in In(r, x) : j <= i) /\ (r[i].kind = "add" <=> x \in fs)
  <2>1. i + 1 \in In(q, x) /\ r[i] = q[i + 1] /\ i \in Nat
    BY <1>1
  <2>2. CASE \E j : NextIn(q, x, i + 1, j) /\ q[i + 1].kind # q[j].kind
    <3>1. PICK j : NextIn(q, x, i + 1, j) /\ q[i + 1].kind # q[j].kind
      BY <2>2
    <3>2. NextIn(r, x, i, j - 1) /\ r[j - 1] = q[j]
      BY <1>2, <3>1
    <3>3. QED BY <2>1, <3>1, <3>2
  <2>3. CASE (\A j \in In(q, x) : j <= i + 1) /\ (q[i + 1].kind = "add" <=> x \in fs)
    <3>1. ASSUME NEW j \in In(r, x) PROVE j <= i
      <4>1. j + 1 \in In(q, x) /\ j \in Nat
        BY <1>1
      <4>2. j + 1 <= i + 1
        BY <2>3, <4>1
      <4>3. QED BY <2>1, <4>1, <4>2
    <3>2. QED BY <2>1, <2>3, <3>1
  <2>4. QED BY <2>1, <2>2, <2>3 DEF Alternate
<1>4. ASSUME NEW f, FirstIn(q, x, f), f # 1
      PROVE  FirstIn(r, x, f - 1) /\ r[f - 1] = q[f]
  <2>1. f \in In(q, x) /\ \A j \in In(q, x) : f <= j
    BY <1>4 DEF FirstIn
  <2>2. f - 1 \in In(r, x) /\ r[f - 1] = q[f] /\ f \in Nat
    BY <1>1, <1>4, <2>1
  <2>3. ASSUME NEW j \in In(r, x) PROVE f - 1 <= j
    <3>1. j + 1 \in In(q, x) /\ j \in Nat
      BY <1>1
    <3>2. f <= j + 1
      BY <2>1, <3>1
    <3>3. QED BY <2>2, <3>1, <3>2
  <2>4. QED BY <2>2, <2>3 DEF FirstIn
<1>5. CASE 1 \notin In(q, x)
  <2>1. CASE In(q, x) = {}
    <3>1. In(r, x) = {}
      BY <1>1, <2>1
    <3>2. Alternate(r, fs, x)
      BY <3>1 DEF Alternate
    <3>3. QED BY <1>5, <2>1, <3>1, <3>2 DEF AppliedBy
  <2>2. CASE In(q, x) # {}
    <3>1. PICK f : FirstIn(q, x, f)
      BY <2>2 DEF Alternate
    <3>2. f # 1
      BY <1>5, <3>1 DEF FirstIn
    <3>3. FirstIn(r, x, f - 1) /\ r[f - 1] = q[f]
      BY <1>4, <3>1, <3>2
    <3>4. Alternate(r, fs, x)
      BY <1>3, <3>3 DEF Alternate
    <3>5. AppliedBy(q, fs, x) <=> q[f].kind = "remove"
      BY <3>1, FirstTells
    <3>6. AppliedBy(r, fs, x) <=> r[f - 1].kind = "remove"
      BY <3>3, FirstTells
    <3>7. QED BY <1>5, <3>3, <3>4, <3>5, <3>6
  <2>3. QED BY <2>1, <2>2
<1>6. CASE 1 \in In(q, x)
  <2>1. FirstIn(q, x, 1)
    BY <1>1, <1>6 DEF FirstIn
  <2>2. AppliedBy(q, fs, x) <=> q[1].kind = "remove"
    BY <2>1, FirstTells
  <2>3. CASE \E j : NextIn(q, x, 1, j) /\ q[1].kind # q[j].kind
    <3>1. PICK j : NextIn(q, x, 1, j) /\ q[1].kind # q[j].kind
      BY <2>3
    <3>2. j \in In(q, x) /\ j \in Nat /\ 1 < j
      BY <1>1, <3>1 DEF NextIn
    <3>3. j - 1 \in In(r, x) /\ r[j - 1] = q[j]
      BY <1>1, <3>2
    <3>4. ASSUME NEW k \in In(r, x) PROVE j - 1 <= k
      <4>1. k + 1 \in In(q, x) /\ k \in Nat /\ k >= 1
        BY <1>1
      <4>2. k + 1 <= 1 \/ k + 1 >= j
        BY <3>1, <4>1 DEF NextIn
      <4>3. QED BY <3>2, <4>1, <4>2
    <3>5. FirstIn(r, x, j - 1)
      BY <3>3, <3>4 DEF FirstIn
    <3>6. AppliedBy(r, fs, x) <=> r[j - 1].kind = "remove"
      BY <3>5, FirstTells
    <3>7. q[1].kind \in {"add", "remove"} /\ q[j].kind \in {"add", "remove"}
      BY <1>6, <3>2, WaitingKnown
    <3>8. AppliedBy(r, fs, x) <=> q[1].kind = "add"
      BY <3>1, <3>3, <3>6, <3>7
    <3>9. Alternate(r, fs, x)
      BY <1>3, <3>5 DEF Alternate
    <3>10. QED BY <1>6, <2>2, <3>8, <3>9
  <2>4. CASE (\A j \in In(q, x) : j <= 1) /\ (q[1].kind = "add" <=> x \in fs)
    <3>1. ASSUME NEW i \in In(r, x) PROVE FALSE
      <4>1. i + 1 \in In(q, x) /\ i \in Nat /\ i >= 1
        BY <1>1
      <4>2. i + 1 <= 1
        BY <2>4, <4>1
      <4>3. QED BY <4>1, <4>2
    <3>2. In(r, x) = {}
      BY <3>1
    <3>3. Alternate(r, fs, x)
      BY <3>2 DEF Alternate
    <3>4. AppliedBy(r, fs, x) <=> x \in fs
      BY <3>2 DEF AppliedBy
    <3>5. QED BY <1>6, <2>2, <2>4, <3>3, <3>4
  <2>5. QED BY <1>6, <2>3, <2>4 DEF Alternate
<1>7. QED BY <1>5, <1>6
-----------------------------------------------------------------------------
(* As long as filters are only added when absent and removed when present, *)
(* the page looks as the filters in force say.                             *)
InForce ==
  {f \in AllFilters : IF f = NoService THEN url = NoService
                                       ELSE AppliedBy(timers, all.filtered, f)}

TidyInv ==
  tidy => /\ ~actingOnAll
          /\ \A x \in FilterNames : Alternate(timers, all.filtered, x)
          /\ ViewOf(InForce, span)

LEMMA NoServiceIsNoFilter == NoService \notin FilterNames
BY TraceAssumption DEF TraceAssumption, FilterNames, SpanServices

LEMMA InForceIsFinite == IsFiniteSet(InForce) /\ IsFiniteSet(InForce')
<1>1. InForce \subseteq AllFilters /\ InForce' \subseteq AllFilters
  BY DEF InForce
<1>2. QED BY <1>1, NamesAreFinite, FS_Subset

\* A step that applies and takes away no filter.
LEMMA SameView ==
  ASSUME TidyInv, tidy, UNCHANGED <<span, actingOnAll, url>>,
         \A x \in FilterNames :
           /\ Alternate(timers', all'.filtered, x)
           /\ AppliedBy(timers', all'.filtered, x) <=> AppliedBy(timers, all.filtered, x)
  PROVE  TidyInv'
<1>1. InForce' = InForce
  BY DEF InForce, AllFilters
<1>2. QED BY <1>1 DEF TidyInv, ViewOf

\* A label that is clicked, or a service that is searched for.
LEMMA EventTidy ==
  ASSUME LateInv, TidyInv, tidy, UNCHANGED <<span, actingOnAll, url>>,
         NEW svc \in FilterNames, NEW kind \in {"add", "remove"}, FilterEvent(kind, svc),
         kind = "add" <=> svc \notin all.filtered,
         \/ kind = "add" /\ all'.filtered = all.filtered \cup {svc}
         \/ kind = "remove" /\ all'.filtered = all.filtered \ {svc}
  PROVE  TidyInv'
<1> DEFINE cbs == <<FilterTimer(kind, svc)>>
<1>1. timers' = timers \o cbs
  BY DEF FilterEvent, Delay, TidyInv
<1>2. /\ cbs \in Seq(TimerSet) /\ Len(cbs) = 1 /\ cbs[1].kind = kind /\ cbs[1].arg = svc
  BY FiltersFile
<1> HIDE DEF cbs
<1>3. timers \in Seq(TimerSet)
  BY DEF LateInv
<1>4. /\ timers' \in Seq(TimerSet) /\ Len(timers') = Len(timers) + 1 /\ Len(timers) \in Nat
      /\ \A i \in 1 .. Len(timers) : timers'[i] = timers[i]
      /\ \A i \in 1 .. Len(timers') : i > Len(timers) => timers'[i] = cbs[i - Len(timers)]
  <2>1. /\ timers' \in Seq(TimerSet) /\ Len(timers') = Len(timers) + Len(cbs) /\ Len(timers) \in Nat
        /\ \A i \in 1 .. Len(timers) : timers'[i] = timers[i]
        /\ \A i \in 1 .. Len(timers') : i > Len(timers) => timers'[i] = cbs[i - Len(timers)]
    BY <1>1, <1>2, Filed
  <2>2. QED BY <1>2, <2>1
<1>5. timers'[Len(timers) + 1].kind = kind /\ timers'[Len(timers) + 1].arg = svc
  <2>1. Len(timers) + 1 \in 1 .. Len(timers') /\ Len(timers) + 1 > Len(timers) /\ Len(timers) + 1 - Len(timers) = 1
    BY <1>4
  <2>2. QED BY <1>2, <1>4, <2>1
<1>6. kind = "add" <=> svc \in all'.filtered
  OBVIOUS
<1>7. ASSUME NEW x \in FilterNames
      PROVE  /\ Alternate(timers', all'.filtered, x)
             /\ AppliedBy(timers', all'.filtered, x) <=> AppliedBy(timers, all.filtered, x)
  <2>1. Alternate(timers, all.filtered, x)
    BY DEF TidyInv
  <2>2. CASE x = svc
    BY <1>3, <1>4, <1>5, <1>6, <2>1, <2>2, EventKeeps
  <2>3. CASE x # svc
    <3>1. /\ \A i \in 1 .. Len(timers') : i \in 1 .. Len(timers) \/ i = Len(timers) + 1
          /\ \A i \in 1 .. Len(timers) : i \in 1 .. Len(timers')
      BY <1>4
    <3>2. In(timers', x) = In(timers, x)
      <4>1. ASSUME NEW i \in In(timers', x) PROVE i \in In(timers, x)
        <5>1. i \in 1 .. Len(timers') /\ timers'[i].kind # "zoom" /\ timers'[i].arg = x
          BY <1>4, WaitingKnown
        <5>2. i # Len(timers) + 1
          BY <1>5, <2>3, <5>1
        <5>3. i \in 1 .. Len(timers)
          BY <3>1, <5>1, <5>2
        <5>4. QED BY <1>3, <1>4, <5>1, <5>3, WaitingKnown
      <4>2. ASSUME NEW i \in In(timers, x) PROVE i \in In(timers', x)
        BY <1>3, <1>4, <3>1, WaitingKnown
      <4>3. QED BY <4>1, <4>2
    <3>3. \A i \in In(timers, x) : timers'[i] = timers[i]
      BY <1>3, <1>4, WaitingKnown
    <3>4. x \in all'.filtered <=> x \in all.filtered
      BY <2>3
    <3>5. QED BY <2>1, <3>2, <3>3, <3>4, OthersKeep
  <2>4. QED BY <2>2, <2>3
<1>8. QED BY <1>7, SameView

\* A zoom that is put off.
LEMMA ZoomTidy ==
  ASSUME LateInv, TidyInv, tidy, UNCHANGED <<span, actingOnAll, url, all>>,
         NEW rs \in Seq(Ranges \cup {Whole}), rs # <<>>,
         Delay([i \in DOMAIN rs |-> Bars(rs[i])])
  PROVE  TidyInv'
<1> DEFINE cbs == [i \in DOMAIN rs |-> Bars(rs[i])]
<1>1. timers' = timers \o cbs
  BY DEF Delay
<1>2. cbs \in Seq(TimerSet) /\ \A i \in 1 .. Len(cbs) : cbs[i].kind = "zoom"
  BY RangesFile
<1> HIDE DEF cbs
<1>3. timers \in Seq(TimerSet)
  BY DEF LateInv
<1>4. /\ timers' \in Seq(TimerSet) /\ Len(timers') = Len(timers) + Len(cbs)
      /\ Len(timers) \in Nat /\ Len(cbs) \in Nat
      /\ \A i \in 1 .. Len(timers) : timers'[i] = timers[i]
      /\ \A i \in 1 .. Len(timers') : i > Len(timers) => timers'[i] = cbs[i - Len(timers)]
  BY <1>1, <1>2, Filed
<1>5. ASSUME NEW i \in 1 .. Len(timers')
      PROVE  i \in 1 .. Len(timers) \/ timers'[i].kind = "zoom"
  <2>1. CASE i > Len(timers)
    <3>1. i - Len(timers) \in 1 .. Len(cbs)
      BY <1>4, <2>1
    <3>2. QED BY <1>2, <1>4, <2>1, <3>1
  <2>2. QED BY <1>4, <2>1
<1>6. \A i \in 1 .. Len(timers) : i \in 1 .. Len(timers')
  BY <1>4
<1>7. ASSUME NEW x \in FilterNames
      PROVE  /\ Alternate(timers', all'.filtered, x)
             /\ AppliedBy(timers', all'.filtered, x) <=> AppliedBy(timers, all.filtered, x)
  <2>1. Alternate(timers, all.filtered, x)
    BY DEF TidyInv
  <2>2. In(timers', x) = In(timers, x)
    <3>1. ASSUME NEW i \in In(timers', x) PROVE i \in In(timers, x)
      <4>1. i \in 1 .. Len(timers') /\ timers'[i].kind # "zoom" /\ timers'[i].arg = x
        BY <1>4, WaitingKnown
      <4>2. i \in 1 .. Len(timers)
        BY <1>5, <4>1
      <4>3. QED BY <1>3, <1>4, <4>1, <4>2, WaitingKnown
    <3>2. ASSUME NEW i \in In(timers, x) PROVE i \in In(timers', x)
      BY <1>3, <1>4, <1>6, WaitingKnown
    <3>3. QED BY <3>1, <3>2
  <2>3. \A i \in In(timers, x) : timers'[i] = timers[i]
    BY <1>3, <1>4, WaitingKnown
  <2>4. QED BY <2>1, <2>2, <2>3, OthersKeep
<1>8. QED BY <1>7, SameView

\* A callback that runs.
LEMMA FiringTidy ==
  ASSUME LateInv, SpansKnown(span), TidyInv, tidy, TimerFires
  PROVE  TidyInv'
<1> DEFINE h == timers[1]
<1>1. timers # <<>> /\ timers' = Tail(timers) /\ UNCHANGED <<actingOnAll, all, url, tidy>>
  BY DEF TimerFires
<1>2. timers \in Seq(TimerSet)
  BY DEF LateInv
<1>3. /\ timers' \in Seq(TimerSet) /\ Len(timers') = Len(timers) - 1
      /\ \A i \in 1 .. Len(timers') : timers'[i] = timers[i + 1]
      /\ Len(timers) \in Nat \ {0} /\ Head(timers) = h /\ h \in TimerSet /\ 1 \in 1 .. Len(timers)
  BY <1>1, <1>2, HeadTailProperties, EmptySeq, LenProperties
<1>4. RunFilter(h) \/ RunZoom(h)
  BY <1>3 DEF TimerFires
<1> HIDE DEF h
<1>5. ASSUME NEW x \in FilterNames
      PROVE  /\ Alternate(timers', all'.filtered, x)
             /\ h.kind # "zoom" /\ h.arg = x =>
                  /\ AppliedBy(timers, all.filtered, x) <=> h.kind = "remove"
                  /\ AppliedBy(timers', all'.filtered, x) <=> h.kind = "add"
             /\ h.kind = "zoom" \/ h.arg # x =>
                  (AppliedBy(timers', all'.filtered, x) <=> AppliedBy(timers, all.filtered, x))
  <2>1. Alternate(timers, all.filtered, x)
    BY DEF TidyInv
  <2>2. 1 \in In(timers, x) <=> (h.kind # "zoom" /\ h.arg = x)
    BY <1>2, <1>3, WaitingKnown DEF h
  <2>3. all'.filtered = all.filtered
    BY <1>1
  <2>4. /\ Alternate(timers', all.filtered, x)
        /\ 1 \in In(timers, x) =>
             /\ AppliedBy(timers, all.filtered, x) <=> timers[1].kind = "remove"
             /\ AppliedBy(timers', all.filtered, x) <=> timers[1].kind = "add"
        /\ 1 \notin In(timers, x) =>
             (AppliedBy(timers', all.filtered, x) <=> AppliedBy(timers, all.filtered, x))
    BY <1>2, <1>3, <2>1, FiringKeeps
  <2>5. QED BY <2>2, <2>3, <2>4 DEF h
<1>6. CASE RunZoom(h)
  <2>1. span' = span /\ h.kind = "zoom"
    BY <1>6 DEF RunZoom, ZoomTimer
  <2>2. QED BY <1>1, <1>5, <2>1, SameView
<1>7. CASE RunFilter(h)
  <2>1. ~actingOnAll
    BY DEF TidyInv
  <2>2. /\ h.kind \in {"add", "remove"}
        /\ h.kind = "add" => span' = Expand(span, SpansOf(h.arg), Times(h.arg))
        /\ h.kind = "remove" => span' = Collapse(span, SpansOf(h.arg), Times(h.arg), FALSE)
    BY <1>7, <2>1 DEF RunFilter
  <2>3. h.kind # "zoom" /\ h.arg \in FilterNames /\ h.arg # NoService /\ h.arg \in AllFilters
    BY <1>3, <2>2, NoServiceIsNoFilter DEF TimerSet, AllFilters
  <2>4. Chosen(h.arg) = SpansOf(h.arg) /\ Weight(h.arg) = Times(h.arg)
    BY <2>3 DEF Chosen, Weight
  <2>5. /\ \A f \in AllFilters : f # h.arg => (f \in InForce' <=> f \in InForce)
        /\ h.arg \in InForce <=> h.kind = "remove"
        /\ h.arg \in InForce' <=> h.kind = "add"
    <3>1. ASSUME NEW f \in FilterNames PROVE f \in AllFilters /\ f # NoService
      BY NoServiceIsNoFilter DEF AllFilters
    <3>2. ASSUME NEW f \in FilterNames
          PROVE  /\ f \in InForce <=> AppliedBy(timers, all.filtered, f)
                 /\ f \in InForce' <=> AppliedBy(timers', all'.filtered, f)
      BY <3>1 DEF InForce
    <3>3. NoService \in AllFilters
      BY DEF AllFilters
    <3>4. NoService \in InForce' <=> NoService \in InForce
      BY <1>1, <3>3 DEF InForce
    <3>5. ASSUME NEW f \in FilterNames, f # h.arg PROVE f \in InForce' <=> f \in InForce
      BY <1>5, <3>2, <3>5
    <3>6. QED BY <1>5, <2>3, <3>2, <3>4, <3>5 DEF AllFilters
  <2>6. InForce \subseteq AllFilters /\ InForce' \subseteq AllFilters
    BY DEF InForce
  <2>7. ViewOf(InForce, span)
    BY DEF TidyInv
  <2>8. CASE h.kind = "add"
    <3>1. InForce' = InForce \cup {h.arg} /\ h.arg \notin InForce
      BY <2>3, <2>5, <2>6, <2>8
    <3>2. span' = Expand(span, Chosen(h.arg), Weight(h.arg))
      BY <2>2, <2>4, <2>8
    <3>3. ViewOf(InForce \cup {h.arg}, Expand(span, Chosen(h.arg), Weight(h.arg)))
      BY <2>7, <3>1, InForceIsFinite, ExpandShows
    <3>4. ViewOf(InForce', span')
      BY <3>1, <3>2, <3>3
    <3>5. QED BY <1>1, <1>5, <2>1, <3>4 DEF TidyInv, ViewOf
  <2>9. CASE h.kind = "remove"
    <3>1. InForce = InForce' \cup {h.arg} /\ h.arg \notin InForce'
      BY <2>3, <2>5, <2>6, <2>9
    <3>2. span' = Collapse(span, Chosen(h.arg), Weight(h.arg), FALSE)
      BY <2>2, <2>4, <2>9
    <3>3. ViewOf(InForce' \cup {h.arg}, span)
      BY <2>7, <3>1
    <3>4. ViewOf(InForce', Collapse(span, Chosen(h.arg), Weight(h.arg), FALSE))
      BY <3>1, <3>3, InForceIsFinite, CollapseShows
    <3>5. ViewOf(InForce', span')
      BY <3>2, <3>4
    <3>6. QED BY <1>1, <1>5, <2>1, <3>5 DEF TidyInv, ViewOf
  <2>10. QED BY <2>2, <2>8, <2>9
<1>8. QED BY <1>4, <1>6, <1>7

LEMMA StepTidy == LateInv /\ FilterInv /\ SpanInv /\ TidyInv /\ [TraceNext]_traceVars => TidyInv'
<1> SUFFICES ASSUME LateInv, FilterInv, SpanInv, TidyInv, [TraceNext]_traceVars, tidy' PROVE TidyInv'
  BY DEF TidyInv
<1>0. ASSUME UNCHANGED <<span, actingOnAll, url, timers, all, tidy>> PROVE TidyInv'
  <2>1. InForce' = InForce
    BY <1>0 DEF InForce
  <2>2. QED BY <1>0, <2>1 DEF TidyInv, ViewOf
<1>1. ASSUME NEW svc \in SpanServices, ClickLabel(svc) PROVE TidyInv'
  <2>1. tidy /\ UNCHANGED <<span, actingOnAll, url>> /\ svc \in FilterNames
    BY <1>1 DEF ClickLabel, spanVars, FilterNames
  <2>2. AllInv(all) /\ (svc \in tagged <=> svc \in all.filtered) /\ {svc} \in SUBSET FilterNames
    BY <2>1 DEF FilterInv
  <2>3. CASE svc \in tagged
    <3>1. FilterEvent("remove", svc) /\ TagRemoved({svc})
      BY <1>1, <2>3 DEF ClickLabel
    <3>2. all'.filtered = all.filtered \ {svc}
      BY <2>2, <3>1, RemovedKeeps DEF TagRemoved
    <3>3. QED BY <2>1, <2>2, <2>3, <3>1, <3>2, EventTidy
  <2>4. CASE svc \notin tagged
    <3>1. FilterEvent("add", svc) /\ TagAdded({svc})
      BY <1>1, <2>4 DEF ClickLabel
    <3>2. all'.filtered = all.filtered \cup {svc}
      BY <2>2, <3>1, AddedKeeps DEF TagAdded
    <3>3. QED BY <2>1, <2>2, <2>4, <3>1, <3>2, EventTidy
  <2>5. QED BY <2>3, <2>4
<1>2. ASSUME NEW svc \in SpanServices, Search(svc) PROVE TidyInv'
  <2>1. tidy /\ UNCHANGED <<span, actingOnAll, url>> /\ svc \in FilterNames /\ svc \notin all.filtered
    BY <1>2 DEF Search, spanVars, FilterNames
  <2>2. FilterEvent("add", svc) /\ TagAdded({svc}) /\ {svc} \in SUBSET FilterNames
    BY <1>2, <2>1 DEF Search
  <2>3. all'.filtered = all.filtered \cup {svc}
    BY <2>2, AddedKeeps DEF TagAdded, FilterInv
  <2>4. QED BY <2>1, <2>2, <2>3, EventTidy
<1>3. ASSUME NEW rs \in Selections, SelectRange(rs) PROVE TidyInv'
  <2>1. UNCHANGED <<span, actingOnAll, url, all, tidy>>
    BY <1>3 DEF SelectRange, spanVars
  <2>2. rs \in Seq(Ranges \cup {Whole}) /\ rs # <<>>
    BY SelectionsAreRanges
  <2>3. timers' = timers \/ Delay([i \in DOMAIN rs |-> Bars(rs[i])])
    BY <1>3 DEF SelectRange
  <2>4. QED BY <1>0, <2>1, <2>2, <2>3, ZoomTidy
<1>4. CASE ZoomOut
  <2> DEFINE rs == <<Whole>>
             cbs == [i \in DOMAIN rs |-> Bars(rs[i])]
  <2>1. UNCHANGED <<span, actingOnAll, url, all, tidy>>
    BY <1>4 DEF ZoomOut, spanVars
  <2>2. rs \in Seq(Ranges \cup {Whole}) /\ rs # <<>>
    OBVIOUS
  <2>3. cbs = <<Bars(Whole)>>
    BY DEF Bars
  <2>4. timers' = timers \/ Delay(cbs)
    BY <1>4, <2>3 DEF ZoomOut
  <2> HIDE DEF rs
  <2>5. QED BY <1>0, <2>1, <2>2, <2>4, ZoomTidy
<1>5. CASE TimerFires
  <2>1. tidy
    BY <1>5 DEF TimerFires
  <2>2. QED BY <1>5, <2>1, FiringTidy DEF SpanInv
<1>6. ASSUME NEW s \in Spans PROVE ~ClickExpander(s)
  BY DEF ClickExpander
<1>7. ~ExpandAll /\ ~CollapseAll
  BY DEF ExpandAll, CollapseAll
<1>8. ASSUME NEW s \in Spans, ClickSpan(s) PROVE TidyInv'
  BY <1>0, <1>8 DEF ClickSpan, spanVars
<1>9. CASE ClosePanel \/ PressMouse \/ MoveMouse \/ ReleaseMouse \/ ButtonFaded
  BY <1>0, <1>9 DEF ClosePanel, PressMouse, MoveMouse, ReleaseMouse, ButtonFaded, spanVars
<1>10. CASE UNCHANGED traceVars
  BY <1>0, <1>10 DEF traceVars, spanVars
<1>11. QED
  BY <1>1, <1>2, <1>3, <1>4, <1>5, <1>6, <1>7, <1>8, <1>9, <1>10 DEF TraceNext, UserActs
-----------------------------------------------------------------------------
(* The page comes up with no filter, or with one that still waits.         *)
LEMMA InitTimers ==
  ASSUME TraceInit
  PROVE  /\ LateInv
         /\ \A i \in 1 .. Len(timers) : ~ZoomTimer(timers[i])
         /\ url = NoService => timers = <<>>
         /\ url # NoService => /\ url \in FilterNames /\ Len(timers) = 1
                               /\ timers[1].kind = "add" /\ timers[1].arg = url
<1>1. url \in AllFilters
  BY DEF TraceInit, AllFilters
<1>2. CASE url = NoService
  <2>1. timers = <<>> /\ requests = 0
    BY <1>2 DEF TraceInit
  <2>2. timers \in Seq(TimerSet) /\ Len(timers) = 0
    BY <2>1
  <2>3. QED BY <1>1, <1>2, <2>1, <2>2 DEF LateInv, SpinnerCountsWork
<1>3. CASE url # NoService
  <2>1. timers = <<FilterTimer("add", url)>> /\ requests = 1 /\ url \in FilterNames
    BY <1>3 DEF TraceInit
  <2>2. timers \in Seq(TimerSet) /\ Len(timers) = 1 /\ timers[1].kind = "add" /\ timers[1].arg = url
    BY <2>1, FiltersFile
  <2>3. \A i \in 1 .. Len(timers) : i = 1
    BY <2>2
  <2>4. Fits(timers[1]) /\ ~ZoomTimer(timers[1])
    BY <2>1, <2>2 DEF Fits, FilterNames, ZoomTimer
  <2>5. QED BY <1>1, <1>3, <2>1, <2>2, <2>3, <2>4 DEF LateInv, SpinnerCountsWork
<1>4. QED BY <1>2, <1>3

LEMMA InitZoom == TraceInit => ZoomInv
<1> SUFFICES ASSUME TraceInit PROVE ZoomInv
  OBVIOUS
<1>1. /\ zoom = [axis |-> Whole, bars |-> Whole, button |-> "hidden"]
      /\ mouse = [downs |-> 1, ups |-> 0, rect |-> "off"] /\ jumped = FALSE
  BY DEF TraceInit
<1>2. \A i : ~LastZoom(i)
  BY InitTimers DEF LastZoom
<1>3. /\ zoom.axis = Whole /\ zoom.bars = Whole /\ zoom.button = "hidden" /\ mouse.downs = 1
      /\ zoom \in [axis : Ranges \cup {Whole}, bars : Ranges \cup {Whole},
                   button : {"hidden", "shown", "fading"}]
      /\ mouse \in [downs : Nat, ups : Nat, rect : {"off", "point", "drawn"}]
      /\ jumped \in BOOLEAN
  BY <1>1
<1>4. ZoomMatchesSelection
  BY <1>3 DEF ZoomMatchesSelection
<1>5. QED BY <1>2, <1>3, <1>4 DEF ZoomInv

LEMMA InitFilters == TraceInit => FilterInv
<1> SUFFICES ASSUME TraceInit PROVE FilterInv
  OBVIOUS
<1>1. AllInv(Unfiltered)
  BY FS_EmptySet DEF AllInv, Unfiltered
<1>2. ButtonsRight(Unfiltered)
  <2>1. Total > 1 => SpanServices # {}
    BY FS_EmptySet DEF Total
  <2>2. QED BY <2>1 DEF ButtonsRight, Unfiltered
<1>3. looked = {} /\ actingOnAll = FALSE
  BY DEF TraceInit
<1>4. CASE url = NoService
  <2>1. all = Unfiltered /\ tagged = {}
    BY <1>4 DEF TraceInit
  <2>2. tagged = all.filtered \cap SpanServices
    BY <2>1 DEF Unfiltered
  <2>3. QED BY <1>1, <1>2, <1>3, <2>1, <2>2 DEF FilterInv, StuckMeansNeverLookedUp
<1>5. CASE url # NoService
  <2>1. all = AllAdded(Unfiltered, {url}) /\ tagged = {url} \cap SpanServices /\ {url} \in SUBSET FilterNames
    BY <1>5 DEF TraceInit
  <2>2. /\ AllInv(all) /\ all.filtered = Unfiltered.filtered \cup {url}
        /\ {url} \subseteq SpanServices => ButtonsRight(all)
    BY <1>1, <1>2, <2>1, AddedKeeps
  <2>3. all.filtered = {url}
    BY <2>2 DEF Unfiltered
  <2>4. url # OtherService => {url} \subseteq SpanServices
    BY <2>1 DEF FilterNames
  <2>5. QED BY <1>3, <2>1, <2>2, <2>3, <2>4 DEF FilterInv, StuckMeansNeverLookedUp
<1>6. QED BY <1>4, <1>5

LEMMA NothingShown ==
  LET none == [s \in Spans |-> Hidden] IN SpansKnown(none) /\ ViewOf({}, none)
<1>1. \A T : Count({}, T) = 0
  BY CountIsNumber, FS_EmptySet
<1> DEFINE none == [s \in Spans |-> Hidden]
<1>2. SpansKnown(none)
  BY DEF SpansKnown, Counters, Hidden
<1>3. /\ Hidden.inFilters = 0 /\ Hidden.openParents = 0 /\ Hidden.openChildren = 0
      /\ Hidden.highlight = FALSE /\ Hidden.shown = FALSE
  BY DEF Hidden
<1>4. ASSUME NEW s \in Spans PROVE none[s] = Hidden
  OBVIOUS
<1>5. ~Wanted(Hidden)
  BY <1>3 DEF Wanted
<1>6. Wanted(Hidden) \in BOOLEAN /\ (Hidden.inFilters > 0) = FALSE
  BY <1>3 DEF Wanted
<1> HIDE DEF none
<1>7. ViewOf({}, none)
  BY <1>1, <1>3, <1>4, <1>5, <1>6 DEF ViewOf
<1>8. QED BY <1>2, <1>7 DEF none

LEMMA InitTidy == TraceInit => TidyInv
<1> SUFFICES ASSUME TraceInit PROVE TidyInv
  OBVIOUS
<1> DEFINE none == [s \in Spans |-> Hidden]
           empty == << >>
           nobody == {}
<1>1. SpansKnown(none) /\ ViewOf({}, none) /\ IsFiniteSet({})
  BY NothingShown, FS_EmptySet
<1>2. actingOnAll = FALSE
  BY DEF TraceInit
<1>3. ASSUME NEW x PROVE In(empty, x) = {} /\ Alternate(empty, nobody, x) /\ ~AppliedBy(empty, nobody, x)
  <2>1. In(empty, x) = {}
    BY DEF In
  <2>2. QED BY <2>1 DEF Alternate, AppliedBy
<1> HIDE DEF none, empty, nobody
<1>4. CASE url = NoService
  <2>1. timers = empty /\ all.filtered = nobody /\ span = Expand(none, {First}, 1)
    BY <1>4 DEF TraceInit, Unfiltered, none, empty, nobody
  <2>2. InForce = {} \cup {NoService}
    BY <1>3, <1>4, <2>1 DEF InForce, AllFilters
  <2>3. Chosen(NoService) = {First} /\ Weight(NoService) = 1
    BY DEF Chosen, Weight
  <2>4. ViewOf({} \cup {NoService}, Expand(none, Chosen(NoService), Weight(NoService)))
    BY <1>1, ExpandShows
  <2>5. ViewOf(InForce, span)
    BY <2>1, <2>2, <2>3, <2>4
  <2>6. QED BY <1>2, <1>3, <2>1, <2>5 DEF TidyInv
<1>5. CASE url # NoService
  <2>1. span = none
    BY <1>5 DEF TraceInit, none
  <2>2. all.filtered = {} \cup {url}
    <3>1. all = AllAdded(Unfiltered, {url})
      BY <1>5 DEF TraceInit
    <3>2. all.filtered = Unfiltered.filtered \cup ({url} \ Unfiltered.filtered)
      BY <3>1 DEF AllAdded
    <3>3. QED BY <3>2 DEF Unfiltered
  <2>3. /\ timers \in Seq(TimerSet) /\ Len(timers) = 1 /\ url \in FilterNames
        /\ timers[1].kind = "add" /\ timers[1].arg = url
    BY <1>5, InitTimers DEF LateInv
  <2>4. empty \in Seq(TimerSet) /\ Len(empty) = 0
    BY DEF empty
  <2>5. ASSUME NEW x \in FilterNames
        PROVE  Alternate(timers, all.filtered, x) /\ ~AppliedBy(timers, all.filtered, x)
    <3>1. CASE x = url
      <4>1. Len(timers) = Len(empty) + 1 /\ \A i \in 1 .. Len(empty) : timers[i] = empty[i]
        BY <2>3, <2>4
      <4>2. timers[Len(empty) + 1].kind = "add" /\ timers[Len(empty) + 1].arg = x
        BY <2>3, <2>4, <3>1
      <4>3. x \notin nobody /\ x \in all.filtered
        BY <2>2, <3>1 DEF nobody
      <4>4. PICK kind \in {"add", "remove"} : kind = "add"
        OBVIOUS
      <4>5. Alternate(empty, nobody, x) /\ ~AppliedBy(empty, nobody, x)
        BY <1>3
      <4>6. timers \in Seq(TimerSet) /\ empty \in Seq(TimerSet)
        BY <2>3, <2>4
      <4>7. timers[Len(empty) + 1].kind = kind
        BY <4>2, <4>4
      <4>8. (kind = "add" <=> x \notin nobody) /\ (kind = "add" <=> x \in all.filtered)
        BY <4>3, <4>4
      <4>9. Alternate(timers, all.filtered, x) /\ (AppliedBy(timers, all.filtered, x) <=> AppliedBy(empty, nobody, x))
        BY <4>1, <4>2, <4>5, <4>6, <4>7, <4>8, EventKeeps
      <4>10. QED BY <4>5, <4>9
    <3>2. CASE x # url
      <4>1. In(timers, x) = {}
        <5>1. \A i \in In(timers, x) : i = 1 /\ timers[1].arg = x
          BY <2>3, WaitingKnown
        <5>2. QED BY <2>3, <3>2, <5>1
      <4>2. QED BY <2>2, <3>2, <4>1 DEF Alternate, AppliedBy
    <3>3. QED BY <3>1, <3>2
  <2>6. InForce = {}
    BY <1>5, <2>5 DEF InForce, AllFilters
  <2>7. QED BY <1>1, <1>2, <2>1, <2>5, <2>6 DEF TidyInv
<1>6. QED BY <1>4, <1>5
-----------------------------------------------------------------------------
(* trace.js:351-372: the guards of a zoom's bars leave out one case, a span *)
(* that starts before the selection and ends with it.  The span goes from a *)
(* to b, the selection from c to d.                                         *)
Drawn(a, b, c, d) ==
  CASE a < c /\ b < c -> Bar(0, 0, FALSE)
    [] a < c /\ b > c /\ b < d -> Bar(0, b - c, FALSE)
    [] a < c /\ b > c /\ b > d -> Bar(0, d - c, FALSE)
    [] a >= c /\ a < d /\ b <= d -> Bar(a - c, b - a, TRUE)
    [] a >= c /\ a < d /\ b > d -> Bar(a - c, d - a, TRUE)
    [] a > d -> Bar(d - c, 0, FALSE)
    [] a = d -> Bar(d - c, 0, TRUE)
    [] OTHER -> Bar(0, 0, FALSE)

Clip(t, c, d) == IF t < c THEN c ELSE IF t > d THEN d ELSE t
Clipped(a, b, c, d) ==
  IF a < c /\ b = d THEN Bar(0, 0, FALSE)
  ELSE Bar(Clip(a, c, d) - c, Clip(b, c, d) - Clip(a, c, d), a \in c .. d)

LEMMA SameBar ==
  ASSUME NEW l, NEW w, NEW red \in BOOLEAN, NEW l2, NEW w2, NEW red2 \in BOOLEAN,
         l = l2, w = w2, red <=> red2
  PROVE  Bar(l, w, red) = Bar(l2, w2, red2)
<1>1. red = red2
  OBVIOUS
<1>2. QED BY <1>1 DEF Bar

LEMMA BarsClip ==
  ASSUME NEW a \in Nat, NEW b \in Nat, NEW c \in Nat, NEW d \in Nat, a <= b, c < d
  PROVE  Drawn(a, b, c, d) = Clipped(a, b, c, d)
<1> DEFINE x == Clip(a, c, d)
           y == Clip(b, c, d)
           in == a \in c .. d
<1>0. in \in BOOLEAN /\ (in <=> (c <= a /\ a <= d))
  OBVIOUS
<1>a. Clipped(a,b,c,d) = IF a < c /\ b = d THEN Bar(0, 0, FALSE) ELSE Bar(x - c, y - x, in)
  BY DEF Clipped
<1>b. /\ x = IF a < c THEN c ELSE IF a > d THEN d ELSE a
      /\ y = IF b < c THEN c ELSE IF b > d THEN d ELSE b
  BY DEF Clip
<1> HIDE DEF x, y, in
<1> DEFINE drawn == Drawn(a, b, c, d)
<1>c. drawn = CASE a < c /\ b < c -> Bar(0, 0, FALSE)
          [] a < c /\ b > c /\ b < d -> Bar(0, b - c, FALSE)
          [] a < c /\ b > c /\ b > d -> Bar(0, d - c, FALSE)
          [] a >= c /\ a < d /\ b <= d -> Bar(a - c, b - a, TRUE)
          [] a >= c /\ a < d /\ b > d -> Bar(a - c, d - a, TRUE)
          [] a > d -> Bar(d - c, 0, FALSE)
          [] a = d -> Bar(d - c, 0, TRUE)
          [] OTHER -> Bar(0, 0, FALSE)
  BY DEF Drawn
<1> HIDE DEF drawn
<1>d. /\ x \in Int /\ y \in Int /\ x - c \in Int /\ y - x \in Int
  BY <1>b
<1>1. ASSUME a < c, b = d PROVE drawn = Bar(0, 0, FALSE)
  BY <1>c, <1>1 DEF Bar
<1>2. ASSUME ~(a < c /\ b = d) PROVE drawn = Bar(x - c, y - x, in)
  <2>1. CASE a < c
    <3>1. x - c = 0 /\ (in <=> FALSE)
      BY <1>0, <1>b, <2>1
    <3>2. CASE b <= c
      <4>1. drawn = Bar(0, 0, FALSE)
        BY <1>c, <2>1, <3>2 DEF Bar
      <4>2. y - x = 0
        BY <1>b, <2>1, <3>2
      <4>3. QED BY <1>0, <3>1, <4>1, <4>2, SameBar
    <3>3. CASE b > c /\ b < d
      <4>1. drawn = Bar(0, b - c, FALSE)
        BY <1>c, <2>1, <3>3 DEF Bar
      <4>2. y - x = b - c
        BY <1>b, <2>1, <3>3
      <4>3. QED BY <1>0, <3>1, <4>1, <4>2, SameBar
    <3>4. CASE b > d
      <4>1. drawn = Bar(0, d - c, FALSE)
        BY <1>c, <2>1, <3>4 DEF Bar
      <4>2. y - x = d - c
        BY <1>b, <2>1, <3>4
      <4>3. QED BY <1>0, <3>1, <4>1, <4>2, SameBar
    <3>5. QED BY <1>2, <2>1, <3>2, <3>3, <3>4
  <2>2. CASE a >= c /\ a < d
    <3>1. x = a /\ (in <=> TRUE)
      BY <1>0, <1>b, <2>2
    <3>2. CASE b <= d
      <4>1. drawn = Bar(a - c, b - a, TRUE)
        BY <1>c, <2>2, <3>2 DEF Bar
      <4>2. y = b
        BY <1>b, <2>2, <3>2
      <4>3. QED BY <1>0, <3>1, <4>1, <4>2, SameBar
    <3>3. CASE b > d
      <4>1. drawn = Bar(a - c, d - a, TRUE)
        BY <1>c, <2>2, <3>3 DEF Bar
      <4>2. y = d
        BY <1>b, <2>2, <3>3
      <4>3. QED BY <1>0, <3>1, <4>1, <4>2, SameBar
    <3>4. QED BY <3>2, <3>3
  <2>3. CASE a >= d
    <3>1. x - c = d - c /\ y - x = 0 /\ (in <=> a = d)
      BY <1>0, <1>b, <2>3
    <3>2. CASE a = d
      <4>1. drawn = Bar(d - c, 0, TRUE)
        BY <1>c, <3>2 DEF Bar
      <4>2. QED BY <1>0, <3>1, <3>2, <4>1, SameBar
    <3>3. CASE a > d
      <4>1. drawn = Bar(d - c, 0, FALSE)
        BY <1>c, <3>3 DEF Bar
      <4>2. in <=> FALSE
        BY <1>d, <3>1, <3>3
      <4>3. QED BY <1>0, <3>1, <4>1, <4>2, SameBar
    <3>4. QED BY <2>3, <3>2, <3>3
  <2>4. QED BY <2>1, <2>2, <2>3
<1>3. QED BY <1>1, <1>2, <1>a DEF drawn

LEMMA BarsRight ==
  ASSUME zoom.bars \in Ranges PROVE BarsShowOverlap
<1> DEFINE r == zoom.bars
<1>1. ASSUME NEW s \in Spans
      PROVE  ZoomedBar(s, r) =
               IF Start[s] < r[1] /\ End[s] = r[2] THEN Bar(0, 0, FALSE)
               ELSE Bar(Clip(Start[s], r[1], r[2]) - r[1],
                        Clip(End[s], r[1], r[2]) - Clip(Start[s], r[1], r[2]),
                        Start[s] \in r[1] .. r[2])
  <2>1. /\ Start[s] \in Nat /\ End[s] \in Nat /\ Start[s] <= End[s]
        /\ r[1] \in Nat /\ r[2] \in Nat /\ r[1] < r[2]
    BY RangeAssumption DEF RangeAssumption
  <2> HIDE DEF r
  <2>2. ZoomedBar(s, r) = Drawn(Start[s], End[s], r[1], r[2])
    BY DEF ZoomedBar, Drawn
  <2>3. Drawn(Start[s], End[s], r[1], r[2]) = Clipped(Start[s], End[s], r[1], r[2])
    BY <2>1, BarsClip
  <2>4. QED BY <2>2, <2>3 DEF Clipped
<1>2. QED BY <1>1 DEF BarsShowOverlap, Clip
-----------------------------------------------------------------------------
\* What the counters of ViewOf say of the page.
LEMMA ViewIsRight == LateInv /\ SpanInv /\ TidyInv => ViewMatchesFilters
<1> SUFFICES ASSUME LateInv, TidyInv, tidy PROVE ViewMatchesFilters
  BY DEF ViewMatchesFilters
<1> DEFINE on(s) == \/ url = NoService /\ s = First
                    \/ \E svc \in ServiceNames[s] : Applied(svc)
<1>1. IsFiniteSet(InForce) /\ ViewOf(InForce, span)
  BY InForceIsFinite DEF TidyInv
<1>2. ASSUME NEW x PROVE Applied(x) <=> AppliedBy(timers, all.filtered, x)
  BY DEF Applied, AppliedBy, Waiting, In
<1>3. ASSUME NEW s \in Spans PROVE on(s) <=> \E f \in InForce : s \in Chosen(f)
  <2>1. ASSUME url = NoService, s = First PROVE \E f \in InForce : s \in Chosen(f)
    <3>1. NoService \in InForce /\ s \in Chosen(NoService)
      BY <2>1 DEF InForce, AllFilters, Chosen
    <3>2. QED BY <3>1
  <2>2. ASSUME NEW svc \in ServiceNames[s], Applied(svc) PROVE \E f \in InForce : s \in Chosen(f)
    <3>1. svc \in FilterNames
      BY DEF FilterNames, SpanServices
    <3>2. svc # NoService
      BY <3>1, NoServiceIsNoFilter
    <3>3. svc \in InForce /\ s \in Chosen(svc)
      BY <1>2, <2>2, <3>1, <3>2 DEF InForce, AllFilters, Chosen, SpansOf
    <3>4. QED BY <3>3
  <2>3. ASSUME NEW f \in InForce, s \in Chosen(f) PROVE on(s)
    <3>1. CASE f = NoService
      BY <2>3, <3>1 DEF InForce, Chosen
    <3>2. CASE f # NoService
      <4>1. f \in ServiceNames[s] /\ Applied(f)
        BY <1>2, <2>3, <3>2 DEF InForce, Chosen, SpansOf
      <4>2. QED BY <4>1
    <3>3. QED BY <3>1, <3>2
  <2>4. QED BY <2>1, <2>2, <2>3
<1> HIDE DEF on
<1>4. ASSUME NEW T PROVE Count(InForce, T) > 0 <=> \E f \in InForce : T \cap Chosen(f) # {}
  <2>1. Count(InForce, T) \in Nat /\ (Count(InForce, T) = 0 <=> \A f \in InForce : T \cap Chosen(f) = {})
    BY <1>1, CountIsNumber
  <2>2. QED BY <2>1
<1>5. ASSUME NEW f PROVE Chosen(f) \subseteq Spans
  BY TraceAssumption DEF TraceAssumption, Chosen, SpansOf
<1>6. ASSUME NEW s \in Spans
      PROVE  /\ span[s].highlight <=> on(s)
             /\ span[s].shown <=> \/ on(s)
                                  \/ \E t \in Descendants(s) : on(t)
                                  \/ Parent[s] # NoSpan /\ on(Parent[s])
             /\ span[s].highlight \in BOOLEAN /\ span[s].shown \in BOOLEAN
  <2>1. /\ span[s].inFilters = Count(InForce, {s})
        /\ span[s].openParents = Count(InForce, {Parent[s]})
        /\ span[s].openChildren = Count(InForce, Descendants(s))
        /\ span[s].highlight = (span[s].inFilters > 0)
        /\ span[s].shown = Wanted(span[s])
    BY <1>1 DEF ViewOf
  <2>2. span[s].inFilters > 0 <=> on(s)
    <3>1. \A f : {s} \cap Chosen(f) # {} <=> s \in Chosen(f)
      BY Zenon
    <3>2. QED BY <1>3, <1>4, <2>1, <3>1
  <2>3. span[s].openChildren > 0 <=> \E t \in Descendants(s) : on(t)
    <3>1. \A t \in Descendants(s) : t \in Spans
      BY DEF Descendants
    <3>2. span[s].openChildren > 0 <=> \E f \in InForce : Descendants(s) \cap Chosen(f) # {}
      BY <1>4, <2>1
    <3>3. (\E f \in InForce : Descendants(s) \cap Chosen(f) # {})
            <=> \E t \in Descendants(s) : \E f \in InForce : t \in Chosen(f)
      BY Zenon
    <3>4. QED BY <1>3, <3>1, <3>2, <3>3
  <2>4. span[s].openParents > 0 <=> (Parent[s] # NoSpan /\ on(Parent[s]))
    <3>1. span[s].openParents > 0 <=> \E f \in InForce : {Parent[s]} \cap Chosen(f) # {}
      BY <1>4, <2>1
    <3>2. \A f : {Parent[s]} \cap Chosen(f) # {} <=> Parent[s] \in Chosen(f)
      BY Zenon
    <3>3. /\ Parent[s] \in Spans \/ Parent[s] = NoSpan
          /\ NoSpan \notin Spans
      BY TraceAssumption DEF TraceAssumption
    <3>4. CASE Parent[s] = NoSpan
      BY <1>5, <3>1, <3>2, <3>3, <3>4
    <3>5. CASE Parent[s] # NoSpan
      BY <1>3, <3>1, <3>2, <3>3, <3>5
    <3>6. QED BY <3>4, <3>5
  <2>5. Wanted(span[s]) <=> \/ on(s)
                            \/ \E t \in Descendants(s) : on(t)
                            \/ Parent[s] # NoSpan /\ on(Parent[s])
    BY <2>2, <2>3, <2>4 DEF Wanted
  <2>6. Wanted(span[s]) \in BOOLEAN /\ (span[s].inFilters > 0) \in BOOLEAN
    BY DEF Wanted
  <2>7. span[s].highlight <=> span[s].inFilters > 0
    BY <2>1
  <2>8. QED BY <2>1, <2>2, <2>5, <2>6, <2>7
<1>7. on(First) \in BOOLEAN /\ \A s : on(s) \in BOOLEAN
  BY DEF on
<1>8. ASSUME NEW s \in Spans
      PROVE  /\ span[s].highlight = on(s)
             /\ span[s].shown = \/ on(s)
                                \/ \E t \in Descendants(s) : on(t)
                                \/ Parent[s] # NoSpan /\ on(Parent[s])
  BY <1>6, <1>7
<1>9. QED BY <1>8 DEF ViewMatchesFilters, on

\* What the labels and buttons, the zoom and the callbacks say of the page.
LEMMA PageIsRight ==
  LateInv /\ ZoomInv /\ FilterInv /\ SpanInv /\ TidyInv => TraceShowsChoices
<1> SUFFICES ASSUME LateInv, ZoomInv, FilterInv, SpanInv, TidyInv PROVE TraceShowsChoices
  OBVIOUS
<1>1. ViewMatchesFilters
  BY ViewIsRight
<1>2. ButtonsAgreeWithLabels
  <2>1. SUFFICES ASSUME Total > 1, url # OtherService
                 PROVE  /\ all.expandActive = (tagged = SpanServices)
                        /\ all.collapseActive = (tagged = {})
    BY DEF ButtonsAgreeWithLabels
  <2>2. /\ all.filtered \subseteq SpanServices /\ tagged = all.filtered \cap SpanServices
        /\ all.expandActive = (all.filtered = SpanServices)
        /\ all.collapseActive = (all.filtered = {})
    BY <2>1 DEF FilterInv, ButtonsRight
  <2>3. tagged = all.filtered
    BY <2>2, Zenon
  <2>4. QED BY <2>2, <2>3
<1>3. BarsShowOverlap
  <2>1. zoom.bars \in Ranges \cup {Whole}
    BY DEF ZoomInv
  <2>2. CASE zoom.bars = Whole
    BY <2>2 DEF BarsShowOverlap
  <2>3. CASE zoom.bars \in Ranges
    BY <2>3, BarsRight
  <2>4. QED BY <2>1, <2>2, <2>3
<1>4. TraceTypeOK
  <2>1. span \in [Spans -> Counters]
    BY DEF SpanInv, SpansKnown
  <2>2. looked \subseteq FilterNames /\ actingOnAll \in BOOLEAN
    BY DEF FilterInv
  <2>3. timers \in Seq(TimerSet) /\ url \in FilterNames \cup {NoService}
    BY DEF LateInv, AllFilters
  <2>4. requests \in Int
    BY <2>3, LenProperties DEF LateInv, SpinnerCountsWork
  <2>5. QED BY <2>1, <2>2, <2>3, <2>4 DEF TraceTypeOK, Counters, TimerSet
<1>5. SpinnerCountsWork /\ StuckMeansNeverLookedUp /\ ZoomMatchesSelection
  BY DEF LateInv, FilterInv, ZoomInv
<1>6. QED BY <1>1, <1>2, <1>3, <1>4, <1>5 DEF TraceShowsChoices

(* trace.js, filterLabel.js, filterAllServices.js, fullPageSpinner.js: what  *)
(* the page shows is what the filters, clicks and selections so far ask     *)
(* for, in every order of the user's actions and the callbacks, for every   *)
(* trace.                                                                   *)
THEOREM TraceIsShown == TraceSpec => []TraceShowsChoices
<1> DEFINE Inv == LateInv /\ ZoomInv /\ FilterInv /\ SpanInv /\ TidyInv
<1>1. TraceInit => Inv
  BY InitTimers, InitZoom, InitFilters, InitShows, InitTidy
<1>2. Inv /\ [TraceNext]_traceVars => Inv'
  BY StepLate, StepZoom, StepFilters, StepShows, StepTidy
<1>3. Inv => TraceShowsChoices
  BY PageIsRight
<1> HIDE DEF Inv
<1>4. QED BY <1>1, <1>2, <1>3, PTL DEF TraceSpec

-----------------------------------------------------------------------------
(* < is well-founded, so a nonempty set of naturals has a least element.    *)
LEMMA BelowIsWellFounded ==
  \E R : IsWellFoundedOn(R, Nat) /\ \A m, n \in Nat : m < n => <<m, n>> \in R
<1>1. \A m, n \in Nat : m < n => <<m, n>> \in OpToRel(<, Nat)
  BY DEF OpToRel
<1> QED
  BY <1>1, NatLessThanWellFounded, Zenon

LEMMA MinimalMember ==
  ASSUME NEW R, NEW S, IsWellFoundedOn(R, S), NEW T, T \subseteq S, T # {}
  PROVE  \E n \in T : \A m \in T : ~(<<m, n>> \in R)
  BY WFMin

LEMMA LeastNumber ==
  ASSUME NEW T, T \subseteq Nat, T # {}
  PROVE  \E n \in T : \A m \in T : n <= m
<1>1. PICK R : IsWellFoundedOn(R, Nat) /\ \A m, n \in Nat : m < n => <<m, n>> \in R
  BY BelowIsWellFounded
<1>2. PICK n \in T : \A m \in T : ~(<<m, n>> \in R)
  <2> DEFINE S == Nat
  <2>1. IsWellFoundedOn(R, S) /\ T \subseteq S
    BY <1>1
  <2> HIDE DEF S
  <2> QED
    BY <2>1, MinimalMember
<1>3. ASSUME NEW m \in T PROVE n <= m
  <2>1. m \in Nat /\ n \in Nat
    OBVIOUS
  <2>2. ~(m < n)
    BY <2>1, <1>1, <1>2
  <2> QED
    BY <2>1, <2>2
<1> QED
  BY <1>3

-----------------------------------------------------------------------------
(* The index page.  Requests: while the answers come in order, those that   *)
(* are not answered are the newest ones, and the newest of all asked for    *)
(* the service that is selected.                                            *)
NamesInv ==
  /\ requested \in Seq(Selectable \cup {Undefined, Gone})
  /\ waiting \subseteq 1 .. Len(requested)
  /\ listed \in 0 .. Len(requested)
  /\ requested # <<>> /\ selected # Nothing => requested[Len(requested)] = selected
  /\ inOrder => waiting = (listed + 1) .. Len(requested)

(* Tags: finitely many, of services with a label and never of the queried one. *)
TagsInv ==
  /\ events \in Nat /\ IsFiniteSet(tags)
  /\ \A tag \in tags : tag.service \in LabelServices \ {Queried} /\ tag.since \in Nat

(* Filters: the list has none of them twice. *)
ListInv ==
  /\ services \in Seq(LabelServices)
  /\ \A i, j \in DOMAIN services : services[i] = services[j] => i = j
  /\ IsFiniteSet(labelled)
  /\ FiltersSelectTraces
  /\ TagsInv /\ TagsNameFilters

LEMMA NamesFollow == NamesInv => SpanNamesFollowSelection
<1> SUFFICES ASSUME NamesInv, inOrder, waiting = {}, selected # Nothing
    PROVE  IF requested = <<>> THEN listed = 0 ELSE listed # 0 /\ requested[listed] = selected
  BY DEF SpanNamesFollowSelection
<1>1. Len(requested) \in Nat /\ (requested = <<>> <=> Len(requested) = 0)
  BY EmptySeq, LenProperties DEF NamesInv
<1>2. listed \in 0 .. Len(requested) /\ (listed + 1) .. Len(requested) = {}
  BY DEF NamesInv
<1>3. listed = Len(requested)
  BY <1>1, <1>2
<1> QED
  BY <1>1, <1>3 DEF NamesInv

LEMMA StepNames == NamesInv /\ [IndexNext]_indexVars => NamesInv'
<1> SUFFICES ASSUME NamesInv, [IndexNext]_indexVars PROVE NamesInv'
  OBVIOUS
<1> DEFINE n == Len(requested)
<1>0. n \in Nat
  BY LenProperties DEF NamesInv
<1>1. ASSUME NEW svc \in Selectable, ChangeService(svc) PROVE NamesInv'
  <2> DEFINE S == Selectable \cup {Undefined, Gone}
  <2>1. /\ requested' = Append(requested, svc) /\ waiting' = waiting \cup {n + 1}
        /\ selected' = svc /\ listed' = listed /\ inOrder' = inOrder
    BY <1>1 DEF ChangeService, Ask
  <2>2. requested \in Seq(S) /\ svc \in S
    BY DEF NamesInv
  <2> HIDE DEF S
  <2>3. /\ requested' \in Seq(S) /\ Len(requested') = n + 1 /\ requested'[n + 1] = svc
    BY <2>1, <2>2, AppendProperties
  <2> HIDE DEF n
  <2>4. /\ waiting \subseteq 1 .. n /\ listed \in 0 .. n
        /\ inOrder => waiting = (listed + 1) .. n
    BY DEF NamesInv, n
  <2>5. waiting' \subseteq 1 .. (n + 1) /\ listed' \in 0 .. (n + 1)
    BY <1>0, <2>1, <2>4
  <2>6. inOrder' => waiting' = (listed' + 1) .. (n + 1)
    BY <1>0, <2>1, <2>4
  <2> QED
    BY <2>1, <2>3, <2>5, <2>6 DEF NamesInv, S
<1>2. ASSUME NEW i \in 1 .. MaxChanges, Answer(i) \/ Unanswered(i) PROVE NamesInv'
  <2>1. /\ i \in waiting /\ waiting' = waiting \ {i}
        /\ requested' = requested /\ selected' = selected
    BY <1>2 DEF Answer, Unanswered
  <2> HIDE DEF n
  <2>2. /\ waiting \subseteq 1 .. n /\ listed \in 0 .. n
        /\ inOrder => waiting = (listed + 1) .. n
    BY DEF NamesInv, n
  <2>3. /\ listed' \in 0 .. n
        /\ inOrder' => waiting' = (listed' + 1) .. n
    <3>1. CASE Unanswered(i)
      BY <2>2, <3>1 DEF Unanswered
    <3>2. CASE Answer(i)
      <4>1. listed' = i /\ (inOrder' => inOrder /\ \A j \in waiting : i <= j)
        BY <3>2 DEF Answer
      <4>2. ASSUME inOrder' PROVE i = listed + 1
        BY <1>0, <2>1, <2>2, <4>1, <4>2
      <4> QED
        BY <1>0, <2>1, <2>2, <4>1, <4>2
    <3> QED
      BY <1>2, <3>1, <3>2
  <2> QED
    BY <2>1, <2>2, <2>3 DEF NamesInv, n
<1>3. CASE \/ \E svc \in LabelServices : AddFilter(svc) \/ RemoveFilter(svc)
           \/ \E by \in DOMAIN SortKey : UpdateSortOrder(by)
           \/ UNCHANGED indexVars
  <2>1. UNCHANGED nameVars
    BY <1>3 DEF AddFilter, RemoveFilter, UpdateSortOrder, indexVars
  <2> QED
    BY <2>1 DEF nameVars, NamesInv
<1> QED
  BY <1>1, <1>2, <1>3 DEF IndexNext

-----------------------------------------------------------------------------
(* splice of one element of a list without repetitions. *)
LEMMA SplicedList ==
  ASSUME NEW S, NEW s \in Seq(S), NEW svc,
         \A i, j \in DOMAIN s : s[i] = s[j] => i = j,
         \E i \in DOMAIN s : s[i] = svc,
         NEW t, t = Spliced(s, PlaceOf(s, svc))
  PROVE  /\ t \in Seq(S) /\ Len(t) = Len(s) - 1
         /\ \A i, j \in DOMAIN t : t[i] = t[j] => i = j
         /\ \A i \in DOMAIN t : t[i] # svc /\ \E k \in DOMAIN s : s[k] = t[i]
         /\ \A i \in DOMAIN s : s[i] # svc => \E k \in DOMAIN t : t[k] = s[i]
<1> DEFINE n == Len(s)
           p == PlaceOf(s, svc)
           low == SubSeq(s, 1, p - 1)
           high == SubSeq(s, p + 1, n)
<1>1. n \in Nat /\ DOMAIN s = 1 .. n
  BY LenProperties
<1>2. p \in 1 .. n /\ s[p] = svc
  <2>1. PICK i \in 1 .. n : s[i] = svc
    BY <1>1
  <2>2. \A j \in 1 .. i - 1 : s[j] # svc
    BY <1>1, <2>1
  <2>3. \E k \in DOMAIN s : s[k] = svc /\ \A j \in 1 .. k - 1 : s[j] # svc
    BY <1>1, <2>1, <2>2
  <2> QED
    BY <1>1, <2>3 DEF PlaceOf
<1> HIDE DEF p
<1>3. \A i \in 1 .. n : s[i] \in S
  BY <1>1, ElementOfSeq
<1> HIDE DEF n
<1>4. /\ low \in Seq(S) /\ Len(low) = p - 1
      /\ \A i \in 1 .. p - 1 : low[i] = s[i]
  <2>1. \A i \in 1 .. (p - 1) : s[i] \in S
    BY <1>1, <1>2, <1>3
  <2>2. /\ low \in Seq(S) /\ Len(low) = IF 1 <= p - 1 THEN (p - 1) - 1 + 1 ELSE 0
        /\ \A i \in 1 .. (p - 1) - 1 + 1 : low[i] = s[1 + i - 1]
    BY <1>1, <1>2, <2>1, SubSeqProperties
  <2> HIDE DEF low
  <2> QED
    BY <1>1, <1>2, <2>2
<1>5. /\ high \in Seq(S) /\ Len(high) = n - p
      /\ \A i \in 1 .. n - p : high[i] = s[p + i]
  <2>1. \A i \in (p + 1) .. n : s[i] \in S
    BY <1>1, <1>2, <1>3
  <2>2. /\ high \in Seq(S) /\ Len(high) = IF p + 1 <= n THEN n - (p + 1) + 1 ELSE 0
        /\ \A i \in 1 .. n - (p + 1) + 1 : high[i] = s[(p + 1) + i - 1]
    BY <1>1, <1>2, <2>1, SubSeqProperties
  <2> HIDE DEF high
  <2>3. n - (p + 1) + 1 = n - p /\ (IF p + 1 <= n THEN n - (p + 1) + 1 ELSE 0) = n - p
    BY <1>1, <1>2
  <2>4. \A i \in 1 .. n - p : high[i] = s[p + i]
    <3> SUFFICES ASSUME NEW i \in 1 .. n - p PROVE high[i] = s[p + i]
      OBVIOUS
    <3>1. high[i] = s[(p + 1) + i - 1]
      BY <2>2, <2>3
    <3>2. (p + 1) + i - 1 = p + i
      BY <1>1, <1>2
    <3> QED
      BY <3>1, <3>2
  <2> QED
    BY <2>2, <2>3, <2>4
<1>15. t = low \o high
  BY DEF Spliced, p, n
<1> HIDE DEF low, high
<1>6. /\ t \in Seq(S) /\ Len(t) = Len(low) + Len(high)
      /\ \A i \in 1 .. Len(low) + Len(high) : t[i] = IF i <= Len(low) THEN low[i] ELSE high[i - Len(low)]
  BY <1>4, <1>5, <1>15, ConcatProperties
<1>7. DOMAIN t = 1 .. Len(t)
  BY <1>6, LenProperties
<1>8. /\ Len(t) = n - 1 /\ DOMAIN t = 1 .. (n - 1)
      /\ \A i \in 1 .. (n - 1) : t[i] = IF i < p THEN s[i] ELSE s[i + 1]
  <2>1. Len(t) = n - 1
    BY <1>1, <1>2, <1>4, <1>5, <1>6
  <2>2. ASSUME NEW i \in 1 .. (n - 1) PROVE t[i] = IF i < p THEN s[i] ELSE s[i + 1]
    <3>1. t[i] = IF i <= p - 1 THEN low[i] ELSE high[i - (p - 1)]
      BY <1>1, <1>2, <1>4, <1>5, <1>6
    <3>2. CASE i < p
      BY <1>1, <1>2, <1>4, <3>1, <3>2
    <3>3. CASE ~(i < p)
      <4>1. i - (p - 1) \in 1 .. n - p /\ p + (i - (p - 1)) = i + 1
        BY <1>1, <1>2, <3>3
      <4>2. high[i - (p - 1)] = s[i + 1]
        BY <1>5, <4>1
      <4> QED
        BY <1>1, <1>2, <3>1, <3>3, <4>2
    <3> QED
      BY <3>2, <3>3
  <2> QED
    BY <1>7, <2>1, <2>2
<1> DEFINE place(i) == IF i < p THEN i ELSE i + 1
<1>12. \A i \in 1 .. (n - 1) : place(i) \in 1 .. n /\ place(i) # p /\ t[i] = s[place(i)]
  BY <1>1, <1>2, <1>8
<1>13. \A i, j \in 1 .. (n - 1) : place(i) = place(j) => i = j
  BY <1>1, <1>2
<1>14. \A i, j \in 1 .. n : s[i] = s[j] => i = j
  BY <1>1
<1> HIDE DEF place
<1>9. \A i, j \in DOMAIN t : t[i] = t[j] => i = j
  <2> SUFFICES ASSUME NEW i \in 1 .. (n - 1), NEW j \in 1 .. (n - 1), t[i] = t[j] PROVE i = j
    BY <1>8
  <2>1. s[place(i)] = s[place(j)] /\ place(i) \in 1 .. n /\ place(j) \in 1 .. n
    BY <1>12
  <2> QED
    BY <1>13, <1>14, <2>1
<1>10. \A i \in DOMAIN t : t[i] # svc /\ \E k \in DOMAIN s : s[k] = t[i]
  <2> SUFFICES ASSUME NEW i \in 1 .. (n - 1)
      PROVE  t[i] # svc /\ \E k \in 1 .. n : t[i] = s[k]
    BY <1>1, <1>8
  <2>1. place(i) \in 1 .. n /\ place(i) # p /\ t[i] = s[place(i)]
    BY <1>12
  <2> QED
    BY <1>2, <1>14, <2>1
<1>11. \A i \in DOMAIN s : s[i] # svc => \E k \in DOMAIN t : t[k] = s[i]
  <2> SUFFICES ASSUME NEW i \in 1 .. n, s[i] # svc PROVE \E k \in 1 .. (n - 1) : t[k] = s[i]
    BY <1>1, <1>8
  <2>1. i # p
    BY <1>2
  <2>2. CASE i < p
    BY <1>1, <1>2, <1>8, <2>2
  <2>3. CASE i > p
    <3>1. i - 1 \in 1 .. (n - 1) /\ t[i - 1] = s[i]
      BY <1>1, <1>2, <1>8, <2>3
    <3> QED
      BY <3>1
  <2> QED
    BY <1>1, <1>2, <2>1, <2>2, <2>3
<1> QED
  BY <1>6, <1>8, <1>9, <1>10, <1>11 DEF n

(* The conjuncts of ListInv that say what the page shows. *)
LEMMA ListShown ==
  ASSUME UpdateTraces(services'), labelled' = Filters',
         Len(services') = Cardinality(labelled')
  PROVE  FiltersSelectTraces'
<1> DEFINE Filtering == {services'[i] : i \in DOMAIN services'}
<1>1. /\ hidden' = {t \in Found : ~(Filtering \subseteq TraceServices[t])}
      /\ counted' = Cardinality(Found \ hidden')
  BY DEF UpdateTraces
<1>2. labelled' = Filtering
  BY DEF Filters
<1> HIDE DEF Filtering
<1>3. hidden' = {t \in Found : \E other \in labelled' : other \notin TraceServices[t]}
  BY <1>1, <1>2
<1> QED
  BY <1>1, <1>3 DEF FiltersSelectTraces

(* Where there are tags, one of them is the first. *)
LEMMA FirstIsOne ==
  ASSUME NEW T, \A tag \in T : tag.since \in Nat, T # {}
  PROVE  \E tag \in T : tag \in FirstOf(T)
<1> DEFINE times == {tag.since : tag \in T}
<1>1. times \subseteq Nat /\ times # {}
  OBVIOUS
<1> HIDE DEF times
<1>2. PICK n \in times : \A m \in times : n <= m
  BY <1>1, LeastNumber
<1>3. PICK tag \in T : tag.since = n
  BY DEF times
<1>4. \A other \in T : tag.since <= other.since
  BY <1>2, <1>3 DEF times
<1> QED
  BY <1>4 DEF FirstOf

(* A new filter has its tag, unless the query asked for it. *)
LEMMA TagComesWithFilter ==
  ASSUME TagsInv, TagsNameFilters, IsFiniteSet(Filters),
         NEW svc \in LabelServices, svc \notin Filters, Filters' = Filters \cup {svc},
         tags' = IF svc = Queried THEN tags
                 ELSE tags \cup {[service |-> svc, since |-> events]},
         events' = events + 1
  PROVE  TagsInv' /\ TagsNameFilters'
<1> DEFINE tag == [service |-> svc, since |-> events]
<1>1. TagsInv'
  <2>1. IsFiniteSet(tags \cup {tag})
    BY FS_AddElement DEF TagsInv
  <2> QED
    BY <2>1 DEF TagsInv
<1>2. ASSUME NEW other \in LabelServices
      PROVE  Cardinality(Tagged(IdOf[other])') <= Cardinality(Taggable(IdOf[other])')
  <2> DEFINE T == Tagged(IdOf[other])
             W == Taggable(IdOf[other])
  <2>1. /\ IsFiniteSet(T) /\ IsFiniteSet(W)
        /\ Cardinality(T) \in Nat /\ Cardinality(W) \in Nat
        /\ Cardinality(T) <= Cardinality(W)
    <3>1. T \subseteq tags /\ W \subseteq Filters
      BY DEF Tagged, Taggable
    <3>2. IsFiniteSet(T) /\ IsFiniteSet(W)
      BY <3>1, FS_Subset DEF TagsInv
    <3> QED
      BY <3>2, FS_CardinalityType DEF TagsNameFilters
  <2>2. CASE svc = Queried \/ IdOf[svc] # IdOf[other]
    <3>1. Tagged(IdOf[other])' = T /\ Taggable(IdOf[other])' = W
      BY <2>2 DEF Tagged, Taggable
    <3> QED
      BY <2>1, <3>1
  <2>3. CASE svc # Queried /\ IdOf[svc] = IdOf[other]
    <3>1. Tagged(IdOf[other])' = T \cup {tag} /\ Taggable(IdOf[other])' = W \cup {svc} /\ svc \notin W
      BY <2>3 DEF Tagged, Taggable
    <3> HIDE DEF T, W, tag
    <3>2. Cardinality(W \cup {svc}) = Cardinality(W) + 1
      BY <2>1, <3>1, FS_AddElement
    <3>3. Cardinality(T \cup {tag}) = Cardinality(T) \/ Cardinality(T \cup {tag}) = Cardinality(T) + 1
      BY <2>1, FS_AddElement
    <3> QED
      BY <2>1, <3>1, <3>2, <3>3
  <2> QED
    BY <2>2, <2>3
<1>3. ASSUME NEW other \in LabelServices \ {Queried},
             \A third \in LabelServices \ {other} : IdOf[third] # IdOf[other]
      PROVE  (other \in Filters <=> \E t \in tags : t.service = other)'
  <2>1. other \in Filters <=> \E t \in tags : t.service = other
    BY <1>3 DEF TagsNameFilters
  <2>2. CASE other = svc
    <3>1. tag \in tags' /\ tag.service = other /\ other \in Filters'
      BY <2>2
    <3> HIDE DEF tag
    <3> QED
      BY <3>1
  <2>3. CASE other # svc
    <3>1. tags' \subseteq tags \cup {tag} /\ tags \subseteq tags' /\ tag.service # other
      BY <2>3
    <3> QED
      BY <2>1, <2>3, <3>1
  <2> QED
    BY <2>2, <2>3
<1> QED
  BY <1>1, <1>2, <1>3 DEF TagsNameFilters

(* With a filter goes one tag of its id, if there is any. *)
LEMMA TagGoesWithFilter ==
  ASSUME TagsInv, TagsNameFilters, IsFiniteSet(Filters),
         Filters \subseteq LabelServices,
         NEW svc \in LabelServices, Filters' = Filters \ {svc},
         tags' = tags \ FirstOf(Tagged(IdOf[svc])),
         events' = events + 1
  PROVE  TagsInv' /\ TagsNameFilters'
<1>1. TagsInv'
  BY FS_Subset DEF TagsInv
<1>2. ASSUME NEW other \in LabelServices
      PROVE  /\ Cardinality(Tagged(IdOf[other])') <= Cardinality(Taggable(IdOf[other])')
             /\ IsFiniteSet(Tagged(IdOf[other])')
  <2> DEFINE T == Tagged(IdOf[other])
             W == Taggable(IdOf[other])
  <2>1. /\ IsFiniteSet(T) /\ IsFiniteSet(W)
        /\ Cardinality(T) \in Nat /\ Cardinality(W) \in Nat
        /\ Cardinality(T) <= Cardinality(W)
    <3>1. T \subseteq tags /\ W \subseteq Filters
      BY DEF Tagged, Taggable
    <3>2. IsFiniteSet(T) /\ IsFiniteSet(W)
      BY <3>1, FS_Subset DEF TagsInv
    <3> QED
      BY <3>2, FS_CardinalityType DEF TagsNameFilters
  <2>2. CASE IdOf[svc] # IdOf[other]
    <3>1. Tagged(IdOf[other])' = T /\ Taggable(IdOf[other])' = W
      BY <2>2 DEF Tagged, Taggable, FirstOf
    <3> QED
      BY <2>1, <3>1
  <2>3. CASE IdOf[svc] = IdOf[other]
    <3>1. Tagged(IdOf[other])' = T \ FirstOf(T) /\ Taggable(IdOf[other])' = W \ {svc}
      BY <2>3 DEF Tagged, Taggable
    <3>2. \A t \in T : t.since \in Nat
      BY DEF Tagged, TagsInv
    <3> HIDE DEF T, W
    <3>3. Cardinality(W \ {svc}) = Cardinality(W) \/ Cardinality(W \ {svc}) = Cardinality(W) - 1
      BY <2>1, FS_RemoveElement
    <3>4. CASE T = {}
      <4>1. T \ FirstOf(T) = {}
        BY <3>4
      <4>2. Cardinality(T \ FirstOf(T)) = 0 /\ IsFiniteSet(T \ FirstOf(T))
        BY <4>1, FS_EmptySet
      <4>3. Cardinality(W \ {svc}) \in Nat
        BY <2>1, FS_RemoveElement, FS_CardinalityType
      <4> QED
        BY <3>1, <4>2, <4>3
    <3>5. CASE T # {}
      <4>1. PICK t \in T : t \in FirstOf(T)
        BY <3>2, <3>5, FirstIsOne
      <4>2. T \ FirstOf(T) \subseteq T \ {t}
        BY <4>1
      <4>3. IsFiniteSet(T \ {t}) /\ Cardinality(T \ {t}) = Cardinality(T) - 1
        BY <2>1, FS_RemoveElement
      <4>4. /\ IsFiniteSet(T \ FirstOf(T))
            /\ Cardinality(T \ FirstOf(T)) <= Cardinality(T) - 1
        BY <4>2, <4>3, FS_Subset
      <4>5. Cardinality(T \ FirstOf(T)) \in Nat
        BY <4>4, FS_CardinalityType
      <4> QED
        BY <2>1, <3>1, <3>3, <4>4, <4>5
    <3> QED
      BY <3>4, <3>5
  <2> QED
    BY <2>2, <2>3
<1>3. ASSUME NEW other \in LabelServices \ {Queried},
             \A third \in LabelServices \ {other} : IdOf[third] # IdOf[other]
      PROVE  (other \in Filters <=> \E t \in tags : t.service = other)'
  <2>1. other \in Filters <=> \E t \in tags : t.service = other
    BY <1>3 DEF TagsNameFilters
  <2>2. CASE other = svc
    <3>1. Taggable(IdOf[other])' = {}
      BY <1>3, <2>2 DEF Taggable
    <3>2. Cardinality(Taggable(IdOf[other])') = 0
      BY <3>1, FS_EmptySet
    <3>3. /\ IsFiniteSet(Tagged(IdOf[other])')
          /\ Cardinality(Tagged(IdOf[other])') <= 0
          /\ Cardinality(Tagged(IdOf[other])') \in Nat
      BY <1>2, <3>2, FS_CardinalityType
    <3>4. Tagged(IdOf[other])' = {}
      BY <3>3, FS_EmptySet
    <3>5. \A t \in tags' : t.service # other
      BY <3>4 DEF Tagged
    <3> QED
      BY <2>2, <3>5
  <2>3. CASE other # svc
    <3>1. \A t \in tags : t.service = other => t \notin FirstOf(Tagged(IdOf[svc]))
      BY <1>3, <2>3 DEF FirstOf, Tagged
    <3> QED
      BY <2>1, <2>3, <3>1
  <2> QED
    BY <2>2, <2>3
<1> QED
  BY <1>1, <1>2, <1>3 DEF TagsNameFilters

LEMMA StepList == ListInv /\ [IndexNext]_indexVars => ListInv'
<1> SUFFICES ASSUME ListInv, [IndexNext]_indexVars PROVE ListInv'
  OBVIOUS
<1> USE IndexAssumption
<1> DEFINE n == Len(services)
           L == LabelServices
<1>0. /\ n \in Nat /\ DOMAIN services = 1 .. n /\ services \in Seq(L)
      /\ \A i \in 1 .. n : services[i] \in L
  BY LenProperties, ElementOfSeq DEF ListInv
<1>00. /\ labelled = Filters /\ Filters \subseteq L /\ IsFiniteSet(labelled)
       /\ Len(services) = Cardinality(labelled)
       /\ \A i, j \in 1 .. n : services[i] = services[j] => i = j
  BY <1>0 DEF ListInv, FiltersSelectTraces, Filters
<1>1. ASSUME NEW svc \in LabelServices, AddFilter(svc) PROVE ListInv'
  <2>1. /\ svc \notin Filters /\ labelled' = labelled \cup {svc}
        /\ services' = Append(services, svc) /\ UpdateTraces(services')
    BY <1>00, <1>1 DEF AddFilter
  <2> HIDE DEF n, L
  <2>2. /\ services' \in Seq(L) /\ Len(services') = n + 1 /\ services'[n + 1] = svc
        /\ \A i \in 1 .. n : services'[i] = services[i]
    BY <1>0, <2>1, AppendProperties DEF L, n
  <2>3. DOMAIN services' = 1 .. (n + 1)
    BY <2>2, LenProperties
  <2>4. Filters' = Filters \cup {svc}
    <3>1. Filters = {services[i] : i \in 1 .. n} /\ Filters' = {services'[i] : i \in 1 .. (n + 1)}
      BY <1>0, <2>3 DEF Filters
    <3>2. ASSUME NEW i \in 1 .. (n + 1) PROVE services'[i] \in Filters \cup {svc}
      <4>1. i \in 1 .. n \/ i = n + 1
        BY <1>0
      <4> QED
        BY <2>2, <3>1, <4>1
    <3>3. ASSUME NEW i \in 1 .. n PROVE services[i] \in Filters'
      <4>1. i \in 1 .. (n + 1)
        BY <1>0
      <4> QED
        BY <2>2, <3>1, <4>1
    <3>4. n + 1 \in 1 .. (n + 1)
      BY <1>0
    <3> QED
      BY <2>2, <3>1, <3>2, <3>3, <3>4
  <2>5. \A i, j \in DOMAIN services' : services'[i] = services'[j] => i = j
    <3> SUFFICES ASSUME NEW i \in 1 .. (n + 1), NEW j \in 1 .. (n + 1), services'[i] = services'[j]
        PROVE  i = j
      BY <2>3
    <3>1. \A k \in 1 .. n : services'[k] = services[k] /\ services[k] # svc
      BY <1>0, <2>1, <2>2 DEF Filters
    <3>2. (i \in 1 .. n \/ i = n + 1) /\ (j \in 1 .. n \/ j = n + 1)
      BY <1>0
    <3> QED
      BY <1>00, <2>2, <3>1, <3>2
  <2>6. /\ labelled' = Filters' /\ IsFiniteSet(labelled')
        /\ Len(services') = Cardinality(labelled')
    <3>1. IsFiniteSet(labelled \cup {svc}) /\ Cardinality(labelled \cup {svc}) = Cardinality(labelled) + 1
      BY <1>00, <2>1, FS_AddElement
    <3>2. n = Cardinality(labelled)
      BY <1>00 DEF n
    <3> QED
      BY <1>00, <2>1, <2>2, <2>4, <3>1, <3>2
  <2>7. FiltersSelectTraces'
    BY <2>1, <2>6, ListShown
  <2>8. TagsInv' /\ TagsNameFilters'
    <3>1. /\ tags' = IF svc = Queried THEN tags
                    ELSE tags \cup {[service |-> svc, since |-> events]}
          /\ events' = events + 1
      BY <1>1 DEF AddFilter
    <3>2. TagsInv /\ TagsNameFilters /\ IsFiniteSet(Filters)
      BY <1>00 DEF ListInv
    <3> QED
      BY <2>1, <2>4, <3>1, <3>2, TagComesWithFilter
  <2> QED
    BY <2>2, <2>5, <2>6, <2>7, <2>8 DEF ListInv, L
<1>2. ASSUME NEW svc \in LabelServices, RemoveFilter(svc) PROVE ListInv'
  <2>10. CASE svc \notin Filters
    <3>1. labelled' = labelled /\ UNCHANGED <<services, hidden, counted>>
      BY <1>00, <1>2, <2>10 DEF RemoveFilter
    <3>2. Filters' = Filters /\ Filters' = Filters \ {svc}
      BY <2>10, <3>1 DEF Filters
    <3>3. TagsInv' /\ TagsNameFilters'
      BY <1>00, <1>2, <3>2, TagGoesWithFilter DEF ListInv, RemoveFilter
    <3> QED
      BY <3>1, <3>2, <3>3 DEF ListInv, FiltersSelectTraces
  <2> SUFFICES ASSUME svc \in Filters PROVE ListInv'
    BY <2>10
  <2>1. /\ svc \in Filters /\ labelled' = labelled \ {svc}
        /\ services' = Spliced(services, PlaceOf(services, svc)) /\ UpdateTraces(services')
    BY <1>00, <1>2 DEF RemoveFilter
  <2>2. /\ services' \in Seq(L) /\ Len(services') = Len(services) - 1
        /\ \A i, j \in DOMAIN services' : services'[i] = services'[j] => i = j
        /\ \A i \in DOMAIN services' :
             services'[i] # svc /\ \E k \in DOMAIN services : services[k] = services'[i]
        /\ \A i \in DOMAIN services :
             services[i] # svc => \E k \in DOMAIN services' : services'[k] = services[i]
    <3>1. \E i \in DOMAIN services : services[i] = svc
      BY <2>1 DEF Filters
    <3>2. \A i, j \in DOMAIN services : services[i] = services[j] => i = j
      BY DEF ListInv
    <3>3. services \in Seq(L)
      BY <1>0
    <3> HIDE DEF L
    <3>5. services' = Spliced(services, PlaceOf(services, svc))
      BY <2>1
    <3> QED
      BY <3>1, <3>2, <3>3, <3>5, SplicedList
  <2>3. Filters' = Filters \ {svc}
    BY <2>2 DEF Filters
  <2>4. /\ labelled' = Filters' /\ IsFiniteSet(labelled')
        /\ Len(services') = Cardinality(labelled')
    <3>1. IsFiniteSet(labelled \ {svc}) /\ Cardinality(labelled \ {svc}) = Cardinality(labelled) - 1
      BY <1>00, <2>1, FS_RemoveElement
    <3> QED
      BY <1>00, <2>1, <2>2, <2>3, <3>1
  <2>5. FiltersSelectTraces'
    BY <2>1, <2>4, ListShown
  <2>6. TagsInv' /\ TagsNameFilters'
    BY <1>00, <1>2, <2>3, TagGoesWithFilter DEF ListInv, RemoveFilter
  <2> QED
    BY <2>2, <2>4, <2>5, <2>6 DEF ListInv
<1>3. CASE UNCHANGED <<services, hidden, labelled, tags, events>> /\ counted' = counted
  BY <1>3 DEF ListInv, FiltersSelectTraces, TagsInv, TagsNameFilters, Tagged, Taggable, Filters
<1>4. CASE \/ \E svc \in Selectable : ChangeService(svc)
           \/ \E i \in 1 .. MaxChanges : Answer(i) \/ Unanswered(i)
           \/ UNCHANGED indexVars
  <2>1. UNCHANGED <<services, hidden, labelled, tags, events>> /\ counted' = counted
    BY <1>4 DEF ChangeService, Answer, Unanswered, indexVars, filterVars
  <2> QED
    BY <1>3, <2>1
<1>5. ASSUME NEW by \in DOMAIN SortKey, UpdateSortOrder(by) PROVE ListInv'
  <2>1. /\ UNCHANGED <<services, hidden, labelled, tags>> /\ counted' = Cardinality(Found \ hidden)
        /\ events' = events + 1
    BY <1>5 DEF UpdateSortOrder
  <2>2. Filters' = Filters /\ FiltersSelectTraces'
    BY <2>1 DEF ListInv, FiltersSelectTraces, Filters
  <2>3. TagsInv' /\ TagsNameFilters'
    BY <2>1, <2>2 DEF ListInv, TagsInv, TagsNameFilters, Tagged, Taggable
  <2> QED
    BY <2>1, <2>2, <2>3 DEF ListInv
<1> QED
  BY <1>1, <1>2, <1>4, <1>5 DEF IndexNext

LEMMA IndexStarts == IndexInit => NamesInv /\ ListInv
<1> SUFFICES ASSUME IndexInit PROVE NamesInv /\ ListInv
  OBVIOUS
<1>1. NamesInv
  <2> DEFINE S == Selectable \cup {Undefined, Gone}
             E == << >>
  <2>1. E \in Seq(S) /\ Len(E) = 0
    BY EmptySeq
  <2>2. CASE selected \in Selectable /\ requested = E /\ waiting = {}
    <3>1. listed = 0 /\ inOrder = TRUE
      BY DEF IndexInit
    <3>2. (0 + 1) .. 0 = {} /\ 0 \in 0 .. 0
      OBVIOUS
    <3> QED
      BY <2>1, <2>2, <3>1, <3>2 DEF NamesInv
  <2>3. CASE /\ selected = IF cookie \in Selectable THEN cookie ELSE Nothing
             /\ requested = <<cookie>> /\ waiting = {1}
    <3>1. listed = 0 /\ inOrder = TRUE /\ cookie \in S
      BY DEF IndexInit
    <3> HIDE DEF S
    <3>2. requested \in Seq(S) /\ Len(requested) = 1 /\ requested[1] = cookie
      BY <2>3, <3>1
    <3>3. waiting = (listed + 1) .. Len(requested) /\ listed \in 0 .. Len(requested)
          /\ waiting \subseteq 1 .. Len(requested)
      BY <2>3, <3>1, <3>2
    <3> QED
      BY <2>3, <3>1, <3>2, <3>3 DEF NamesInv, S
  <2> QED
    BY <2>2, <2>3 DEF IndexInit
<1>2. ListInv
  <2> DEFINE E == << >>
  <2>1. E \in Seq(LabelServices) /\ Len(E) = 0 /\ DOMAIN E = {}
    BY EmptySeq
  <2>2. services = E /\ hidden = {} /\ labelled = {} /\ tags = {} /\ counted = Cardinality(Found)
    BY DEF IndexInit
  <2> HIDE DEF E
  <2>3. Filters = {} /\ IsFiniteSet({}) /\ Cardinality({}) = 0
    BY <2>1, <2>2, FS_EmptySet DEF Filters
  <2>4. FiltersSelectTraces /\ TagsInv
    BY <2>1, <2>2, <2>3 DEF FiltersSelectTraces, TagsInv, IndexInit
  <2>5. \A id : Tagged(id) = {} /\ Taggable(id) = {}
    BY <2>2, <2>3 DEF Tagged, Taggable
  <2>6. TagsNameFilters
    BY <2>2, <2>3, <2>5 DEF TagsNameFilters
  <2> QED
    BY <2>1, <2>2, <2>3, <2>4, <2>6 DEF ListInv
<1> QED
  BY <1>1, <1>2

-----------------------------------------------------------------------------
(* Induction over the naturals, with a set for the property. *)
LEMMA Induct ==
  ASSUME NEW T, 0 \in T, \A n \in Nat : n \in T => n + 1 \in T
  PROVE  Nat \subseteq T
<1> SUFFICES ASSUME ~(Nat \subseteq T) PROVE FALSE
  OBVIOUS
<1> DEFINE U == {n \in Nat : n \notin T}
<1>1. U \subseteq Nat /\ U # {}
  OBVIOUS
<1> HIDE DEF U
<1>2. PICK n \in U : \A m \in U : n <= m
  BY <1>1, LeastNumber
<1>3. n \in Nat /\ n \notin T /\ n # 0
  BY DEF U
<1>4. n - 1 \in Nat /\ n - 1 \notin U
  BY <1>2, <1>3
<1>5. n - 1 \in T
  BY <1>4 DEF U
<1>6. (n - 1) + 1 = n
  BY <1>3
<1> QED
  BY <1>3, <1>4, <1>5, <1>6

(* A finite nonempty set of naturals has a greatest element. *)
LEMMA GreatestNumber ==
  ASSUME NEW T, T \subseteq Nat, T # {}, IsFiniteSet(T)
  PROVE  \E n \in T : \A m \in T : m <= n
<1> DEFINE Bounded(S) == \E n \in S : \A m \in S : m <= n
           P == {c \in Nat : \A S \in SUBSET Nat :
                   IsFiniteSet(S) /\ Cardinality(S) = c /\ S # {} => Bounded(S)}
<1>1. 0 \in P
  BY FS_EmptySet
<1>2. ASSUME NEW c \in Nat, c \in P PROVE c + 1 \in P
  <2> SUFFICES ASSUME NEW S \in SUBSET Nat, IsFiniteSet(S), Cardinality(S) = c + 1, S # {}
      PROVE  Bounded(S)
    OBVIOUS
  <2>1. PICK x \in S : TRUE
    OBVIOUS
  <2>2. x \in Nat /\ IsFiniteSet(S \ {x}) /\ Cardinality(S \ {x}) = c
    <3>1. IsFiniteSet(S \ {x}) /\ Cardinality(S \ {x}) = Cardinality(S) - 1
      BY FS_RemoveElement
    <3> QED
      BY <3>1
  <2>3. CASE S \ {x} = {}
    BY <2>2, <2>3
  <2>4. CASE S \ {x} # {}
    <3>1. PICK m \in S \ {x} : \A y \in S \ {x} : y <= m
      BY <1>2, <2>2, <2>4
    <3>2. m \in Nat /\ \A y \in S : y = x \/ y <= m
      BY <3>1
    <3>3. CASE m <= x
      BY <2>2, <3>1, <3>2, <3>3
    <3>4. CASE x <= m
      BY <2>2, <3>1, <3>2, <3>4
    <3> QED
      BY <2>2, <3>2, <3>3, <3>4
  <2> QED
    BY <2>3, <2>4
<1> HIDE DEF P
<1>3. Nat \subseteq P
  BY <1>1, <1>2, Induct
<1>4. Cardinality(T) \in Nat
  BY FS_CardinalityType
<1> QED
  BY <1>3, <1>4 DEF P

-----------------------------------------------------------------------------
(* The dependency page. *)
ServiceData(s) == [service |-> s, uses |-> Uses(links, s), usedBy |-> UsedBy(links, s)]

(* The modals show what the answer says of a service or of a link, and the  *)
(* marks are those of what is under the pointer; before the answer there is *)
(* nothing to show or to mark.                                              *)
WalkInv ==
  /\ links = {} \/ links \in LinkSets
  /\ answer = "pending" => NoModalShown /\ over = Off
  /\ dependencyModal = NoModal \/ dependencyModal \in links
  /\ serviceModal = NoModal \/ \E s \in ServicesIn(links) : serviceModal = ServiceData(s)
  /\ serviceModal = NoModal \/ dependencyModal = NoModal

MarksInv ==
  \/ over = Off /\ dark = FALSE /\ hover = {} /\ hoverLight = {} /\ hoverEdge = {}
  \/ /\ over \in ServicesIn(links) /\ dark = TRUE
     /\ hover = {over} /\ hoverEdge = IncidentEdges(links, over)
     /\ hoverLight = AdjacentNodes(links, over)
  \/ /\ over \in Edges(links) /\ dark = TRUE
     /\ hover = {over.parent, over.child} /\ hoverEdge = {over} /\ hoverLight = {}

(* What the pointer is over is a service, a link or nothing. *)
LEMMA PointedAt ==
  ASSUME NEW ls, ls = {} \/ ls \in LinkSets
  PROVE  /\ ServicesIn(ls) \cap Edges(ls) = {}
         /\ Off \notin ServicesIn(ls) /\ Off \notin Edges(ls)
<1> QED
  BY DependencyAssumption DEF ServicesIn, Edges

LEMMA StepWalk == WalkInv /\ [DependencyNext]_depVars => WalkInv'
<1> SUFFICES ASSUME WalkInv, [DependencyNext]_depVars PROVE WalkInv'
  OBVIOUS
<1>1. CASE Received
  <2>1. /\ answer = "pending" /\ answer' = "received" /\ links' \in LinkSets
        /\ UNCHANGED <<serviceModal, dependencyModal, over>>
    BY <1>1 DEF Received, modalVars, hoverVars
  <2>2. serviceModal = NoModal /\ dependencyModal = NoModal
    BY <2>1 DEF WalkInv, NoModalShown
  <2> QED
    BY <2>1, <2>2 DEF WalkInv
<1>2. CASE Failed
  BY <1>2 DEF Failed, WalkInv, modalVars, hoverVars, ServiceData
<1>3. CASE CloseModal
  BY <1>3 DEF CloseModal, WalkInv, NoModalShown, hoverVars
<1>4. ASSUME NEW s \in ServicesIn(links), ClickNode(s) \/ ClickEnd(s) PROVE WalkInv'
  <2>1. /\ serviceModal' = ServiceData(s) /\ dependencyModal' = NoModal
        /\ UNCHANGED <<answer, links, over>> /\ answer # "pending"
    <3>1. /\ ShowService(s) /\ UNCHANGED <<answer, links, over>>
          /\ (over = s \/ ~NoModalShown)
      BY <1>4 DEF ClickNode, ClickEnd, hoverVars, NoModalShown
    <3>2. s # Off
      BY PointedAt DEF WalkInv
    <3> QED
      BY <3>1, <3>2 DEF ShowService, ServiceData, WalkInv
  <2>2. ServiceData(s)' = ServiceData(s) /\ ServicesIn(links)' = ServicesIn(links)
    BY <2>1 DEF ServiceData
  <2> QED
    BY <2>1, <2>2 DEF WalkInv
<1>5. ASSUME NEW s \in ServicesIn(links), ClickUses(s) \/ ClickUsedBy(s) PROVE WalkInv'
  <2>1. PICK p \in ServicesIn(links) : serviceModal = ServiceData(p)
    BY <1>5 DEF WalkInv, ClickUses, ClickUsedBy
  <2>2. /\ serviceModal.service = p /\ serviceModal.uses = Uses(links, p)
        /\ serviceModal.usedBy = UsedBy(links, p)
    BY <2>1 DEF ServiceData
  <2>3. /\ serviceModal' = NoModal /\ UNCHANGED <<answer, links, over>>
        /\ serviceModal # NoModal
    BY <1>5 DEF ClickUses, ClickUsedBy, ShowDependency, hoverVars
  <2>4. dependencyModal' \in links
    <3>1. CASE ClickUses(s)
      <4>1. \E k \in links : k.parent = p /\ k.child = s
        BY <2>2, <3>1 DEF ClickUses, Uses
      <4>2. dependencyModal' = CHOOSE k \in links : k.parent = p /\ k.child = s
        BY <2>2, <3>1 DEF ClickUses, ShowDependency
      <4> QED
        BY <4>1, <4>2
    <3>2. CASE ClickUsedBy(s)
      <4>1. \E k \in links : k.parent = s /\ k.child = p
        BY <2>2, <3>2 DEF ClickUsedBy, UsedBy
      <4>2. dependencyModal' = CHOOSE k \in links : k.parent = s /\ k.child = p
        BY <2>2, <3>2 DEF ClickUsedBy, ShowDependency
      <4> QED
        BY <4>1, <4>2
    <3> QED
      BY <1>5, <3>1, <3>2
  <2>5. answer # "pending"
    BY <2>3 DEF WalkInv, NoModalShown
  <2> QED
    BY <2>3, <2>4, <2>5 DEF WalkInv
<1>6. CASE \/ \E s \in ServicesIn(links) : EnterNode(s) \/ LeaveNode(s)
           \/ \E k \in Edges(links) : EnterEdge(k) \/ LeaveEdge(k)
           \/ UNCHANGED depVars
  <2>1. /\ UNCHANGED <<answer, links, serviceModal, dependencyModal>>
        /\ answer = "pending" => over' = Off
    BY <1>6 DEF EnterNode, LeaveNode, EnterEdge, LeaveEdge, depVars, modalVars, hoverVars, WalkInv
  <2> QED
    BY <2>1 DEF WalkInv, NoModalShown, ServiceData
<1> QED
  BY <1>1, <1>2, <1>3, <1>4, <1>5, <1>6 DEF DependencyNext

LEMMA StepMarks == WalkInv /\ MarksInv /\ [DependencyNext]_depVars => MarksInv'
<1> SUFFICES ASSUME WalkInv, MarksInv, [DependencyNext]_depVars PROVE MarksInv'
  OBVIOUS
<1>0. /\ ServicesIn(links) \cap Edges(links) = {}
      /\ Off \notin ServicesIn(links) /\ Off \notin Edges(links)
  BY PointedAt DEF WalkInv
<1>1. CASE Received
  <2>1. over = Off /\ UNCHANGED hoverVars
    BY <1>1 DEF Received, WalkInv
  <2>2. dark = FALSE /\ hover = {} /\ hoverLight = {} /\ hoverEdge = {}
    BY <1>0, <2>1 DEF MarksInv
  <2> QED
    BY <2>1, <2>2 DEF MarksInv, hoverVars
<1>2. CASE \/ Failed \/ CloseModal \/ UNCHANGED depVars
           \/ \E s \in ServicesIn(links) :
                ClickNode(s) \/ ClickUses(s) \/ ClickUsedBy(s) \/ ClickEnd(s)
  <2>1. UNCHANGED <<links, hoverVars>>
    BY <1>2 DEF Failed, CloseModal, ClickNode, ClickUses, ClickUsedBy, ClickEnd, depVars
  <2> QED
    BY <2>1 DEF MarksInv, hoverVars
<1>3. ASSUME NEW s \in ServicesIn(links), EnterNode(s) PROVE MarksInv'
  <2>1. hover = {} /\ hoverLight = {} /\ hoverEdge = {}
    BY <1>0, <1>3 DEF EnterNode, MarksInv
  <2>2. /\ over' = s /\ dark' = TRUE /\ hover' = {s} /\ links' = links
        /\ hoverEdge' = IncidentEdges(links, s) /\ hoverLight' = AdjacentNodes(links, s)
    BY <1>3, <2>1 DEF EnterNode
  <2> QED
    BY <2>2 DEF MarksInv
<1>4. ASSUME NEW s \in ServicesIn(links), LeaveNode(s) PROVE MarksInv'
  <2>1. /\ hover = {s} /\ hoverEdge = IncidentEdges(links, s)
        /\ hoverLight = AdjacentNodes(links, s)
    BY <1>0, <1>4 DEF LeaveNode, MarksInv
  <2>2. over' = Off /\ dark' = FALSE /\ hover' = {} /\ hoverLight' = {} /\ hoverEdge' = {}
    BY <1>4, <2>1 DEF LeaveNode
  <2> QED
    BY <2>2 DEF MarksInv
<1>5. ASSUME NEW k \in Edges(links), EnterEdge(k) PROVE MarksInv'
  <2>1. hover = {} /\ hoverLight = {} /\ hoverEdge = {}
    BY <1>0, <1>5 DEF EnterEdge, MarksInv
  <2>2. /\ over' = k /\ dark' = TRUE /\ hover' = {k.parent, k.child} /\ links' = links
        /\ hoverEdge' = {k} /\ hoverLight' = {}
    BY <1>5, <2>1 DEF EnterEdge
  <2> QED
    BY <2>2 DEF MarksInv
<1>6. ASSUME NEW k \in Edges(links), LeaveEdge(k) PROVE MarksInv'
  <2>1. hover = {k.parent, k.child} /\ hoverEdge = {k} /\ hoverLight = {}
    BY <1>0, <1>6 DEF LeaveEdge, MarksInv
  <2>2. over' = Off /\ dark' = FALSE /\ hover' = {} /\ hoverLight' = {} /\ hoverEdge' = {}
    BY <1>6, <2>1 DEF LeaveEdge
  <2> QED
    BY <2>2 DEF MarksInv
<1> QED
  BY <1>1, <1>2, <1>3, <1>4, <1>5, <1>6 DEF DependencyNext

LEMMA ModalsFollow == WalkInv => ModalsShowLinks
<1> SUFFICES ASSUME WalkInv PROVE ModalsShowLinks
  OBVIOUS
<1>1. ASSUME serviceModal # NoModal
      PROVE  /\ \A s \in serviceModal.uses : serviceModal.service \in UsedBy(links, s)
             /\ \A s \in serviceModal.usedBy : serviceModal.service \in Uses(links, s)
             /\ serviceModal.uses \cup serviceModal.usedBy # {}
  <2>1. PICK p \in ServicesIn(links) : serviceModal = ServiceData(p)
    BY <1>1 DEF WalkInv
  <2>2. /\ serviceModal.service = p /\ serviceModal.uses = Uses(links, p)
        /\ serviceModal.usedBy = UsedBy(links, p)
    BY <2>1 DEF ServiceData
  <2> QED
    BY <2>2 DEF Uses, UsedBy, ServicesIn
<1> QED
  BY <1>1 DEF ModalsShowLinks, WalkInv

LEMMA MarksFollow == WalkInv /\ MarksInv => MarksFollowPointer
<1> SUFFICES ASSUME WalkInv, MarksInv PROVE MarksFollowPointer
  OBVIOUS
<1>0. /\ ServicesIn(links) \cap Edges(links) = {}
      /\ Off \notin ServicesIn(links) /\ Off \notin Edges(links)
  BY PointedAt DEF WalkInv
<1>1. (dark <=> over # Off) /\ dark \in BOOLEAN
  BY <1>0 DEF MarksInv
<1>2. over = Off => hover = {} /\ hoverLight = {} /\ hoverEdge = {}
  BY <1>0 DEF MarksInv
<1>3. ASSUME over \in ServicesIn(links), NEW s \in ServicesIn(links) \ {over}
      PROVE  (s \in hoverLight) <=> (\E k \in hoverEdge : s \in {k.parent, k.child})
  <2>1. hoverEdge = IncidentEdges(links, over) /\ hoverLight = AdjacentNodes(links, over)
    BY <1>0, <1>3 DEF MarksInv
  <2> QED
    BY <2>1 DEF AdjacentNodes
<1>4. ASSUME over \in ServicesIn(links) PROVE hover = {over} /\ over \notin hoverLight
  <2>1. hover = {over} /\ hoverLight = AdjacentNodes(links, over)
    BY <1>0, <1>4 DEF MarksInv
  <2> QED
    BY <2>1 DEF AdjacentNodes
<1>5. dark = (over # Off)
  BY <1>1
<1>6. over \in ServicesIn(links) =>
        \A s \in ServicesIn(links) \ {over} :
          (s \in hoverLight) = (\E k \in hoverEdge : s \in {k.parent, k.child})
  <2> SUFFICES ASSUME over \in ServicesIn(links), NEW s \in ServicesIn(links) \ {over}
      PROVE  (s \in hoverLight) = (\E k \in hoverEdge : s \in {k.parent, k.child})
    OBVIOUS
  <2>1. (s \in hoverLight) <=> (\E k \in hoverEdge : s \in {k.parent, k.child})
    BY <1>3
  <2> DEFINE near == \E k \in hoverEdge : s \in {k.parent, k.child}
  <2>2. near \in BOOLEAN /\ (s \in hoverLight) \in BOOLEAN
    OBVIOUS
  <2> QED
    BY <2>1, <2>2
<1> QED
  BY <1>2, <1>4, <1>5, <1>6, Zenon DEF MarksFollowPointer

-----------------------------------------------------------------------------
(* arrowWidth.  The counts of the drawn links have a least and a greatest   *)
(* one; the scale runs from the one to the other.                           *)
LEMMA Scaled ==
  ASSUME NEW lo \in Int, NEW hi \in Int, lo < hi, NEW x \in lo .. hi, NEW y \in lo .. hi, x <= y
  PROVE  /\ 30 + ((x - lo) * 270) \div (hi - lo) \in 30 .. 300
         /\ 30 + ((x - lo) * 270) \div (hi - lo) <= 30 + ((y - lo) * 270) \div (hi - lo)
         /\ 30 + ((lo - lo) * 270) \div (hi - lo) = 30
         /\ 30 + ((hi - lo) * 270) \div (hi - lo) = 300
<1> DEFINE d == hi - lo
           u == x - lo
           v == y - lo
<1>1. d \in Nat /\ d > 0 /\ u \in 0 .. d /\ v \in 0 .. d /\ u <= v
  OBVIOUS
<1>2. lo - lo = 0
  OBVIOUS
<1> HIDE DEF d, u, v
<1>3. (u * 270) \div d \in 0 .. 270
  BY <1>1
<1>4. (u * 270) \div d <= (v * 270) \div d /\ (v * 270) \div d \in Int
  BY <1>1
<1>5. (0 * 270) \div d = 0 /\ (d * 270) \div d = 270
  BY <1>1
<1> QED
  BY <1>2, <1>3, <1>4, <1>5 DEF d, u, v

LEMMA CountsAreBounded ==
  ASSUME NEW ls \in LinkSets, Edges(ls) # {}
  PROVE  /\ CallCounts(ls) \subseteq DOMAIN Log /\ IsFiniteSet(CallCounts(ls))
         /\ MinCount(ls) \in CallCounts(ls) /\ \A n \in CallCounts(ls) : MinCount(ls) <= n
         /\ MaxCount(ls) \in CallCounts(ls) /\ \A n \in CallCounts(ls) : n <= MaxCount(ls)
<1> DEFINE E == Edges(ls)
           C == CallCounts(ls)
           f == [k \in E |-> k.callCount]
<1>1. IsFiniteSet(E) /\ E \subseteq ls
  BY DependencyAssumption, FS_Subset DEF Edges
<1>2. C \subseteq DOMAIN Log /\ C \subseteq Nat /\ C # {}
  BY DependencyAssumption, <1>1 DEF CallCounts
<1>3. f \in Surjection(E, C)
  BY DEF Surjection, CallCounts
<1>4. IsFiniteSet(C)
  BY <1>1, <1>3, FS_Surjection
<1>5. \E n \in C : \A m \in C : n <= m
  BY <1>2, LeastNumber
<1>6. \E n \in C : \A m \in C : m <= n
  BY <1>2, <1>4, GreatestNumber
<1> QED
  BY <1>2, <1>4, <1>5, <1>6 DEF MinCount, MaxCount

LEMMA WidthsFollow == WalkInv => WidthsFollowCalls
<1> SUFFICES ASSUME WalkInv, Edges(links) # {}, Cardinality(CallCounts(links)) > 1
    PROVE  /\ {30, 300} \subseteq {ArrowWidth(links, k) : k \in Edges(links)}
           /\ \A k, l \in Edges(links) :
                /\ ArrowWidth(links, k) \in 30 .. 300
                /\ k.callCount <= l.callCount => ArrowWidth(links, k) <= ArrowWidth(links, l)
  BY DEF WidthsFollowCalls
<1> DEFINE C == CallCounts(links)
           least == MinCount(links)
           most == MaxCount(links)
<1>1. links \in LinkSets
  BY DEF WalkInv, Edges
<1>2. /\ C \subseteq DOMAIN Log /\ IsFiniteSet(C)
      /\ least \in C /\ \A n \in C : least <= n
      /\ most \in C /\ \A n \in C : n <= most
  BY <1>1, CountsAreBounded
<1>3. C \subseteq Nat /\ \A n \in C : Log[n] \in Int
  BY <1>2, DependencyAssumption
<1>4. Cardinality(C) > 1
  OBVIOUS
<1>5. \A k \in Edges(links) : k.callCount \in C
  BY DEF CallCounts
<1>6. \A n \in C : \E k \in Edges(links) : k.callCount = n
  BY DEF CallCounts
<1>7. \A k \in Edges(links) :
        ArrowWidth(links, k) = 30 + ((Log[k.callCount] - Log[least]) * 270) \div (Log[most] - Log[least])
  BY DEF ArrowWidth
<1> HIDE DEF C, least, most
<1>8. least # most
  <2> SUFFICES ASSUME least = most PROVE FALSE
    OBVIOUS
  <2>1. C = {least}
    BY <1>2, <1>3
  <2>2. Cardinality({least}) = 1
    BY FS_Singleton
  <2> QED
    BY <1>4, <2>1, <2>2
<1>9. \A n, m \in C : n <= m => Log[n] <= Log[m]
  <2> SUFFICES ASSUME NEW n \in C, NEW m \in C, n <= m PROVE Log[n] <= Log[m]
    OBVIOUS
  <2>1. n < m \/ n = m
    BY <1>3
  <2>2. n < m => Log[n] < Log[m]
    BY <1>2, DependencyAssumption
  <2> QED
    BY <1>3, <2>1, <2>2
<1>10. Log[least] < Log[most]
  <2>1. least < most
    BY <1>2, <1>3, <1>8
  <2> QED
    BY <1>2, <2>1, DependencyAssumption
<1>11. \A n \in C : Log[n] \in Log[least] .. Log[most]
  BY <1>2, <1>3, <1>9
<1> DEFINE lo == Log[least]
           hi == Log[most]
           width(x) == 30 + ((x - lo) * 270) \div (hi - lo)
<1>12. lo \in Int /\ hi \in Int /\ lo < hi
  BY <1>2, <1>3, <1>10
<1>13. ASSUME NEW x \in lo .. hi, NEW y \in lo .. hi, x <= y
       PROVE  width(x) \in 30 .. 300 /\ width(x) <= width(y) /\ width(lo) = 30 /\ width(hi) = 300
  <2> HIDE DEF lo, hi
  <2> QED
    BY <1>12, <1>13, Scaled
<1>14. ASSUME NEW k \in Edges(links), NEW l \in Edges(links)
       PROVE  /\ ArrowWidth(links, k) \in 30 .. 300
              /\ k.callCount <= l.callCount => ArrowWidth(links, k) <= ArrowWidth(links, l)
  <2>1. /\ ArrowWidth(links, k) = width(Log[k.callCount])
        /\ ArrowWidth(links, l) = width(Log[l.callCount])
    BY <1>7
  <2>2. Log[k.callCount] \in lo .. hi /\ Log[l.callCount] \in lo .. hi
    BY <1>5, <1>11
  <2>3. k.callCount <= l.callCount => Log[k.callCount] <= Log[l.callCount]
    BY <1>5, <1>9
  <2> HIDE DEF width, lo, hi
  <2>4. Log[k.callCount] <= Log[k.callCount]
    BY <1>12, <2>2
  <2> QED
    BY <1>13, <2>1, <2>2, <2>3, <2>4
<1>15. \E k \in Edges(links) : ArrowWidth(links, k) = 30
  <2>1. PICK k \in Edges(links) : k.callCount = least
    BY <1>2, <1>6
  <2>2. ArrowWidth(links, k) = width(lo) /\ lo \in lo .. hi /\ lo <= lo
    BY <1>7, <1>12, <2>1
  <2> HIDE DEF width, lo, hi
  <2> QED
    BY <1>13, <2>2
<1>16. \E k \in Edges(links) : ArrowWidth(links, k) = 300
  <2>1. PICK k \in Edges(links) : k.callCount = most
    BY <1>2, <1>6
  <2>2. ArrowWidth(links, k) = width(hi) /\ lo \in lo .. hi /\ lo <= lo
    BY <1>7, <1>12, <2>1
  <2> HIDE DEF width, lo, hi
  <2> QED
    BY <1>13, <2>2
<1> QED
  BY <1>14, <1>15, <1>16

LEMMA DependencyStarts == DependencyInit => WalkInv /\ MarksInv
  BY DEF DependencyInit, WalkInv, MarksInv, NoModalShown

(* The index page shows the traces that have every service it filters by,   *)
(* counts them and names the filters in its tags, and offers the span names *)
(* of the selected service when the answers came in order; the dependency   *)
(* page shows the links of what was clicked, marks the neighbours of what   *)
(* is pointed at and draws links as wide as they are often called.          *)
THEOREM SearchPagesShowAnswers == IndexSpec /\ DependencySpec => []PagesShowAnswers
<1>1. IndexInit => NamesInv /\ ListInv
  BY IndexStarts
<1>2. NamesInv /\ ListInv /\ [IndexNext]_indexVars => (NamesInv /\ ListInv)'
  BY StepNames, StepList
<1>3. DependencyInit => WalkInv /\ MarksInv
  BY DependencyStarts
<1>4. WalkInv /\ MarksInv /\ [DependencyNext]_depVars => (WalkInv /\ MarksInv)'
  BY StepWalk, StepMarks
<1>5. NamesInv /\ ListInv /\ WalkInv /\ MarksInv => PagesShowAnswers
  BY NamesFollow, ModalsFollow, MarksFollow, WidthsFollow DEF PagesShowAnswers, ListInv
<1> QED
  BY <1>1, <1>2, <1>3, <1>4, <1>5, PTL DEF IndexSpec, DependencySpec

-----------------------------------------------------------------------------
(* What flight/lib lends. *)
TimesInv ==
  /\ wrapper \in {"debounce", "immediate", "throttle"}
  /\ clock \in Nat /\ clock > 0 /\ quiet \in Nat /\ later \in Nat /\ last \in Nat /\ run \in Nat
  /\ last <= clock /\ run <= clock /\ ~early

FlagsInv == {throttling, more, served, early} \subseteq BOOLEAN

(* debounce has one timer, which is due Wait after the last call; the       *)
(* function's last run is Wait after that call or, with the flag, no later  *)
(* than it.                                                                 *)
DebounceInv ==
  wrapper # "throttle" =>
    /\ later = 0 /\ (quiet # 0 => quiet = last + Wait /\ run <= last)
    /\ wrapper = "debounce" /\ quiet = 0 => served /\ (run > last => run >= last + Wait)
    /\ wrapper = "immediate" => run <= last /\ (quiet = 0 => run = 0 \/ clock >= run + Wait)

(* throttle's quiet timer is never due before its later one, and neither is *)
(* due within the interval after a run; a call that was put off has armed   *)
(* the later one.                                                           *)
ThrottleInv ==
  wrapper = "throttle" =>
    /\ later # 0 => quiet >= later /\ later >= run + Wait /\ later <= last + Wait
    /\ quiet # 0 => throttling /\ quiet >= run + Wait
    /\ quiet = 0 => ~throttling /\ later = 0 /\ ~more /\ (run = 0 \/ clock >= run + Wait)
    /\ ~served => later # 0 /\ more

TimersInv == TimesInv /\ FlagsInv /\ DebounceInv /\ ThrottleInv

LEMMA TimersStart == TimersInit => TimersInv
<1> SUFFICES ASSUME TimersInit PROVE TimersInv
  OBVIOUS
<1>1. TimesInv
  BY DEF TimersInit, TimesInv
<1>4. FlagsInv
  BY DEF TimersInit, FlagsInv
<1>2. DebounceInv
  BY DEF TimersInit, DebounceInv
<1>3. ThrottleInv
  BY DEF TimersInit, ThrottleInv
<1> QED
  BY <1>1, <1>2, <1>3, <1>4 DEF TimersInv

LEMMA StepTimers == TimersInv /\ [TimersNext]_timerVars => TimersInv'
<1> SUFFICES ASSUME TimersInv, [TimersNext]_timerVars PROVE TimersInv'
  OBVIOUS
<1> USE TimersAssumption
<1>7. FlagsInv'
  <2>1. FlagsInv
    BY DEF TimersInv
  <2>2. CASE CallDebounced
    BY <2>1, <2>2 DEF CallDebounced, Apply, Forget, FlagsInv
  <2>3. CASE CallThrottled
    BY <2>1, <2>3 DEF CallThrottled, Apply, Forget, FlagsInv
  <2>4. CASE QuietFires
    BY <2>1, <2>4 DEF QuietFires, Apply, NoApply, FlagsInv
  <2>5. CASE LaterFires
    BY <2>1, <2>5 DEF LaterFires, Apply, NoApply, FlagsInv
  <2>6. CASE Tick \/ UNCHANGED timerVars
    BY <2>1, <2>6 DEF Tick, timerVars, FlagsInv
  <2> QED
    BY <2>2, <2>3, <2>4, <2>5, <2>6 DEF TimersNext
<1>1. CASE CallDebounced
  <2>1. /\ wrapper' = wrapper /\ clock' = clock /\ last' = clock /\ later' = later
        /\ throttling' = throttling /\ more' = more /\ quiet' = clock + Wait /\ wrapper # "throttle"
        /\ IF wrapper = "immediate" /\ quiet = 0 THEN Apply ELSE Forget
    BY <1>1 DEF CallDebounced, Called
  <2>2. CASE wrapper = "immediate" /\ quiet = 0
    <3>1. TimesInv'
      BY <2>1, <2>2 DEF Apply, TimersInv, TimesInv, FlagsInv, DebounceInv, ThrottleInv
    <3>2. DebounceInv'
      BY <2>1, <2>2 DEF Apply, TimersInv, TimesInv, FlagsInv, DebounceInv, ThrottleInv
    <3>3. ThrottleInv'
      BY <2>1, <2>2 DEF Apply, TimersInv, TimesInv, FlagsInv, DebounceInv, ThrottleInv
    <3> QED
      BY <1>7, <3>1, <3>2, <3>3 DEF TimersInv
  <2>3. CASE ~(wrapper = "immediate" /\ quiet = 0)
    <3>1. TimesInv'
      BY <2>1, <2>3 DEF Forget, TimersInv, TimesInv, FlagsInv, DebounceInv, ThrottleInv
    <3>2. DebounceInv'
      BY <2>1, <2>3 DEF Forget, TimersInv, TimesInv, FlagsInv, DebounceInv, ThrottleInv
    <3>3. ThrottleInv'
      BY <2>1, <2>3 DEF Forget, TimersInv, TimesInv, FlagsInv, DebounceInv, ThrottleInv
    <3> QED
      BY <1>7, <3>1, <3>2, <3>3 DEF TimersInv
  <2> QED
    BY <2>2, <2>3
<1>2. CASE CallThrottled
  <2>1. /\ wrapper' = wrapper /\ clock' = clock /\ last' = clock /\ wrapper = "throttle"
        /\ later' = IF later = 0 THEN clock + Wait ELSE later
        /\ throttling' = TRUE /\ more' = (more \/ throttling) /\ quiet' = clock + Wait
        /\ IF throttling THEN Forget ELSE Apply
    BY <1>2 DEF CallThrottled, Called
  <2>2. CASE throttling
    <3>1. TimesInv'
      BY <2>1, <2>2 DEF Forget, TimersInv, TimesInv, FlagsInv, DebounceInv, ThrottleInv
    <3>2. DebounceInv'
      BY <2>1, <2>2 DEF Forget, TimersInv, TimesInv, FlagsInv, DebounceInv, ThrottleInv
    <3>3. ThrottleInv'
      BY <2>1, <2>2 DEF Forget, TimersInv, TimesInv, FlagsInv, DebounceInv, ThrottleInv
    <3> QED
      BY <1>7, <3>1, <3>2, <3>3 DEF TimersInv
  <2>3. CASE ~throttling
    <3>1. TimesInv'
      BY <2>1, <2>3 DEF Apply, TimersInv, TimesInv, FlagsInv, DebounceInv, ThrottleInv
    <3>2. DebounceInv'
      BY <2>1, <2>3 DEF Apply, TimersInv, TimesInv, FlagsInv, DebounceInv, ThrottleInv
    <3>3. ThrottleInv'
      BY <2>1, <2>3 DEF Apply, TimersInv, TimesInv, FlagsInv, DebounceInv, ThrottleInv
    <3> QED
      BY <1>7, <3>1, <3>2, <3>3 DEF TimersInv
  <2> QED
    BY <2>2, <2>3
<1>3. CASE QuietFires
  <2>1. /\ wrapper' = wrapper /\ clock' = clock /\ last' = last /\ later' = later /\ quiet' = 0
        /\ quiet # 0 /\ quiet <= clock /\ (later # 0 /\ later <= clock => quiet < later)
        /\ IF wrapper = "debounce" THEN Apply ELSE NoApply
        /\ IF wrapper = "throttle" THEN more' = FALSE /\ throttling' = FALSE ELSE UNCHANGED <<more, throttling>>
    BY <1>3 DEF QuietFires, QuietFirst, Due
  <2>2. CASE wrapper = "debounce"
    <3>1. TimesInv'
      BY <2>1, <2>2 DEF Apply, TimersInv, TimesInv, FlagsInv, DebounceInv, ThrottleInv
    <3>2. DebounceInv'
      BY <2>1, <2>2 DEF Apply, TimersInv, TimesInv, FlagsInv, DebounceInv, ThrottleInv
    <3>3. ThrottleInv'
      BY <2>1, <2>2 DEF Apply, TimersInv, TimesInv, FlagsInv, DebounceInv, ThrottleInv
    <3> QED
      BY <1>7, <3>1, <3>2, <3>3 DEF TimersInv
  <2>3. CASE wrapper # "debounce"
    <3>1. TimesInv'
      BY <2>1, <2>3 DEF NoApply, TimersInv, TimesInv, FlagsInv, DebounceInv, ThrottleInv
    <3>2. DebounceInv'
      BY <2>1, <2>3 DEF NoApply, TimersInv, TimesInv, FlagsInv, DebounceInv, ThrottleInv
    <3>3. ThrottleInv'
      BY <2>1, <2>3 DEF NoApply, TimersInv, TimesInv, FlagsInv, DebounceInv, ThrottleInv
    <3> QED
      BY <1>7, <3>1, <3>2, <3>3 DEF TimersInv
  <2> QED
    BY <2>2, <2>3
<1>4. CASE LaterFires
  <2>1. /\ wrapper' = wrapper /\ clock' = clock /\ last' = last /\ later' = 0 /\ quiet' = clock + Wait
        /\ later # 0 /\ later <= clock /\ throttling' = throttling /\ more' = more
        /\ IF more THEN Apply ELSE NoApply
    BY <1>4 DEF LaterFires, Due
  <2>2. CASE more
    <3>1. TimesInv'
      BY <2>1, <2>2 DEF Apply, TimersInv, TimesInv, FlagsInv, DebounceInv, ThrottleInv
    <3>2. DebounceInv'
      BY <2>1, <2>2 DEF Apply, TimersInv, TimesInv, FlagsInv, DebounceInv, ThrottleInv
    <3>3. ThrottleInv'
      BY <2>1, <2>2 DEF Apply, TimersInv, TimesInv, FlagsInv, DebounceInv, ThrottleInv
    <3> QED
      BY <1>7, <3>1, <3>2, <3>3 DEF TimersInv
  <2>3. CASE ~more
    <3>1. TimesInv'
      BY <2>1, <2>3 DEF NoApply, TimersInv, TimesInv, FlagsInv, DebounceInv, ThrottleInv
    <3>2. DebounceInv'
      BY <2>1, <2>3 DEF NoApply, TimersInv, TimesInv, FlagsInv, DebounceInv, ThrottleInv
    <3>3. ThrottleInv'
      BY <2>1, <2>3 DEF NoApply, TimersInv, TimesInv, FlagsInv, DebounceInv, ThrottleInv
    <3> QED
      BY <1>7, <3>1, <3>2, <3>3 DEF TimersInv
  <2> QED
    BY <2>2, <2>3
<1>5. CASE Tick
  <2>1. TimesInv'
    BY <1>5 DEF Tick, TimersInv, TimesInv, FlagsInv, DebounceInv, ThrottleInv
  <2>2. DebounceInv'
    BY <1>5 DEF Tick, TimersInv, TimesInv, FlagsInv, DebounceInv, ThrottleInv
  <2>3. ThrottleInv'
    BY <1>5 DEF Tick, TimersInv, TimesInv, FlagsInv, DebounceInv, ThrottleInv
  <2> QED
    BY <1>7, <2>1, <2>2, <2>3 DEF TimersInv
<1>6. CASE UNCHANGED timerVars
  <2>1. TimesInv'
    BY <1>6 DEF timerVars, TimersInv, TimesInv, FlagsInv, DebounceInv, ThrottleInv
  <2>2. DebounceInv'
    BY <1>6 DEF timerVars, TimersInv, TimesInv, FlagsInv, DebounceInv, ThrottleInv
  <2>3. ThrottleInv'
    BY <1>6 DEF timerVars, TimersInv, TimesInv, FlagsInv, DebounceInv, ThrottleInv
  <2> QED
    BY <1>7, <2>1, <2>2, <2>3 DEF TimersInv
<1> QED
  BY <1>1, <1>2, <1>3, <1>4, <1>5, <1>6 DEF TimersNext

LEMMA TimersRun == TimersInv => RunsInTime
  BY TimersAssumption DEF RunsInTime, TimersInv, TimesInv, FlagsInv, DebounceInv, ThrottleInv

-----------------------------------------------------------------------------
(* The log's filters are sets of patterns or All, and what is stored is     *)
(* what Written makes of them.                                              *)
Texts == {<<"text of", p>> : p \in Regexes}
Patterns == (UNION PatternSets) \cup Texts

LogInv ==
  /\ filter.names = All \/ filter.names \in SUBSET Patterns
  /\ filter.actions = All \/ filter.actions \in SUBSET Actions
  /\ hasStorage => stored = [names |-> Written(filter.names), actions |-> Written(filter.actions)]
  /\ ~hasStorage => stored = NothingLogged

LEMMA WrittenOnce ==
  ASSUME NEW list, list = All \/ list \in SUBSET (Patterns \cup Actions)
  PROVE  /\ Written(Written(list)) = Written(list)
         /\ list \in SUBSET Patterns => Written(list) = All \/ Written(list) \in SUBSET Patterns
         /\ list \in SUBSET Actions => Written(list) = list
<1> USE LogAssumption
<1>1. CASE list \in {All, {All}}
  <2>1. Written(list) = All /\ Written(All) = All
    BY <1>1 DEF Written
  <2>2. list \in SUBSET Actions => FALSE
    BY <1>1
  <2> QED
    BY <2>1, <2>2
<1>2. CASE list \notin {All, {All}}
  <2> DEFINE W == {AsText(p) : p \in list}
  <2>1. Written(list) = W /\ list \in SUBSET (Patterns \cup Actions)
    BY <1>2 DEF Written
  <2>2. \A p \in Texts : p \notin Regexes /\ p # All
    BY DEF Texts
  <2>3. \A p : AsText(p) \in Texts \/ (AsText(p) = p /\ p \notin Regexes)
    BY DEF AsText, Texts
  <2>4. \A p : AsText(AsText(p)) = AsText(p)
    BY <2>2, <2>3 DEF AsText
  <2>5. W \in SUBSET (Patterns \cup Actions)
    <3>1. ASSUME NEW p \in list PROVE AsText(p) \in Patterns \cup Actions
      <4>1. p \in Patterns \cup Actions
        BY <2>1
      <4>2. AsText(p) \in Texts \/ AsText(p) = p
        BY <2>3
      <4>3. Texts \subseteq Patterns
        BY DEF Patterns
      <4> QED
        BY <4>1, <4>2, <4>3
    <3> QED
      BY <3>1
  <2>6. W # All
    BY <2>5 DEF Patterns, Texts
  <2>7. W # {All}
    <3> SUFFICES ASSUME W = {All} PROVE FALSE
      OBVIOUS
    <3>1. \A p \in list : AsText(p) = All
      OBVIOUS
    <3>2. \A p \in list : p = All
      BY <2>2, <2>3, <3>1
    <3>3. list # {}
      OBVIOUS
    <3> QED
      BY <1>2, <3>2, <3>3
  <2>8. {AsText(p) : p \in W} = W
    <3>1. \A p \in W : AsText(p) = p
      BY <2>4
    <3> QED
      BY <3>1
  <2>9. Written(W) = W
    BY <2>6, <2>7, <2>8 DEF Written
  <2>10. list \in SUBSET Patterns => W \in SUBSET Patterns
    <3>1. ASSUME NEW p \in Patterns PROVE AsText(p) \in Patterns
      <4>2. AsText(p) \in Texts \/ AsText(p) = p
        BY <2>3
      <4>3. Texts \subseteq Patterns
        BY DEF Patterns
      <4> QED
        BY <4>2, <4>3
    <3> QED
      BY <3>1
  <2>11. list \in SUBSET Actions => W = list
    BY DEF AsText
  <2> QED
    BY <2>1, <2>9, <2>10, <2>11
<1> QED
  BY <1>1, <1>2

LEMMA LogStarts == LogInit => LogInv
<1> SUFFICES ASSUME LogInit PROVE LogInv
  OBVIOUS
<1>1. Written({}) = {}
  BY LogAssumption DEF Written
<1>2. filter = [names |-> {}, actions |-> {}] /\ stored = filter
  BY DEF LogInit, NothingLogged
<1> QED
  BY <1>1, <1>2 DEF LogInv, NothingLogged

LEMMA SaveKeeps ==
  ASSUME LogInv, NEW ns, NEW as, ns = All \/ ns \in SUBSET Patterns, as = All \/ as \in SUBSET Actions,
         Save([names |-> ns, actions |-> as])
  PROVE  LogInv'
<1>1. /\ filter' = [names |-> ns, actions |-> as] /\ hasStorage' = hasStorage
      /\ stored' = IF hasStorage THEN [names |-> Written(ns), actions |-> Written(as)] ELSE stored
  BY DEF Save
<1>2. filter'.names = ns /\ filter'.actions = as
  BY <1>1
<1> QED
  BY <1>1, <1>2 DEF LogInv, NothingLogged

LEMMA StepLog == LogInv /\ [LogNext]_logVars => LogInv'
<1> SUFFICES ASSUME LogInv, [LogNext]_logVars PROVE LogInv'
  OBVIOUS
<1>0. /\ filter.names = All \/ filter.names \in SUBSET Patterns
      /\ filter.actions = All \/ filter.actions \in SUBSET Actions
  BY DEF LogInv
<1>00. \A list : NotEmpty(list) = All \/ NotEmpty(list) = list
  BY DEF NotEmpty
<1>1. ASSUME NEW as \in SUBSET Actions, LogByAction(as) PROVE LogInv'
  <2>1. Save([names |-> NotEmpty(filter.names), actions |-> NotEmpty(as)])
    BY <1>1 DEF LogByAction
  <2>2. NotEmpty(filter.names) = All \/ NotEmpty(filter.names) \in SUBSET Patterns
    BY <1>0, <1>00
  <2>3. NotEmpty(as) = All \/ NotEmpty(as) \in SUBSET Actions
    BY <1>00
  <2> QED
    BY <2>1, <2>2, <2>3, SaveKeeps
<1>2. ASSUME NEW ns \in PatternSets, LogByName(ns) PROVE LogInv'
  <2>1. Save([names |-> NotEmpty(ns), actions |-> NotEmpty(filter.actions)])
    BY <1>2 DEF LogByName
  <2>2. NotEmpty(filter.actions) = All \/ NotEmpty(filter.actions) \in SUBSET Actions
    BY <1>0, <1>00
  <2>3. ns \in SUBSET Patterns
    BY DEF Patterns
  <2>4. NotEmpty(ns) = All \/ NotEmpty(ns) \in SUBSET Patterns
    BY <1>00, <2>3
  <2> QED
    BY <2>1, <2>2, <2>4, SaveKeeps
<1>3. CASE LogAll
  BY <1>3, SaveKeeps DEF LogAll, Everything
<1>4. CASE LogNone
  BY <1>4, SaveKeeps DEF LogNone, NothingLogged
<1>5. CASE Reload
  <2>1. CASE hasStorage
    <3>1. /\ filter' = [names |-> Written(filter.names), actions |-> Written(filter.actions)]
          /\ stored' = filter' /\ hasStorage'
      BY <1>5, <2>1 DEF Reload, Retrieve, LogInv
    <3>2. filter'.names = Written(filter.names) /\ filter'.actions = Written(filter.actions)
      BY <3>1
    <3>3. /\ Written(Written(filter.names)) = Written(filter.names)
          /\ Written(filter.names) = All \/ Written(filter.names) \in SUBSET Patterns
      <4>1. Written(All) = All
        BY DEF Written
      <4>2. CASE filter.names \in SUBSET Patterns
        BY <4>2, WrittenOnce
      <4> QED
        BY <1>0, <4>1, <4>2
    <3>4. Written(filter.actions) = filter.actions
      <4>1. Written(All) = All
        BY DEF Written
      <4>2. CASE filter.actions \in SUBSET Actions
        BY <4>2, WrittenOnce
      <4> QED
        BY <1>0, <4>1, <4>2
    <3> QED
      BY <1>0, <3>1, <3>2, <3>3, <3>4 DEF LogInv
  <2>2. CASE ~hasStorage
    <3>1. /\ filter' = NothingLogged /\ stored' = NothingLogged /\ ~hasStorage'
      BY <1>5, <2>2 DEF Reload, Retrieve, LogInv
    <3> QED
      BY <3>1 DEF LogInv, NothingLogged
  <2> QED
    BY <2>1, <2>2
<1>6. CASE UNCHANGED logVars
  BY <1>6 DEF logVars, LogInv
<1> QED
  BY <1>1, <1>2, <1>3, <1>4, <1>5, <1>6 DEF LogNext

LEMMA LogSurvives == LogInv => FiltersSurviveReload
<1> SUFFICES ASSUME LogInv, hasStorage, NEW action \in Actions, NEW name \in Names
    PROVE  /\ Loggable(Retrieve, action, name) => Loggable(filter, action, name)
           /\ Loggable(filter, action, name) =>
                \/ Loggable(Retrieve, action, name)
                \/ \E p \in filter.names \cap Regexes : name \in Stands[p]
  BY DEF FiltersSurviveReload
<1> DEFINE ns == filter.names
           W == {AsText(p) : p \in ns}
<1>1. Retrieve.names = Written(ns) /\ Retrieve.actions = Written(filter.actions)
  BY DEF Retrieve, LogInv
<1>2. ActionLoggable(Retrieve, action) <=> ActionLoggable(filter, action)
  <2>1. Written(filter.actions) = filter.actions
    <3>1. Written(All) = All
      BY DEF Written
    <3>2. CASE filter.actions \in SUBSET Actions
      BY <3>2, WrittenOnce
    <3> QED
      BY <3>1, <3>2 DEF LogInv
  <2> QED
    BY <1>1, <2>1 DEF ActionLoggable
<1>3. CASE ns \in {All, {All}}
  <2>1. Written(ns) = All
    BY <1>3 DEF Written
  <2> QED
    BY <1>1, <1>2, <1>3, <2>1 DEF Loggable, NameLoggable
<1>4. CASE ns \notin {All, {All}}
  <2>1. ns \in SUBSET Patterns /\ Written(ns) = W
    BY <1>4 DEF LogInv, Written
  <2>2. W # All
    <3>1. Texts \subseteq Patterns /\ \A p : AsText(p) \in Texts \/ AsText(p) = p
      BY DEF Patterns, AsText, Texts
    <3>2. \A p \in ns : AsText(p) \in Patterns
      BY <2>1, <3>1
    <3>3. W \in SUBSET (Patterns \cup Actions)
      BY <3>2
    <3> QED
      BY <3>3, LogAssumption DEF Patterns, Texts
  <2>3. \A p \in Regexes : AsText(p) \notin DOMAIN Stands
    BY LogAssumption DEF AsText
  <2>4. \A p : p \notin Regexes => AsText(p) = p
    BY DEF AsText
  <2>5. W \cap DOMAIN Stands \subseteq ns
    BY <2>3, <2>4
  <2>6. \A p \in ns : p \notin Regexes => p \in W
    BY <2>4
  <2>11. W # {All}
    <3> SUFFICES ASSUME W = {All} PROVE FALSE
      OBVIOUS
    <3>1. \A p \in ns : AsText(p) = All
      OBVIOUS
    <3>2. \A p \in ns : p = All
      BY <3>1, LogAssumption DEF AsText
    <3>3. ns # {}
      OBVIOUS
    <3> QED
      BY <1>4, <3>2, <3>3
  <2> HIDE DEF W
  <2>7. NameLoggable(Retrieve, name) <=> \E p \in W \cap DOMAIN Stands : name \in Stands[p]
    BY <1>1, <2>1, <2>2, <2>11 DEF NameLoggable
  <2>8. NameLoggable(filter, name) <=> \E p \in ns \cap DOMAIN Stands : name \in Stands[p]
    BY <1>4 DEF NameLoggable
  <2>9. NameLoggable(Retrieve, name) => NameLoggable(filter, name)
    BY <2>5, <2>7, <2>8
  <2>10. NameLoggable(filter, name) =>
           NameLoggable(Retrieve, name) \/ \E p \in ns \cap Regexes : name \in Stands[p]
    BY <2>6, <2>7, <2>8
  <2> QED
    BY <1>2, <2>9, <2>10 DEF Loggable
<1> QED
  BY <1>3, <1>4

(* utils.js, debug.js: delayed functions run when they should, and the log  *)
(* keeps its filters, for every interval and all sets of patterns.          *)
THEOREM FlightUtilitiesHold == TimersSpec /\ LogSpec => []FlightHolds
<1>1. TimersInv /\ LogInv => FlightHolds
  BY TimersRun, LogSurvives DEF FlightHolds
<1> QED
  BY <1>1, TimersStart, StepTimers, LogStarts, StepLog, PTL DEF TimersSpec, LogSpec
=============================================================================
