----------------------------- MODULE MCWebPages -----------------------------
(* The scripts of a browser window: the pages' own, which main.js attaches  *)
(* to the elements that a page has, and the libraries they are built with.  *)
(* Which part moves is chosen in the initial state; the others stay as they *)
(* start.                                                                   *)
EXTENDS TracePage, SearchPages, FlightComponents, FlightUtilities, DatePicker,
        ModuleLoader, ModuleNames, TLC

VARIABLES
  part,      \* the part that moves
  sample     \* a date, when that is the calendar

(* A root, its child, and a grandchild that is the root's service again. *)
CONSTANTS root, child, leaf, a, b
TheSpans    == {root, child, leaf}
TheParent   == root :> NoSpan @@ child :> root @@ leaf :> child
TheNames    == root :> {a} @@ child :> {b} @@ leaf :> {a}
TheStart    == root :> 0 @@ child :> 1 @@ leaf :> 2
TheEnd      == root :> 4 @@ child :> 3 @@ leaf :> 4
WholeTrace  == <<0, 4>>
SomeRanges  == {<<0, 2>>, <<1, 3>>, <<3, 4>>}

(* Three traces found for service q; two of the other services get the same *)
(* id for their tags.                                                       *)
CONSTANTS t1, t2, t3, q, s1, s2, s3
TheFound  == {t1, t2, t3}
TheLabels == t1 :> {q, s1, s3} @@ t2 :> {q, s1, s2} @@ t3 :> {q, s2}
TheIds    == q :> 0 @@ s1 :> 1 @@ s2 :> 1 @@ s3 :> 2
TheKeys   == "duration-desc" :> (t1 :> 1 @@ t2 :> 2 @@ t3 :> 2)
               @@ "timestamp-asc" :> (t1 :> 3 @@ t2 :> 2 @@ t3 :> 1)

(* Services that call each other both ways, one of them itself as well. *)
CONSTANTS front, middle, storage
Link(parent, kid, n) == [parent |-> parent, child |-> kid, callCount |-> n]
TheLinkSets ==
  {{Link(front, front, 1)},
   {Link(front, middle, 2), Link(middle, front, 2)},
   {Link(front, middle, 1), Link(middle, storage, 3), Link(storage, storage, 2), Link(front, storage, 2)},
   {Link(front, middle, 3), Link(middle, front, 1), Link(middle, storage, 2)}}
Logs == 1 :> 0 @@ 2 :> 7 @@ 3 :> 11

(* Elements inside each other, of components that listen: one to its own    *)
(* element, with a handler that takes it down, the other to the document,   *)
(* with one that attaches the first.                                        *)
CONSTANTS A, B, doc, el, click, go, leave, swap
TheBubbles == doc :> <<doc>> @@ el :> <<el, doc>>
TheListens == A :> << <<OwnNode, click, leave>> >> @@ B :> << <<doc, click, swap>> >>
TheEffects == go :> <<"none", A>> @@ leave :> <<"teardown", A>> @@ swap :> <<"attachTo", A>>

CONSTANTS submit, wild, regex, bind, trigger
TheStands == click :> {click} @@ submit :> {submit} @@ wild :> {click, submit}
               @@ regex :> {click} @@ All :> {}
TheFilters == {{}, {click}, {wild}, {regex}, {regex, submit}, {All}, {All, click}}

(* Three pickers: the pages' own kind, one of two dates within a month that *)
(* begins late, and one of months.                                          *)
Picker(from, to, today, close, min, multi) ==
  [from |-> from, to |-> to, todayBtn |-> today, autoclose |-> close, minView |-> min,
   startView |-> min, multidate |-> multi]
Ever  == <<9999, 0, 1>>
Never == <<0, 0, 1>>
TheOptions == {Picker(Never, Ever, "none", FALSE, 0, 1),
               Picker(<<2015, 0, 2>>, <<2016, 0, 30>>, "linked", TRUE, 0, 2),
               Picker(Never, <<2016, 0, 30>>, "view", FALSE, 1, 1)}
TheDates == {<<2015, 0, 31>>, <<2015, 1, 1>>, <<2015, 1, 28>>, <<2016, 0, 31>>}
TheTyped == {<<>>, Junk, << <<2015, 0, 31>> >>}
TheToday == <<2016, 0, 31>>

(* Three dates of four days, the last of which begins a day later. *)
TheLimits == << 1..4, 1..4, 2..4 >>

(* The ends of the months of a leap year, of another and of 1900. *)
Samples == {<<year, month, day>> \in {1900, 2015, 2016} \X (0 .. 11) \X {1, 28, 29, 30, 31} :
              Exists(year, month, day)}

(* A calendar counts and shows every month's days, moves by days, months    *)
(* and years as people do, and reads back what it wrote.                    *)
CalendarRight ==
  part = "calendar" =>
    /\ MovesRight(sample) /\ CellsRight(sample)
    /\ \A today \in {<<2016, 1, 29>>, <<2015, 0, 31>>, <<2015, 5, 15>>} :
         ReadsRight(sample, today, <<2015, 2, 10>>, <<2016, 1, 20>>)
    /\ ParseSteps(sample, << <<1, "m">>, <<-1, "d">> >>) = AddDays(MoveMonth(sample, 1), -1)

(* The application's own modules in small; two cycles, one with exports;    *)
(* scripts and factories that fail, with another path or without; scripts   *)
(* that define several modules, and one twice.                              *)
Script(deps) == << [name |-> Anonymous, deps |-> deps] >>
Named(id, deps) == << [name |-> id, deps |-> deps] >>
World(defs, called, shim, spare, broken, throws) ==
  [defines |-> defs, calls |-> called, shim |-> shim, spare |-> spare, broken |-> broken,
   throws |-> throws]
Application ==
  World("lib" :> Script(<<>>) @@ "p" :> Script(<<"u">>) @@ "q" :> Script(<<"u", "dagre">>)
          @@ "u" :> Script(<<>>) @@ "d3" :> Script(<<>>),
        "script main" :> <<Request("boot", <<"lib">>, FALSE)>>
          @@ "boot" :> <<Request("start", <<"p", "q">>, FALSE)>>,
        "dagre" :> <<"d3">>, <<>>, {}, {})
Cyclic(extra, heard) ==
  World("a" :> Script(<<"b">>) @@ "b" :> Script(extra \o <<"k">>) @@ "k" :> Script(<<"a">>),
        "script main" :> <<Request("go", <<"a">>, heard)>> @@ "go" :> <<Request("then", <<"k">>, TRUE)>>,
        <<>>, <<>>, {}, {})
Failing ==
  {World("a" :> Script(<<"b">>) @@ "b" :> Script(<<>>),
         "script main" :> <<Request("go", <<"a">>, heard), Request("then", <<"b">>, ~heard)>>,
         <<>>, spare, broken, throws) :
     heard \in BOOLEAN, spare \in {<<>>, "b" :> 1}, broken \in {{}, {<<"b", 1>>}}, throws \in {{}, {"b"}}}
Twice ==
  World("a" :> Named("b", <<>>) \o Script(<<"b", "k">>) @@ "b" :> Script(<<>>)
          @@ "k" :> Named("k", <<"b">>) \o Script(<<"a">>) \o Named("a", <<>>),
        "script main" :> <<Request("go", <<"a">>, FALSE), Request("then", <<"b", "a">>, FALSE)>>,
        <<>>, <<>>, {}, {})
TheWorlds ==
  {Application, Twice} \cup {Cyclic(extra, heard) : extra \in {<<>>, <<"exports">>}, heard \in BOOLEAN}
    \cup Failing

(* main.js's configuration, a map for one module and one for all, and       *)
(* packages and bundles; ids that are relative, of a plugin, and urls.      *)
Unconfigured == [baseUrl |-> <<>>, paths |-> <<>>, map |-> <<>>, packages |-> <<>>,
                 bundles |-> <<>>, shim |-> <<>>]
TheConfigs ==
  {[Unconfigured EXCEPT
      !.baseUrl = <<"", "app", "libs">>,
      !.paths = (<<"page">> :> <<"..", "js", "page">>) @@ (<<"dagre">> :> <<"dagre", "js", "dagre">>),
      !.shim = (<<"dagre">> :> << <<"d3">> >>)],
   [Unconfigured EXCEPT
      !.map = (<<"page">> :> (<<"flight">> :> <<"flight", "next">>))
                @@ (Star :> (<<"dagre">> :> <<"d3">>))],
   [Unconfigured EXCEPT
      !.packages = <<"flight">> :> [main |-> <<".", "compose">>, location |-> <<"lib">>],
      !.bundles = <<"all">> :> {<<"page", "trace">>, <<"page", "util">>}]}
PlainId(id) == [plugin |-> <<>>, name |-> id]
TheAsked ==
  {PlainId(id) : id \in {<<"page", "trace">>, <<"flight">>, <<"flight", "compose">>, <<"dagre">>,
                        <<".", "util">>, <<"..", "flight", ".", "compose">>,
                        <<"..", "..", "js", "page">>, <<"", "cdn", "d3.js">>}}
    \cup {[plugin |-> <<"flight">>, name |-> <<".", "view">>]}

----------------------------------------------------------------------------
(* bootstrap-datepicker.js: the picker, the field and the calendar below    *)
(* them agree, and the dates of a range are in order.                       *)
DatesAgree ==
  /\ part = "picker" => PickerSound
  /\ part = "range" => RangeInOrder
  /\ CalendarRight

(* What a page consists of: the listeners of flight's components come and   *)
(* go with them, names lead to the scripts they mean, and modules run once  *)
(* and after what they need.                                                *)
PagesAreAssembled ==
  /\ part = "components" => ComponentsSound
  /\ part = "loader" => LoadsInOrder
  /\ part = "names" => NamesMeanScripts

(* require.js: whoever asks for modules is called or told of an error. *)
LoaderAnswers == part = "loader" => NobodyWaitsSilently

----------------------------------------------------------------------------
pageVars  == <<traceVars, indexVars, depVars>>
shelfVars == <<flightVars, timerVars, logVars, dateVars, rangeVars, loaderVars, namingVars, part, sample>>
allVars   == <<pageVars, shelfVars>>

WebInit ==
  /\ part \in {"index", "trace", "dependency", "components", "timers", "log", "picker", "range",
               "calendar", "loader", "names"}
  /\ TraceInit /\ (part # "trace" => url = NoService)
  /\ IndexInit
  /\ part # "index" => /\ cookie = Undefined /\ selected = Nothing
                       /\ order = CHOOSE list \in SortedBy(SortKey[sorted]) : TRUE
  /\ DependencyInit /\ FlightInit
  /\ TimersInit /\ (part # "timers" => wrapper = "debounce")
  /\ LogInit /\ (part # "log" => hasStorage)
  /\ DateInit /\ (part # "picker" => o = Picker(Never, Ever, "none", FALSE, 0, 1) /\ timestamp = NoDate)
  /\ RangeInit /\ (part # "range" => \A i \in Pickers : picked[i] = Invalid)
  /\ LoaderInit /\ (part # "loader" => world = Application)
  /\ NameInit
  /\ sample \in (IF part = "calendar" THEN Samples ELSE {TheToday})

OnTrace      == part = "trace" /\ TraceNext /\ UNCHANGED <<indexVars, depVars, shelfVars>>
OnIndex      == part = "index" /\ IndexNext /\ UNCHANGED <<traceVars, depVars, shelfVars>>
OnDependency == part = "dependency" /\ DependencyNext /\ UNCHANGED <<traceVars, indexVars, shelfVars>>
OnComponents ==
  /\ part = "components" /\ FlightNext
  /\ UNCHANGED <<pageVars, timerVars, logVars, dateVars, rangeVars, loaderVars, namingVars, part, sample>>
OnTimers ==
  /\ part = "timers" /\ TimersNext
  /\ UNCHANGED <<pageVars, flightVars, logVars, dateVars, rangeVars, loaderVars, namingVars, part, sample>>
OnLog ==
  /\ part = "log" /\ LogNext
  /\ UNCHANGED <<pageVars, flightVars, timerVars, dateVars, rangeVars, loaderVars, namingVars, part, sample>>
OnPicker ==
  /\ part = "picker" /\ DateNext
  /\ UNCHANGED <<pageVars, flightVars, timerVars, logVars, rangeVars, loaderVars, namingVars, part, sample>>
OnRange ==
  /\ part = "range" /\ RangeNext
  /\ UNCHANGED <<pageVars, flightVars, timerVars, logVars, dateVars, loaderVars, namingVars, part, sample>>
OnLoader ==
  /\ part = "loader" /\ LoaderNext
  /\ UNCHANGED <<pageVars, flightVars, timerVars, logVars, dateVars, rangeVars, namingVars, part, sample>>
OnNames ==
  /\ part = "names" /\ NameNext
  /\ UNCHANGED <<pageVars, flightVars, timerVars, logVars, dateVars, rangeVars, loaderVars, part, sample>>

(* The browser's timers fire, and scripts load or fail. *)
SpinnersFire == part = "trace" /\ TimerFires /\ UNCHANGED <<indexVars, depVars, shelfVars>>
Waiters      == <<pageVars, flightVars, timerVars, logVars, dateVars, rangeVars, namingVars, part, sample>>
TicksCome    == part = "loader" /\ LoaderTick /\ UNCHANGED Waiters
WatchesFire  == part = "loader" /\ WatchFires /\ UNCHANGED Waiters
ScriptsEnd   == /\ part = "loader" /\ \E script \in c.net : ScriptLoads(script) \/ ScriptFails(script)
                /\ UNCHANGED Waiters

WebNext ==
  \/ OnTrace \/ OnIndex \/ OnDependency
  \/ OnComponents \/ OnTimers \/ OnLog \/ OnPicker \/ OnRange \/ OnLoader \/ OnNames

WebSpec ==
  /\ WebInit /\ [][WebNext]_allVars
  /\ WF_allVars(SpinnersFire)
  /\ WF_allVars(TicksCome) /\ WF_allVars(WatchesFire) /\ WF_allVars(ScriptsEnd)
=============================================================================
