---------------------------- MODULE FlightUtilities ----------------------------
(***************************************************************************)
(* Two parts of flight that no component is: utils.debounce and            *)
(* utils.throttle (libs/flight/lib/utils.js), a function called again and  *)
(* again, and the browser's timers, which fire no earlier than asked, and  *)
(* after those that were due before; and the log of its debug mode         *)
(* (libs/flight/lib/debug.js and logger.js): which of the components'      *)
(* calls are logged, by two filters, kept in the browser's local storage   *)
(* as text and read back when a page is loaded.                            *)
(***************************************************************************)
EXTENDS Integers, FiniteSets

CONSTANTS
  Wait,          \* the interval
  MaxLate,       \* bound: how late a timer may fire
  MaxTime        \* bound of the clock

ASSUME TimersAssumption == Wait \in Nat \ {0} /\ MaxLate \in Nat /\ MaxTime \in Nat

VARIABLES
  wrapper,       \* "debounce", "immediate" (debounce with that flag) or "throttle"
  clock,
  quiet,         \* debounce's timeout, which throttle uses too: 0, or when it is due
  later,         \* throttle's timeout
  throttling, more,
  last,          \* history: when the wrapper was called last
  served,        \* history: is the function's last run for that call?
  run,           \* history: when the function ran last
  early          \* history: it ran twice within the interval

timerVars == <<wrapper, clock, quiet, later, throttling, more, last, served, run, early>>

Due(t) == t # 0 /\ t <= clock
(* later() of a call is armed before its debounce, and fires first when both are due together. *)
QuietFirst == Due(quiet) /\ (~Due(later) \/ quiet < later)

Apply == served' = TRUE /\ run' = clock /\ early' = (early \/ (run # 0 /\ clock < run + Wait))
NoApply == UNCHANGED <<served, run, early>>

Called == last' = clock /\ UNCHANGED <<wrapper, clock>>
Forget == served' = FALSE /\ UNCHANGED <<run, early>>

CallDebounced ==
  /\ wrapper # "throttle"
  /\ quiet' = clock + Wait
  /\ IF wrapper = "immediate" /\ quiet = 0 THEN Apply ELSE Forget
  /\ Called /\ UNCHANGED <<later, throttling, more>>

CallThrottled ==
  /\ wrapper = "throttle"
  /\ later' = IF later = 0 THEN clock + Wait ELSE later
  /\ throttling' = TRUE /\ more' = (more \/ throttling)
  /\ IF throttling THEN Forget ELSE Apply
  /\ quiet' = clock + Wait
  /\ Called

QuietFires ==
  /\ QuietFirst
  /\ quiet' = 0
  /\ IF wrapper = "debounce" THEN Apply ELSE NoApply
  /\ IF wrapper = "throttle" THEN more' = FALSE /\ throttling' = FALSE ELSE UNCHANGED <<more, throttling>>
  /\ UNCHANGED <<wrapper, clock, later, last>>

\* Mutant: the run that was put off starts no interval of its own.
LaterFiresOnly ==
  /\ Due(later) /\ ~QuietFirst
  /\ later' = 0
  /\ IF more THEN Apply ELSE NoApply
  /\ UNCHANGED <<wrapper, clock, quiet, throttling, more, last>>

LaterFires ==
  /\ Due(later) /\ ~QuietFirst
  /\ later' = 0
  /\ IF more THEN Apply ELSE NoApply
  /\ quiet' = clock + Wait
  /\ UNCHANGED <<wrapper, clock, throttling, more, last>>

Tick ==
  /\ clock < MaxTime
  /\ \A t \in {quiet, later} : t # 0 => clock < t + MaxLate
  /\ clock' = clock + 1
  /\ UNCHANGED <<wrapper, quiet, later, throttling, more, last, served, run, early>>

TimersInit ==
  /\ wrapper \in {"debounce", "immediate", "throttle"}
  /\ clock = 1 /\ quiet = 0 /\ later = 0 /\ throttling = FALSE /\ more = FALSE
  /\ last = 0 /\ served = TRUE /\ run = 0 /\ early = FALSE

TimersNext == CallDebounced \/ CallThrottled \/ QuietFires \/ LaterFires \/ Tick
TimersSpec == TimersInit /\ [][TimersNext]_timerVars

----------------------------------------------------------------------------
(* A function that is throttled or debounced never runs twice within the     *)
(* interval, however late its timers are; when no timer is left, its last    *)
(* run was for the last call, but for the flag immediate; and what is        *)
(* debounced runs only after a quiet interval, or only before one.           *)
RunsInTime ==
  /\ ~early
  /\ quiet = 0 /\ later = 0 /\ wrapper # "immediate" => served
  /\ wrapper = "debounce" /\ run > last => run >= last + Wait
  /\ wrapper = "throttle" /\ ~served => later # 0 /\ more /\ later <= last + Wait

----------------------------------------------------------------------------
CONSTANTS
  Actions, Names,  \* what components do (on, trigger, off), and event names
  PatternSets,     \* the sets of patterns that are asked for
  Stands,          \* Stands[p]: the names that the pattern p matches
  Regexes,         \* the patterns that are regular expressions, not text
  All              \* the text "all", which is a pattern too

ASSUME LogAssumption ==
  /\ \A list \in SUBSET (Actions \cup (UNION PatternSets) \cup {<<"text of", p>> : p \in Regexes}) : list # All
  /\ All \notin Actions /\ All \notin Regexes /\ Actions \cap Regexes = {}
  /\ \A p \in Regexes : /\ <<"text of", p>> \notin Regexes \cup DOMAIN Stands
                         /\ <<"text of", p>> # All

VARIABLES
  filter,          \* logFilter: names and actions, each a set of patterns or All
  stored,          \* localStorage, the same way
  hasStorage       \* window.localStorage

logVars == <<filter, stored, hasStorage>>

NothingLogged == [names |-> {}, actions |-> {}]
Everything == [names |-> All, actions |-> All]

(* The list is written with commas between its elements: a regular expression *)
(* is read back as the text of its source, which stands for no event's name,  *)
(* the list of the one pattern "all" as no filter, an empty list as none.     *)
AsText(p) == IF p \in Regexes THEN <<"text of", p>> ELSE p
Written(list) == IF list \in {All, {All}} THEN All ELSE {AsText(p) : p \in list}
Save(new) ==
  /\ filter' = new
  /\ stored' = IF hasStorage THEN [names |-> Written(new.names), actions |-> Written(new.actions)] ELSE stored
  /\ UNCHANGED hasStorage

NotEmpty(list) == IF list = {} THEN All ELSE list
LogByAction(as) == Save([names |-> NotEmpty(filter.names), actions |-> NotEmpty(as)])
LogByName(ns) == Save([names |-> NotEmpty(ns), actions |-> NotEmpty(filter.actions)])
LogAll == Save(Everything)
LogNone == Save(NothingLogged)

Retrieve == IF hasStorage THEN stored ELSE NothingLogged
Reload == filter' = Retrieve /\ UNCHANGED <<stored, hasStorage>>

(* logger.js: is this call logged under the filters fs? *)
ActionLoggable(fs, action) == fs.actions = All \/ action \in fs.actions
(* `== 'all'` holds of the list of the one pattern "all" too. *)
NameLoggable(fs, name) ==
  fs.names \in {All, {All}} \/ \E p \in fs.names \cap DOMAIN Stands : name \in Stands[p]
Loggable(fs, action, name) == ActionLoggable(fs, action) /\ NameLoggable(fs, name)

LogInit == filter = NothingLogged /\ stored = NothingLogged /\ hasStorage \in BOOLEAN

LogNext ==
  \/ \E as \in SUBSET Actions : LogByAction(as)
  \/ \E ns \in PatternSets : LogByName(ns)
  \/ LogAll \/ LogNone \/ Reload

LogSpec == LogInit /\ [][LogNext]_logVars

----------------------------------------------------------------------------
(* A page that is loaded again logs what the one before it did, where there  *)
(* is storage; except that a regular expression matches nothing any more.    *)
FiltersSurviveReload ==
  hasStorage =>
    \A action \in Actions, name \in Names :
      /\ Loggable(Retrieve, action, name) => Loggable(filter, action, name)
      /\ Loggable(filter, action, name) =>
           \/ Loggable(Retrieve, action, name)
           \/ \E p \in filter.names \cap Regexes : name \in Stands[p]

(* flight: delayed functions run when they should, and the log keeps its    *)
(* filters.                                                                 *)
FlightHolds == RunsInTime /\ FiltersSurviveReload
=============================================================================
