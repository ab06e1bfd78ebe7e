------------------------------ MODULE DatePicker ------------------------------
(***************************************************************************)
(* The date and time of the search form: bootstrap-datepicker.js on an     *)
(* input, and js/component_ui/timeStamp.js, which turns what both fields   *)
(* say into the hidden timestamp that a search is made with.               *)
(*                                                                         *)
(* A JavaScript Date is an object that is changed in place.  Where the     *)
(* picker does not copy one, the date it shows (view), the one that the    *)
(* keyboard is on (focus) and the selected one are the same object: which  *)
(* of them are is part of the state.                                       *)
(***************************************************************************)
EXTENDS Calendar, FiniteSets

CONSTANTS
  Options,       \* the options: limits, todayBtn, autoclose, minViewMode, multidate
  Dates,         \* bound: the dates that occur
  Typed,         \* texts that are typed: sequences of dates, or Junk
  Junk,          \* a text that is no date
  Today, TimesOfDay,  \* the date of the clock, and the times of day that are chosen
  NoDate

VARIABLES
  o,             \* the options of the picker
  dates, view, focus,
  viewIsLast,    \* view is the last of dates, the same object
  focusIsView,
  mode, visible,
  value,         \* the text of the input: dates, or Junk
  page,          \* the month that fill filled the picker with last
  timestamp,     \* <<date, time>>, or NoDate
  time,          \* the text of the field of the time
  slipped,       \* history: a selected date was changed in place
  unchecked      \* history: dates selected without a look at the limits

pickerVars == <<o, dates, view, focus, viewIsLast, focusIsView, mode, visible, value, page>>
dateVars == <<pickerVars, timestamp, time, slipped, unchecked>>

Within(t) == ~Before(t, o.from) /\ ~Before(o.to, t)
Selected(ds) == IF ds = <<>> THEN NoDate ELSE Last(ds)
OrElse(a, b) == IF a # NoDate THEN a ELSE b
Month(t) == <<t[1], t[2]>>

Fill == page' = Month(view')
SetValue == value' = dates'

(* The event changeDate, as timeStamp.js takes it: of a date there is the day *)
(* alone, and of none moment makes the present.                               *)
ChangeDate(date) == timestamp' = IF date = NoDate THEN <<Today, "now">> ELSE <<date, "midnight">>

(* hide: writes the selection to the input, unless that is empty. *)
HideTo(m, text) ==
  /\ visible' = FALSE /\ focus' = NoDate /\ focusIsView' = FALSE /\ mode' = m
  /\ IF text # <<>> THEN SetValue ELSE value' = text
Hide(text) == HideTo(o.startView, text)

----------------------------------------------------------------------------
(* update without arguments: reads the input. *)
Parsed(text) == IF text = Junk THEN <<Today>> ELSE text
Update ==
  /\ dates' = SelectSeq(Parsed(value'), Within)
  /\ view' = IF dates' # <<>> THEN Last(dates')
             ELSE IF Before(view, o.from) THEN o.from ELSE IF Before(o.to, view) THEN o.to ELSE view
  /\ viewIsLast' = FALSE
  /\ focusIsView' = (focusIsView /\ dates' = <<>> /\ view' = view)
  /\ IF dates' # <<>> /\ dates' # dates THEN ChangeDate(Last(dates')) ELSE UNCHANGED timestamp
  /\ Fill

ToggleMultidate(ds, date) ==
  LET i == SelectInSeq(ds, LAMBDA t : t = date)
      all == IF date = NoDate THEN <<>> ELSE IF i # 0 THEN RemoveAt(ds, i) ELSE Append(ds, date) IN
  IF Len(all) > o.multidate THEN SubSeq(all, Len(all) - o.multidate + 1, Len(all)) ELSE all

\* Mutant: the calendar is not drawn anew.
SetUndrawn(date, shownOnly) ==
  /\ dates' = IF shownOnly THEN dates ELSE ToggleMultidate(dates, date)
  /\ view' = date /\ viewIsLast' = FALSE
  /\ ChangeDate(Selected(dates'))
  /\ UNCHANGED page

(* _setDate, from a click: of the date itself, or of what is shown only. *)
SetTo(date, shownOnly) ==
  /\ dates' = IF shownOnly THEN dates ELSE ToggleMultidate(dates, date)
  /\ view' = date /\ viewIsLast' = FALSE
  /\ ChangeDate(Selected(dates'))
  /\ Fill

Bounded == view' \in Dates /\ ToSet(dates') \subseteq Dates
Same == UNCHANGED <<o, time>> /\ Bounded
Unchecked(more) == unchecked' = (unchecked \cup more) \cap ToSet(dates')
Checked == UNCHANGED slipped /\ Unchecked({})

----------------------------------------------------------------------------
(* show: the field takes the focus, or a key is Escape. *)
FocusInput ==
  /\ visible' = TRUE
  /\ UNCHANGED <<dates, view, focus, viewIsLast, focusIsView, mode, value, page, timestamp>>
  /\ Same /\ Checked

ClickOutside ==
  /\ visible
  /\ UNCHANGED <<dates, view, viewIsLast, page, timestamp>>
  /\ Hide(value)
  /\ Same /\ Checked

Type(text) ==
  /\ value' = text
  /\ Update
  /\ slipped' = (slipped /\ dates' = dates)
  /\ Unchecked({})
  /\ Same /\ UNCHANGED <<focus, mode, visible>>

(* Clicks in the picker. *)
ClickSwitch ==
  /\ visible
  /\ mode' = Lesser(2, mode + 1)
  /\ UNCHANGED <<dates, view, focus, viewIsLast, focusIsView, visible, value, page, timestamp>>
  /\ Same /\ Checked

ClickArrow(dir) ==
  /\ visible
  /\ view' = IF mode = 0 THEN MoveMonth(view, dir) ELSE MoveYear(view, IF mode = 2 THEN 10 * dir ELSE dir)
  /\ viewIsLast' = FALSE /\ focusIsView' = FALSE
  /\ Fill
  /\ UNCHANGED <<dates, focus, mode, visible, value, timestamp>>
  /\ Same /\ Checked

ClickToday ==
  /\ visible /\ o.todayBtn # "none"
  /\ SetTo(Today, o.todayBtn = "view")
  /\ IF o.autoclose /\ o.todayBtn = "linked" THEN Hide(dates')
     ELSE SetValue /\ mode' = o.minView /\ focusIsView' = FALSE /\ UNCHANGED <<visible, focus>>
  /\ Unchecked(IF o.todayBtn = "linked" THEN {Today} ELSE {})
  /\ Same /\ UNCHANGED slipped

(* The view is set to the first of a month, in place: the selected date and   *)
(* the keyboard's go along if they are the same object.                       *)
InPlace(date) == IF viewIsLast THEN [dates EXCEPT ![Len(dates)] = date] ELSE dates
Slip(date) == slipped' = (slipped \/ (viewIsLast /\ date # view))

PickSpan(unit, date) ==
  /\ visible /\ mode = unit /\ o.minView # unit
  /\ view' = date /\ dates' = InPlace(date)
  /\ focus' = IF focusIsView THEN date ELSE focus
  /\ mode' = mode - 1
  /\ Slip(date)
  /\ Fill
  /\ UNCHANGED <<viewIsLast, focusIsView, value, visible, timestamp>>
  /\ Unchecked({})
  /\ Same

(* With minViewMode the first day of the month or year is selected. *)
SelectSpan(unit, date, first) ==
  /\ visible /\ mode = unit /\ o.minView = unit
  /\ dates' = ToggleMultidate(InPlace(date), first)
  /\ view' = first /\ viewIsLast' = FALSE
  /\ ChangeDate(Selected(dates'))
  /\ IF o.autoclose THEN HideTo(IF o.startView > unit THEN o.startView - 1 ELSE unit, dates')
     ELSE /\ SetValue /\ focus' = (IF focusIsView THEN date ELSE focus) /\ focusIsView' = FALSE
          /\ UNCHANGED <<visible, mode>>
  /\ Slip(date) /\ Unchecked({first})
  /\ Fill
  /\ Same

ClickMonth(m) ==
  /\ ~MonthDisabled(view[1], m, o.from, o.to)
  /\ \/ PickSpan(1, <<view[1], m, 1>>)
     \/ SelectSpan(1, <<view[1], m, 1>>, <<view[1], m, 1>>)
ClickYear(y) ==
  /\ y \in o.from[1]..o.to[1] /\ y - 10 * (view[1] \div 10) \in -1..10
  /\ \/ PickSpan(2, <<y, view[2], 1>>)
     \/ SelectSpan(2, <<y, view[2], 1>>, <<y, 0, 1>>)

(* A cell of the page, by its text and its class; the view gives the rest. *)
ClickDay(shown) ==
  /\ visible /\ mode = 0
  /\ Within(shown) /\ Contains(Cells(<<page[1], page[2], 1>>, 0), shown)
  /\ SetTo(CellDate(view, shown[3], CellClass(<<page[1], page[2], 1>>, shown)), FALSE)
  /\ IF o.autoclose THEN Hide(dates')
     ELSE SetValue /\ focusIsView' = FALSE /\ UNCHANGED <<visible, focus, mode>>
  /\ Same /\ Checked

----------------------------------------------------------------------------
(* Keys; a picker that is hidden takes none but Escape, which shows it. *)
(* To the selected date, the very object, if there is one. *)
ViewSelected ==
  /\ view' = OrElse(Selected(dates'), view)
  /\ viewIsLast' = (dates' # <<>>)
  /\ Fill

KeyEscape ==
  /\ visible
  /\ IF focus # NoDate
     THEN /\ focus' = NoDate /\ focusIsView' = FALSE /\ UNCHANGED <<dates, mode, visible, value>>
          /\ ViewSelected
     ELSE UNCHANGED <<dates, view, viewIsLast, page>> /\ Hide(value)
  /\ UNCHANGED timestamp /\ Same /\ Checked

Move(t, unit, n) ==
  CASE unit = "day" -> AddDays(t, n) [] unit = "month" -> MoveMonth(t, n) [] unit = "year" -> MoveYear(t, n)
(* What is tested is the selected date's neighbour, not the one moved to. *)
KeyArrow(unit, n) ==
  /\ visible
  /\ Within(Move(OrElse(Selected(dates), Today), unit, n))
  /\ view' = Move(OrElse(focus, view), unit, n) /\ focus' = view'
  /\ focusIsView' = TRUE /\ viewIsLast' = FALSE
  /\ UNCHANGED <<dates, mode, visible, timestamp>> /\ SetValue
  /\ Fill
  /\ Same /\ Checked

KeyEnter ==
  /\ visible
  /\ LET date == OrElse(focus, OrElse(Selected(dates), view)) IN
     /\ dates' = ToggleMultidate(dates, date)
     /\ Unchecked({date})
  /\ ViewSelected
  /\ IF dates' # <<>> THEN ChangeDate(Last(dates')) ELSE UNCHANGED timestamp
  /\ focus' = NoDate /\ focusIsView' = FALSE
  /\ IF o.autoclose THEN visible' = FALSE /\ mode' = o.startView ELSE UNCHANGED <<visible, mode>>
  /\ SetValue
  /\ Same /\ UNCHANGED slipped

KeyTab ==
  /\ visible
  /\ UNCHANGED <<dates, timestamp>> /\ ViewSelected
  /\ Hide(value)
  /\ Same /\ Checked

----------------------------------------------------------------------------
(* timeStamp.js: the time goes to the day that the field of the date shows. *)
ChangeTime(t) ==
  /\ time' = t
  /\ value # Junk /\ value # <<>>
  /\ timestamp' = <<Last(value), t>>
  /\ UNCHANGED pickerVars /\ Checked

DateInit ==
  /\ o \in Options
  /\ timestamp \in {NoDate} \cup {<<t, "midnight">> : t \in Dates}
  /\ time = "midnight"
  /\ value = IF timestamp = NoDate THEN <<Today>> ELSE <<timestamp[1]>>
  /\ dates = SelectSeq(value, Within)
  /\ view = OrElse(Selected(dates), IF Before(Today, o.from) THEN o.from ELSE IF Before(o.to, Today) THEN o.to ELSE Today)
  /\ focus = NoDate /\ viewIsLast = FALSE /\ focusIsView = FALSE
  /\ mode = o.startView /\ visible = FALSE /\ page = Month(view)
  /\ slipped = FALSE /\ unchecked = {}

DateNext ==
  \/ FocusInput \/ ClickOutside \/ ClickSwitch \/ ClickToday
  \/ KeyEscape \/ KeyEnter \/ KeyTab
  \/ \E text \in Typed : Type(text)
  \/ \E dir \in {-1, 1} : ClickArrow(dir)
  \/ \E m \in 0..11 : ClickMonth(m)
  \/ \E y \in {t[1] : t \in Dates} : ClickYear(y)
  \/ \E shown \in Dates : ClickDay(shown)
  \/ \E unit \in {"day", "month", "year"}, n \in {-1, 1} : KeyArrow(unit, n)
  \/ \E n \in {-7, 7} : KeyArrow("day", n)
  \/ \E t \in TimesOfDay : ChangeTime(t)

DateSpec == DateInit /\ [][DateNext]_dateVars

----------------------------------------------------------------------------
(* The picker is filled with the month it is in: a click takes the day that  *)
(* its cell shows, after any sequence of clicks and keys.                    *)
PageIsView == page = Month(view)

(* A search is made for the selected day, whatever the way to select it, as  *)
(* long as some day is selected; but a month or year that is clicked after   *)
(* Enter, Escape or Tab changes the selected date, and nobody is told.       *)
SearchesSelectedDay ==
  timestamp # NoDate /\ dates # <<>> /\ value # Junk => slipped \/ timestamp[1] = Last(dates)

(* What the field says is what is selected.                                  *)
FieldShowsSelection == value # Junk => slipped \/ dates \in {value, SelectSeq(value, Within)}

(* Days between the limits only, but for those that Enter, the button of     *)
(* today and the pickers of months and years select without a look at them.  *)
LimitsKept == slipped \/ \A t \in ToSet(dates) : Within(t) \/ t \in unchecked

PickerSound == PageIsView /\ SearchesSelectedDay /\ FieldShowsSelection /\ LimitsKept
------------------------------------------------------------------------------
(***************************************************************************)
(* DateRangePicker of bootstrap-datepicker.js: a row of inputs with a date *)
(* each, which are kept in order.  It hears of a date that was picked, and *)
(* moves the dates before or after it along; it does not hear of an input  *)
(* that was emptied by hand.                                               *)
(*                                                                         *)
(* A picker has at most one date here, a number of days, and its own       *)
(* limits.  A picker without a date gives new Date(undefined), an object   *)
(* that is not less than, equal to or greater than any date.               *)
(***************************************************************************)
CONSTANTS
  Days,
  Invalid,       \* the date of a picker that has none
  Allowed        \* Allowed[i]: the days within the limits of the i-th picker

VARIABLES
  picked,        \* the date of each picker
  remembered,    \* this.dates, and with it the range that each picker marks
  orderly        \* history: a date was only picked while all others were remembered

rangeVars == <<picked, remembered, orderly>>

Pickers == DOMAIN Allowed

Earlier(d, than) == Invalid \notin {d, than} /\ d < than
SetUTCDate(i, d) == IF d \in Allowed[i] THEN d ELSE Invalid

(* DateRangePicker: the inputs may have dates, which are taken as they are. *)
RangeInit ==
  /\ picked \in [Pickers -> Days \cup {Invalid}]
  /\ \A i \in Pickers : picked[i] \in Allowed[i] \cup {Invalid}
  /\ remembered = picked
  /\ orderly = \A i, j \in Pickers : i < j => ~Earlier(picked[j], picked[i])

(* The pickers that a date d of the i-th moves: on the side it went to, up  *)
(* to the first one whose remembered date it has not passed.  Filling those *)
(* without a date comes to nothing, since an Invalid Date is an object too. *)
Moved(i, d) ==
  {j \in 1..i : \A k \in j..i : Earlier(d, remembered[k])}
    \cup {j \in Pickers : j >= i /\ \A k \in i..j : Earlier(remembered[k], d)}

(* dateUpdated: a date is picked, or the one there taken away by a click on *)
(* it or on "clear".  `updating` leaves out the events of its own changes.  *)
DateUpdated(i, d) ==
  /\ picked' = [j \in Pickers |-> IF j \in Moved(i, d) THEN SetUTCDate(j, d)
                                  ELSE IF j = i THEN d ELSE picked[j]]
  /\ remembered' = picked'
  /\ orderly' = (orderly /\ (d = Invalid \/ \A j \in Pickers : remembered[j] # Invalid))

(* update, of a text that was deleted: clearDate has no listener. *)
EmptiedByHand(i) ==
  /\ picked[i] # Invalid
  /\ picked' = [picked EXCEPT ![i] = Invalid]
  /\ UNCHANGED <<remembered, orderly>>

RangeNext == \E i \in Pickers : EmptiedByHand(i) \/ \E d \in Days \cup {Invalid} : DateUpdated(i, d)
RangeSpec == RangeInit /\ [][RangeNext]_rangeVars
-----------------------------------------------------------------------------
(* The dates stay in order, those remembered as well, once they were and as *)
(* long as none was missing when one was picked; what is remembered differs *)
(* from what the pickers say only by dates that were deleted by hand.       *)
RangeInOrder ==
  /\ orderly => \A i, j \in Pickers : i < j => /\ ~Earlier(picked[j], picked[i])
                                              /\ ~Earlier(remembered[j], remembered[i])
  /\ \A i \in Pickers : picked[i] \in {remembered[i], Invalid}
==============================================================================
