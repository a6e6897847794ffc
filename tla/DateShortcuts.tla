--------------------------- MODULE DateShortcuts ----------------------------
(***************************************************************************)
(* The calendars and clocks beside the date and time fields of a form of   *)
(* the administration, as "confirmed at" of a waitlist user has one of     *)
(* each: admin/js/admin/DateTimeShortcuts.js, with the calendars of        *)
(* admin/js/calendar.js.                                                   *)
(*                                                                         *)
(* A box is closed by a click anywhere else: opening it adds a listener to *)
(* the document, and a click in a box, or on the link that opens it, does  *)
(* not reach the document. The browser and the server may be in different  *)
(* time zones: each has its own date, and at most one day lies between.    *)
(***************************************************************************)
EXTENDS Dates, FiniteSets

CONSTANTS
    Calendars,   (* the date fields, from 1                                 *)
    Clocks,      (* the time fields                                         *)
    Locales,     (* [first: the first day of the week, format]              *)
    Todays,      (* dates on which the page is loaded                       *)
    Apart,       (* days the server's date may be ahead when it is loaded   *)
    Typed,       (* what the user types in a date field                     *)
    Clicked,     (* days of a month that are clicked                        *)
    MaxTurns,    (* bound: months turned over in a calendar                 *)
    MaxTicks     (* bound: midnights                                        *)

VARIABLES
    locale,      (* get_format of the page; none before it is loaded        *)
    value,       (* of the date fields                                      *)
    calendar,    (* each Calendar: [selected, grid]                         *)
    shown,       (* the boxes that are displayed                            *)
    listening,   (* those whose dismiss function the document calls         *)
    local, server,   (* the dates in the browser's zone and in the server's *)
    openedOn,    (* history: the value each calendar was opened on          *)
    turns, ticks (* counters                                                *)

vars == <<locale, value, calendar, shown, listening, local, server, openedOn,
          turns, ticks>>

Boxes == ({"calendar"} \X Calendars) \cup ({"clock"} \X Clocks)
NotLoaded == [first |-> 0, format |-> <<>>]
NoGrid == [month |-> 0, year |-> 0, start |-> 0, days |-> 0, today |-> 0, selected |-> 0]

Init ==
    /\ locale = NotLoaded /\ local = 0 /\ server = 0 /\ turns = 0 /\ ticks = 0
    /\ value = [i \in Calendars |-> <<>>] /\ openedOn = value
    /\ calendar = [i \in Calendars |-> [selected |-> NaN, grid |-> NoGrid]]
    /\ shown = {} /\ listening = {}

Loaded == locale # NotLoaded
zone == <<locale, local, server, turns, ticks>>

(* drawCurrent, of the month given. *)
DrawCurrent(month, year, selected) == Draw(month, year, locale.first, local, selected)

(* A Calendar, which addCalendar draws. *)
NewCalendar(first, today) ==
    [selected |-> NaN,
     grid |-> Draw(GetMonth(today), GetFullYear(today), first, today, NaN)]

(* init. *)
Load ==
    /\ ~Loaded
    /\ locale' \in Locales /\ local' \in Todays /\ server' \in {local' + d : d \in Apart}
    /\ calendar' = [i \in Calendars |-> NewCalendar(locale'.first, local')]
    /\ UNCHANGED <<value, shown, listening, openedOn, turns, ticks>>

(* It is midnight for the browser or for the server. *)
Midnight ==
    /\ Loaded /\ ticks < MaxTicks /\ ticks' = ticks + 1
    /\ \/ local' = local + 1 /\ server' = server
       \/ server' = server + 1 /\ local' = local
    /\ server' - local' \in -1..1
    /\ UNCHANGED <<locale, value, calendar, shown, listening, openedOn, turns>>

-----------------------------------------------------------------------------
(* Boxes and listeners.                                                    *)

Show(box) == shown' = shown \cup {box} /\ listening' = listening \cup {box}
Dismiss(boxes) == shown' = shown \ boxes /\ listening' = listening \ boxes

(* A click that reaches the document, after what was done with some boxes. *)
ReachDocument == Dismiss(listening)

ClickElsewhere ==
    /\ Loaded
    /\ ReachDocument
    /\ UNCHANGED <<zone, value, calendar, openedOn>>

(* "Cancel" is in the box, and the key is for all boxes. *)
Cancel(box) ==
    /\ box \in shown
    /\ Dismiss({box})
    /\ UNCHANGED <<zone, value, calendar, openedOn>>

Escape ==
    /\ Loaded
    /\ Dismiss(Boxes)
    /\ UNCHANGED <<zone, value, calendar, openedOn>>

-----------------------------------------------------------------------------
(* Clocks. The hour that a link writes in the time field is left out.      *)
(* "Now" is beside the field as well, and there the click goes on.         *)

OpenClock(c) ==
    /\ Loaded
    /\ Show(<<"clock", c>>)
    /\ UNCHANGED <<zone, value, calendar, openedOn>>

(* reached: the boxes that are dismissed when the click goes on. *)
HandleClockQuicklink(c, reached) ==
    /\ Dismiss({<<"clock", c>>} \cup reached)
    /\ UNCHANGED <<zone, value, calendar, openedOn>>

ClickNow(c) == Loaded /\ HandleClockQuicklink(c, listening)
ClickTime(c) == <<"clock", c>> \in shown /\ HandleClockQuicklink(c, {})

-----------------------------------------------------------------------------
(* Calendars.                                                              *)

Type(i, text) ==
    /\ Loaded /\ value[i] # text
    /\ value' = [value EXCEPT ![i] = text]
    /\ UNCHANGED <<zone, calendar, shown, listening, openedOn>>

(* A value is drawn if it is a date with a year of four digits. *)
IsDrawn(text) ==
    LET selected == Strptime(text, locale.format)
    IN  text # <<>> /\ selected # NaN /\ GetFullYear(selected) >= 1000

(* Mutant: drawDate keeps the day that was selected. *)
DrawDateUnselected(i, date) ==
    [calendar[i] EXCEPT !.grid = DrawCurrent(GetMonth(date), GetFullYear(date), calendar[i].selected)]
DrawDate(i, date) ==
    [calendar[i] EXCEPT !.selected = date,
        !.grid = DrawCurrent(GetMonth(date), GetFullYear(date), date)]

OpenCalendar(i) ==
    /\ Loaded
    /\ calendar' = [calendar EXCEPT ![i] =
           IF IsDrawn(value[i]) THEN DrawDate(i, Strptime(value[i], locale.format)) ELSE @]
    /\ openedOn' = [openedOn EXCEPT ![i] = value[i]]
    /\ Show(<<"calendar", i>>)
    /\ UNCHANGED <<zone, value>>

(* drawPrev and drawNext. *)
Turn(i, month, year) ==
    /\ <<"calendar", i>> \in shown /\ turns < MaxTurns /\ turns' = turns + 1
    /\ calendar' = [calendar EXCEPT ![i].grid =
           DrawCurrent(month, year, calendar[i].selected)]
    /\ UNCHANGED <<locale, local, server, ticks, value, shown, listening, openedOn>>

DrawPreviousMonth(i) ==
    LET g == calendar[i].grid
    IN  IF g.month = 1 THEN Turn(i, 12, g.year - 1) ELSE Turn(i, g.month - 1, g.year)
DrawNextMonth(i) ==
    LET g == calendar[i].grid
    IN  IF g.month = 12 THEN Turn(i, 1, g.year + 1) ELSE Turn(i, g.month + 1, g.year)

(* handleCalendarCallback: the box is hidden, and the document still has   *)
(* the listener.                                                           *)
HideBox(box) == shown' = shown \ {box} /\ UNCHANGED listening
ClickDay(i, day) ==
    LET g == calendar[i].grid
    IN  /\ <<"calendar", i>> \in shown /\ day \in Clicked \cap (1..g.days)
        /\ value' = [value EXCEPT ![i] =
               Strftime(DateUTC(g.year, g.month - 1, day), locale.format)]
        /\ HideBox(<<"calendar", i>>)
        /\ UNCHANGED <<zone, calendar, openedOn>>

(* "Yesterday", "Today" and "Tomorrow", of the server's date.              *)
Now == server
HandleCalendarQuickLink(i, offset, reached) ==
    /\ Dismiss({<<"calendar", i>>} \cup reached)
    /\ value' = [value EXCEPT ![i] = Strftime(Now + offset, locale.format)]
    /\ UNCHANGED <<zone, calendar, openedOn>>

ClickToday(i) == Loaded /\ HandleCalendarQuickLink(i, 0, listening)
ClickShortcut(i, offset) ==
    <<"calendar", i>> \in shown /\ HandleCalendarQuickLink(i, offset, {})

Next ==
    \/ Load \/ Midnight \/ ClickElsewhere \/ Escape
    \/ \E box \in Boxes : Cancel(box)
    \/ \E c \in Clocks : OpenClock(c) \/ ClickNow(c) \/ ClickTime(c)
    \/ \E i \in Calendars :
           \/ OpenCalendar(i) \/ DrawPreviousMonth(i) \/ DrawNextMonth(i)
           \/ \E text \in Typed : Type(i, text)
           \/ \E day \in Clicked : ClickDay(i, day)
           \/ ClickToday(i) \/ \E offset \in -1..1 : ClickShortcut(i, offset)

Spec == Init /\ [][Next]_vars

-----------------------------------------------------------------------------

TypeOK ==
    /\ locale \in Locales \cup {NotLoaded} /\ turns \in 0..MaxTurns /\ ticks \in 0..MaxTicks
    /\ local \in Nat /\ server - local \in -1..1
    /\ {value, openedOn} \subseteq [Calendars -> Seq(Int)]
    /\ \A i \in Calendars : /\ calendar[i].selected \in Nat \cup {NaN}
                            /\ DOMAIN calendar[i].grid = DOMAIN NoGrid
    /\ shown \subseteq Boxes /\ listening \subseteq Boxes

(* A calendar is drawn as the month it names: all its days, each under  *)
(* its own day of the week.                                                *)
DrawnRight(i) ==
    LET g == calendar[i].grid
        first == DateUTC(g.year, g.month - 1, 1)
    IN  /\ g.days = DateUTC(g.year, g.month, 1) - first
        /\ \A d \in 1..g.days : GetDay(first + d - 1) = Header(g, locale.first, d)

(* A box that is shown is closed by a click elsewhere. A calendar shows    *)
(* the days of a month under their days of the week, and when it was opened*)
(* on a date it marks that date and no other, however it is turned over,   *)
(* whatever is clicked in other boxes, in each format and zone.            *)
OpenBoxIsRight ==
    /\ shown \subseteq listening
    /\ \A i \in Calendars :
        /\ Loaded => DrawnRight(i)
        /\ <<"calendar", i>> \in shown /\ IsDrawn(openedOn[i]) =>
               LET date == Strptime(openedOn[i], locale.format)
                   g == calendar[i].grid
               IN  g.selected = IF g.year = GetFullYear(date) /\ g.month = GetMonth(date)
                                THEN GetDate(date) ELSE 0

(* Two digits say a year from 1969 to 2068. *)
CanSay(date) ==
    (\E k \in DOMAIN locale.format : locale.format[k] = "y")
        => GetFullYear(date) \in 1969..2068

(* What a click on a day or a quick link has written is read as that day,  *)
(* with two digits for the year if it is near enough.                      *)
ReadsWhatItWrote ==
    [][\A i \in Calendars :
        LET Written(date) == CanSay(date) => Strptime(value'[i], locale.format) = date
            g == calendar[i].grid
        IN  /\ \A day \in Clicked :
                   ClickDay(i, day) => Written(DateUTC(g.year, g.month - 1, day))
            /\ ClickToday(i) => Written(server)
            /\ \A offset \in -1..1 : ClickShortcut(i, offset) => Written(server + offset)]_vars
=============================================================================
