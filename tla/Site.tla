-------------------------------- MODULE Site --------------------------------
(***************************************************************************)
(* The site's own programs: the waitlist's page with its service, and the  *)
(* scripts of the administration and of the API's pages. They do not meet. *)
(* Here each is a copy of its module with constants and variables of its   *)
(* own, and what it promises has a name.                                   *)
(***************************************************************************)
EXTENDS Integers, Sequences, FiniteSets

CONSTANTS
    Browsers, Mailboxes, Earlier, Entries, MaxSubmissions, MaxLoads, MaxEdits,
    Rows, Count,
    Options, Late, FilterTexts, Everything, Found(_),
    Calendars, Clocks, Locales, Todays, Apart, Typed, Clicked, MaxTurns, MaxTicks,
    Fields, Depth, MaxObjects, MaxOpened,
    Layouts, MaxForms, MaxSubmits,
    Tabs, First, Indexes, FiltersOf(_), Models, QuickTexts, Empty, Lower(_), Matches(_), MaxActs,
    Emails, MaxClicks, MaxLosses, MaxLogins

VARIABLES
    joined, joins, site, awaited, totals, editing, mine, storedAt, loads, edits, submissions,
    changes,
    cache, hidden, selected, searches, enabled, warning, known, choosing, submitted,
    win, related, form, objects, created, opened, cut,
    locale, dateValue, calendar, dateBoxes, listening, local, server, openedOn, turns, ticks,
    layout, rows, totalForms, nextIndex, addShown, deleteShown, filling, submits,
    kept, session, page, previous, current, acts,
    row, others, secret, displayed, address, csrftoken, requests, clicks, losses, overlapped,
    late

Signup ==
    INSTANCE Waitlist WITH
        Emails <- Mailboxes, Forms <- Entries, rows <- joined, requests <- joins,
        page <- site, stored <- storedAt
Actions == INSTANCE ChangeList WITH list <- changes
Groups ==
    INSTANCE Chooser WITH
        Texts <- FilterTexts, Matches <- Found, typed <- searches, phase <- choosing
Windows == INSTANCE Popups
Shortcuts == INSTANCE DateShortcuts WITH shown <- dateBoxes, value <- dateValue
Formsets == INSTANCE Inlines WITH phase <- filling
Memory == INSTANCE PageMemory WITH Texts <- QuickTexts, Lists <- Indexes
Api == INSTANCE ApiForm WITH shown <- displayed

-----------------------------------------------------------------------------
(* What the constants are.                                                 *)

(* What may be typed is a form, and the bounds are numbers.                *)
ASSUME SignupIsAnInstance == Signup!Instance

(* The script of a list does not start on a page without rows              *)
(* (actions.js:199).                                                       *)
ASSUME SomeRows == Rows \in Nat \ {0}

(* What the server may ask for: numbers of forms, and no limit or one.     *)
LayoutType ==
    [stacked : BOOLEAN, original : Nat, extra : Nat, min : Nat,
     max : Nat \cup {Formsets!NoLimit}]
ASSUME LayoutsAreTyped == Layouts \subseteq LayoutType /\ MaxSubmits \in Nat

(* A page has finitely many options, and a filter may be empty.            *)
ASSUME OptionsAreFinite == IsFiniteSet(Options) /\ Everything \in FilterTexts

(* There is an object at first.                                            *)
ASSUME DepthIsANumber == Depth \in Nat
ASSUME ObjectsAreCounted == MaxObjects \in Nat \ {0} /\ MaxOpened \in Nat

(* get_format: a date has a day, a month and a year. The fields of a text  *)
(* have no sign, since strptime splits at "-" as well; no clock is before  *)
(* the first year with four digits, and no calendar is turned back from    *)
(* there to the first hundred years, which Date takes for others.          *)
Formats ==
    {f \in [1..3 -> {"d", "m", "y", "Y"}] :
        \A directives \in {{"d"}, {"m"}, {"y", "Y"}} : \E i \in 1..3 : f[i] \in directives}
ASSUME LocalesAreTyped == Locales \subseteq [first : 0..6, format : Formats]
ASSUME DatesAreTyped ==
    /\ Todays \subseteq {date \in Nat : date >= Shortcuts!DateUTC(1000, 0, 1)}
    /\ Apart \subseteq -1..1
    /\ Typed \subseteq Seq(Nat \cup {Shortcuts!NaN})
    /\ MaxTurns \in Nat /\ MaxTurns <= 10000 /\ MaxTicks \in Nat

ASSUME NoEmailIsNone == Api!None \notin Emails
ASSUME ClicksAreCounted == {MaxClicks, MaxLosses, MaxLogins, MaxActs} \subseteq Nat

(* The field may be empty, lower case is lower case, nothing becomes empty *)
(* by it, and a list is no page of the API.                                *)
ASSUME LowerIsSound ==
    /\ Empty \in QuickTexts
    /\ \A text \in QuickTexts : /\ Lower(Lower(text)) = Lower(text)
                                /\ Lower(text) = Empty <=> text = Empty
ASSUME ListsAreNames == {"api", "closed"} \cap Indexes = {}

-----------------------------------------------------------------------------
(* What each of them promises, as its module states it in full.            *)

(* The types of all of them.                                               *)
TypesOK ==
    /\ Signup!TypeOK /\ Actions!TypeOK /\ Groups!TypeOK /\ Windows!TypeOK
    /\ Shortcuts!TypeOK /\ Formsets!TypeOK /\ Memory!TypeOK /\ Api!TypeOK
(* save: an email has one row, and who came later stands behind.           *)
OnePlaceInOrder == Signup!OnePlaceInOrder
(* handleFormSubmit: the modal is about a row stored for this submission.  *)
ShowsItsPosition == Signup!ShowsItsPosition
(* actions.js: an action runs on as many rows as the page says.            *)
RunsOnWhatItNames == Actions!RunsOnWhatItNames
(* SelectBox, SelectFilter: every option stays, and all chosen are sent.   *)
LosesNoOption == Groups!LosesNoOption
(* SelectBox: what a filter hides is not moved.                            *)
LeavesTheHidden == Groups!LeavesTheHidden
(* dismissChildPopups, setPopupIndex: no window outlives its form.         *)
HasItsOpener == Windows!HasItsOpener
(* dismissAdd...Popup: the links of a field open what is chosen in it.     *)
LinksOpenTheChosen == Windows!LinksOpenTheChosen
(* openCalendar, draw: the month, its days and the day marked are right.   *)
OpenBoxIsRight == Shortcuts!OpenBoxIsRight
(* strftime, strptime: a date written by a click is read as that date.     *)
ReadsWhatItWrote == Shortcuts!ReadsWhatItWrote
(* inlines.js: the server finds every form by its number.                  *)
ServerFindsEveryForm == Formsets!ServerFindsEveryForm
(* theme.js, nav_sidebar.js, filters.js, default.js: a page shows what is  *)
(* kept for the next.                                                      *)
ShowsWhatIsKept == Memory!ShowsWhatIsKept
(* ajax-form.js: an answer, or the page loaded for want of one, is true.   *)
ShowsTheDatabase == Api!ShowsTheDatabase
=============================================================================
