------------------------------ MODULE Chooser ------------------------------
(***************************************************************************)
(* Two lists to choose from: admin/js/SelectBox.js and SelectFilter2.js,   *)
(* on the page of a user of the administration for his groups and          *)
(* permissions. Options move between "_from" and "_to"; each list has a    *)
(* filter, and SelectBox keeps in a cache what a filter hides, because the *)
(* page has only the options that are displayed.                           *)
(*                                                                         *)
(* The caches are sets: in which order options are displayed does not      *)
(* matter here, and an index into a list is any option displayed. A field  *)
(* may be filtered late: typing changes it, and only the release of the    *)
(* key filters the list.                                                   *)
(***************************************************************************)
EXTENDS Integers, FiniteSets

CONSTANTS
    Options,     (* values of the options                                   *)
    Late,        (* of them, those added in a window while the page is open *)
    Texts,       (* what may be typed in a filter                           *)
    Everything,  (* the empty text                                          *)
    Matches(_)   (* the options whose text has all the words of a text      *)

VARIABLES
    cache,       (* SelectBox.cache: the options of each list               *)
    hidden,      (* of them, those with displayed = 0                       *)
    selected,    (* of those displayed, the ones selected                   *)
    typed,       (* the text in each filter field                           *)
    enabled,     (* the buttons that are not disabled                       *)
    warning,     (* "... selected options not visible"                      *)
    known,       (* history: the options that the page was given            *)
    phase,       (* "loading", "open", "submitted"                          *)
    submitted    (* the options the form was submitted with                 *)

vars == <<cache, hidden, selected, typed, enabled, warning, known,
          phase, submitted>>

Lists == {"from", "to"}
Other(list) == IF list = "from" THEN "to" ELSE "from"
Buttons == {"add", "remove", "add_all", "remove_all"}

Init ==
    /\ cache = [list \in Lists |-> IF list = "from" THEN Options \ Late ELSE {}]
    /\ hidden = [list \in Lists |-> {}]
    /\ selected = [list \in Lists |-> {}]
    /\ typed = [list \in Lists |-> Everything]
    /\ enabled = Buttons /\ warning = 0 /\ known = Options \ Late
    /\ phase = "loading" /\ submitted = {}

Displayed(list) == cache[list] \ hidden[list]

-----------------------------------------------------------------------------
(* The functions of SelectBox. Each redisplays the lists it touched, so    *)
(* that nothing is selected in them.                                       *)

(* filter, of the lists given.                                             *)
Filter(lists, c, text) ==
    hidden' = [list \in Lists |-> IF list \in lists THEN c[list] \ Matches(text[list])
                                  ELSE hidden[list] \cap c[list]]

(* move and move_all: options displayed in one list go to the other, and   *)
(* are displayed there.                                                    *)
Moved(list, moving) ==
    [cache EXCEPT ![list] = @ \ moving, ![Other(list)] = @ \cup moving]
StillHidden(list, moving) == [hidden EXCEPT ![Other(list)] = @ \ moving]
(* Mutant: what was selected in the page still is when it is redisplayed. *)
SelectedStill == selected
Unselected == [list \in Lists |-> {}]

-----------------------------------------------------------------------------
(* The functions of SelectFilter.                                          *)

(* refresh_icons, given what is displayed and selected.                    *)
RefreshIcons(shown, chosen) ==
    enabled' = {button \in Buttons :
        CASE button = "add"        -> chosen["from"] # {}
          [] button = "remove"     -> chosen["to"] # {}
          [] button = "add_all"    -> shown["from"] # {}
          [] button = "remove_all" -> shown["to"] # {}}

Shown(c, h) == [list \in Lists |-> c[list] \ h[list]]
RefreshFilteredWarning == warning' = Cardinality(hidden'["to"])

Open == phase = "open"
FormUnchanged == UNCHANGED <<known, phase, submitted>>

(* init: what is selected in the page moves to the other list.             *)
Load ==
    /\ phase = "loading" /\ phase' = "open"
    /\ \E chosen \in SUBSET cache["from"] : cache' = Moved("from", chosen)
    /\ UNCHANGED <<hidden, selected, typed, warning, known, submitted>>
    /\ RefreshIcons(cache', selected)

(* The mouse: a change event, and the icons.                               *)
Select(list, options) ==
    /\ Open /\ options \in SUBSET Displayed(list)
    /\ selected' = [selected EXCEPT ![list] = options]
    /\ RefreshIcons(Shown(cache, hidden), selected')
    /\ UNCHANGED <<cache, hidden, typed, warning>> /\ FormUnchanged

(* move_selection: the icons are refreshed before the filters hide some of *)
(* the options that came.                                                  *)
MoveSelection(button, list, moving) ==
    /\ Open /\ button \in enabled
    /\ cache' = Moved(list, moving)
    /\ selected' = Unselected
    /\ RefreshIcons(Shown(cache', StillHidden(list, moving)), Unselected)
    /\ Filter(Lists, cache', typed)
    /\ RefreshFilteredWarning
    /\ UNCHANGED typed /\ FormUnchanged

Choose(list) ==
    MoveSelection(IF list = "from" THEN "add" ELSE "remove", list, selected[list])

AllButton(list) == IF list = "from" THEN "add_all" ELSE "remove_all"
(* Mutant: move_all goes over the cache and not over the page. *)
ChooseAllCached(list) == MoveSelection(AllButton(list), list, cache[list])
ChooseAll(list) == MoveSelection(AllButton(list), list, Displayed(list))

(* The warning is clicked, and the filter of the options chosen cleared.   *)
ClearFilter ==
    /\ Open
    /\ typed' = [typed EXCEPT !["to"] = Everything]
    /\ Filter({"to"}, cache, typed')
    /\ selected' = [selected EXCEPT !["to"] = {}]
    /\ RefreshFilteredWarning
    /\ RefreshIcons(Shown(cache, hidden'), selected')
    /\ UNCHANGED cache /\ FormUnchanged

Type(list, text) ==
    /\ Open /\ typed[list] # text
    /\ typed' = [typed EXCEPT ![list] = text]
    /\ UNCHANGED <<cache, hidden, selected, enabled, warning>> /\ FormUnchanged

(* An index that is kept or set: one option displayed, or none.            *)
AtMostOne(options) == {{}} \cup {{option} : option \in options}

(* filter_key_up: the list is filtered, and the index restored.            *)
FilterKeyUp(list) ==
    /\ Open
    /\ Filter({list}, cache, typed)
    /\ \E at \in AtMostOne(cache[list] \ hidden'[list]) :
           /\ selected[list] = {} => at = {}
           /\ selected' = [selected EXCEPT ![list] = at]
    /\ RefreshFilteredWarning
    /\ RefreshIcons(Shown(cache, hidden'), selected')
    /\ UNCHANGED <<cache, typed>> /\ FormUnchanged

(* filter_key_press, Enter: the first option displayed moves, and no icon  *)
(* is refreshed.                                                           *)
FilterKeyPress(list) ==
    /\ Open
    /\ \E moving \in AtMostOne(Displayed(list)) :
           /\ Displayed(list) # {} => moving # {}
           /\ cache' = Moved(list, moving)
           /\ hidden' = StillHidden(list, moving)
           /\ \E at \in AtMostOne(Displayed(list) \ moving) :
                  /\ Displayed(list) \ moving # {} => at # {}
                  /\ selected' = [Unselected EXCEPT ![list] = at]
    /\ UNCHANGED <<typed, enabled, warning>> /\ FormUnchanged

(* filter_key_down: the arrow towards the other list moves what is         *)
(* selected, and both filters are applied again, ...                       *)
ArrowAcross(list) ==
    /\ Open
    /\ cache' = Moved(list, selected[list])
    /\ Filter(Lists, cache', typed)
    /\ RefreshFilteredWarning
    /\ \E at \in AtMostOne(cache'[list] \ hidden'[list]) :
           selected' = [Unselected EXCEPT ![list] = at]
    /\ UNCHANGED <<typed, enabled>> /\ FormUnchanged

(* ... up and down select another option.                                  *)
ArrowAlong(list) ==
    /\ Open
    /\ \E option \in Displayed(list) :
           selected' = [selected EXCEPT ![list] = {option}]
    /\ UNCHANGED <<cache, hidden, typed, enabled, warning>> /\ FormUnchanged

(* A double click on an option moves it, which has selected it before.     *)
DoubleClick(list, option) ==
    /\ Open /\ option \in Displayed(list)
    /\ cache' = Moved(list, {option})
    /\ hidden' = StillHidden(list, {option})
    /\ selected' = Unselected
    /\ RefreshIcons(Shown(cache', hidden'), Unselected)
    /\ UNCHANGED <<typed, warning>> /\ FormUnchanged

(* dismissAddRelatedObjectPopup: a group that was added in a window is one *)
(* of those chosen, and is displayed; nothing else is done here.           *)
AddRelated(option) ==
    /\ Open /\ option \notin known
    /\ known' = known \cup {option}
    /\ cache' = [cache EXCEPT !["to"] = @ \cup {option}]
    /\ selected' = [selected EXCEPT !["to"] = {}]
    /\ UNCHANGED <<hidden, typed, enabled, warning, phase, submitted>>

(* The form is submitted with the options of the page that are selected.   *)
SubmitWith(h) ==
    /\ Open /\ phase' = "submitted"
    /\ hidden' = h
    /\ selected' = [selected EXCEPT !["to"] = cache["to"] \ h["to"]]
    /\ submitted' = selected'["to"]
    /\ UNCHANGED <<cache, typed, enabled, warning, known>>

(* Mutant: the filter is not cleared before. *)
SubmitFiltered == SubmitWith(hidden)
Submit == SubmitWith([hidden EXCEPT !["to"] = {}])

Next ==
    \/ Load \/ ClearFilter \/ Submit
    \/ \E list \in Lists :
           \/ Choose(list) \/ ChooseAll(list)
           \/ FilterKeyUp(list) \/ FilterKeyPress(list)
           \/ ArrowAcross(list) \/ ArrowAlong(list)
           \/ \E options \in SUBSET Options : Select(list, options)
           \/ \E text \in Texts : Type(list, text)
           \/ \E option \in Options : DoubleClick(list, option)
    \/ \E option \in Options : AddRelated(option)

Spec == Init /\ [][Next]_vars

-----------------------------------------------------------------------------

TypeOK ==
    /\ cache \in [Lists -> SUBSET Options]
    /\ \A list \in Lists : /\ hidden[list] \subseteq cache[list]
                           /\ selected[list] \subseteq Displayed(list)
    /\ typed \in [Lists -> Texts]
    /\ enabled \subseteq Buttons /\ warning \in Nat /\ known \subseteq Options
    /\ phase \in {"loading", "open", "submitted"} /\ submitted \subseteq Options

(* Whatever is typed, clicked and moved, and in whichever order the events *)
(* of a key come, and also when a group is added meanwhile: every option   *)
(* is in one of the lists and only in one, the page says how many of those *)
(* chosen a filter hides, and the form is submitted with all that are      *)
(* chosen, also with those.                                                *)
LosesNoOption ==
    /\ cache["from"] \cup cache["to"] = known
    /\ cache["from"] \cap cache["to"] = {}
    /\ warning = Cardinality(hidden["to"]) \/ phase = "submitted"
    /\ phase = "submitted" => submitted = cache["to"]

(* No step moves an option that the page does not display.                 *)
TheHiddenStayInList == \A list \in Lists : hidden[list] \subseteq cache'[list]
LeavesTheHidden == [][TheHiddenStayInList]_vars
=============================================================================
