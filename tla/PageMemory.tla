----------------------------- MODULE PageMemory -----------------------------
(***************************************************************************)
(* What the pages of the backend remember from one load to the next:       *)
(* admin/js/theme.js, nav_sidebar.js and filters.js in every page of the   *)
(* administration, rest_framework/js/default.js in every page of the API.  *)
(* The theme and the sidebar are in the storage all tabs share, the form   *)
(* of the API's pages in a cookie; the text that filters the sidebar and   *)
(* the filters folded on a list are in the storage of the tab, which a     *)
(* window opened from it starts with a copy of.                            *)
(*                                                                         *)
(* Each page reads them once, when it is loaded, and some keep what they   *)
(* read in a variable: navSidebarIsOpen, filters. Another tab may have     *)
(* changed the storage since, and a page that Back takes from the          *)
(* browser's cache goes on with the variables it had.                      *)
(***************************************************************************)
EXTENDS Integers

CONSTANTS
    Tabs, First,  (* tabs, and the one that is open                         *)
    Lists,        (* the pages with filters to fold                         *)
    FiltersOf(_), (* the filters of a list                                  *)
    Models,       (* the rows of the sidebar                                *)
    Texts,        (* what may be typed above them                           *)
    Empty,        (* the empty text                                         *)
    Lower(_),     (* toLowerCase of a text                                  *)
    Matches(_),   (* the rows with this text in lower case in their title   *)
    MaxActs       (* bound: clicks, keys and loads                          *)

VARIABLES
    kept,         (* localStorage, and the cookie tabstyle                  *)
    session,      (* sessionStorage of each tab                             *)
    page,         (* what each tab shows, with the variables of its scripts *)
    previous,     (* the page before; bound: one entry of the history       *)
    current,      (* history: the aspects of a page no other page changed   *)
    acts

vars == <<kept, session, page, previous, current, acts>>

Filters == UNION {FiltersOf(list) : list \in Lists}
Modes == {"light", "dark", "auto"}
Forms == {"html-tab", "raw-tab"}
States == {"unset", "open", "closed"}
Closed == [view |-> "closed"]
Admin == {tab \in Tabs : page[tab].view \in Lists}

TypeOK ==
    /\ kept \in [theme : Modes \cup {"unset", "other"}, sidebar : {"unset", "true", "false"},
                 tabstyle : Forms \cup {"unset"}]
    /\ session \in [Tabs -> [filter : {Lower(text) : text \in Texts},
                             filters : [Filters -> States]]]
    /\ \A tab \in Tabs : page[tab].view \in Lists \cup {"api", "closed"}
    /\ \A tab \in Admin :
          /\ page[tab].theme \in Modes /\ page[tab].filters \in [Filters -> States]
          /\ page[tab].open \subseteq FiltersOf(page[tab].view)
    /\ acts \in 0..MaxActs

-----------------------------------------------------------------------------
(* A page is loaded.                                                       *)

SetTheme(mode) == IF mode \in Modes THEN mode ELSE "auto"
InitTheme == [kept EXCEPT !.theme = SetTheme(@)]

NavSidebarIsOpen == IF kept.sidebar = "unset" THEN "true" ELSE kept.sidebar

(* The rows a text leaves, and the mark of the field when there are none.  *)
CheckValue(text) ==
    LET rows == IF text = Empty THEN Models ELSE Matches(Lower(text))
    IN  [box |-> text, shown |-> rows, none |-> rows = {}]

(* A filter is unfolded in the page the server sends.                      *)
InitFilters(list, filters) == {filter \in FiltersOf(list) : filters[filter] # "closed"}

AdminPage(list, storage) ==
    [view |-> list, theme |-> SetTheme(kept.theme),
     isOpen |-> NavSidebarIsOpen, shifted |-> NavSidebarIsOpen = "true",
     quick |-> CheckValue(storage.filter),
     filters |-> storage.filters, open |-> InitFilters(list, storage.filters)]

ApiPage ==
    [view |-> "api", form |-> IF kept.tabstyle \in Forms THEN kept.tabstyle ELSE "html-tab"]

Rendered(view, storage) == IF view = "api" THEN ApiPage ELSE AdminPage(view, storage)

AspectsOf(view) ==
    IF view = "api" THEN {"form"} ELSE {"theme", "sidebar", "quick", "filters"}

(* The toggle events of the filters the parser unfolds come after the      *)
(* script has added its listeners, or before: then nothing is stored.      *)
Toggled(list, filters) ==
    [filter \in Filters |->
        IF filter \in InitFilters(list, filters) THEN "open" ELSE filters[filter]]

Show(tab, view, storage) ==
    /\ current' = [current EXCEPT ![tab] = AspectsOf(view)]
    /\ IF view = "api"
       THEN /\ page' = [page EXCEPT ![tab] = ApiPage]
            /\ session' = [session EXCEPT ![tab] = storage]
            /\ UNCHANGED kept
       ELSE \E filters \in {storage.filters, Toggled(view, storage.filters)} :
               LET stored == [storage EXCEPT !.filters = filters] IN
               /\ page' = [page EXCEPT ![tab] = AdminPage(view, stored)]
               /\ session' = [session EXCEPT ![tab] = stored]
               /\ kept' = InitTheme

Act == acts < MaxActs /\ acts' = acts + 1

Load(tab, view) ==
    /\ Act
    /\ page[tab] # Closed
    /\ Show(tab, view, session[tab])
    /\ previous' = [previous EXCEPT ![tab] = page[tab]]

(* A window that a page opens begins with a copy of the tab's storage.     *)
OpenTab(opener, tab, view) ==
    /\ Act
    /\ page[opener] # Closed /\ page[tab] = Closed
    /\ Show(tab, view, session[opener])
    /\ UNCHANGED previous

(* Back finds the page in the browser's cache, as it was left, or loads it *)
(* again.                                                                  *)
Back(tab) ==
    /\ Act
    /\ previous[tab] # Closed
    /\ previous' = [previous EXCEPT ![tab] = Closed]
    /\ \/ /\ page' = [page EXCEPT ![tab] = previous[tab]]
          /\ current' = [current EXCEPT ![tab] = {}]
          /\ UNCHANGED <<kept, session>>
       \/ Show(tab, previous[tab].view, session[tab])

-----------------------------------------------------------------------------
(* Clicks and keys in a page. What is kept for all tabs is no more what    *)
(* the other tabs show.                                                    *)

Touch(tab, aspect) ==
    current' =
        [other \in Tabs |->
            IF other = tab THEN current[tab] \cup {aspect}
            ELSE IF aspect \in {"theme", "sidebar", "form"} THEN current[other] \ {aspect}
            ELSE current[other]]

(* cycleTheme: from the theme stored, not from the one this page shows.    *)
Cycle(prefersDark) ==
    IF prefersDark THEN [auto |-> "light", light |-> "dark", dark |-> "auto"]
    ELSE [auto |-> "dark", dark |-> "light", light |-> "auto"]
CycleTheme(tab) ==
    /\ Act
    /\ tab \in Admin
    /\ \E prefersDark \in BOOLEAN :
          LET mode == SetTheme(Cycle(prefersDark)[kept.theme]) IN
          /\ kept' = [kept EXCEPT !.theme = mode]
          /\ page' = [page EXCEPT ![tab].theme = mode]
    /\ Touch(tab, "theme")
    /\ UNCHANGED <<session, previous>>

(* The button of the sidebar: from what this page shows.                   *)
ToggleNavSidebar(tab) ==
    /\ Act
    /\ tab \in Admin
    /\ LET isOpen == IF page[tab].isOpen = "true" THEN "false" ELSE "true" IN
       /\ page' = [page EXCEPT ![tab].isOpen = isOpen, ![tab].shifted = ~@]
       /\ kept' = [kept EXCEPT !.sidebar = isOpen]
    /\ Touch(tab, "sidebar")
    /\ UNCHANGED <<session, previous>>

(* checkValue: the text above the rows was changed.                        *)
Type(tab, text) ==
    /\ Act
    /\ tab \in Admin /\ page[tab].quick.box # text
    /\ page' = [page EXCEPT ![tab].quick = CheckValue(text)]
    /\ session' = [session EXCEPT ![tab].filter = Lower(text)]
    /\ Touch(tab, "quick")
    /\ UNCHANGED <<kept, previous>>

(* A plausible bug: the text is stored before the field is cleared.        *)
EscapeStoredFirst(tab) ==
    /\ Act
    /\ tab \in Admin /\ page[tab].quick.box # Empty
    /\ page' = [page EXCEPT ![tab].quick = CheckValue(Empty)]
    /\ Touch(tab, "quick")
    /\ UNCHANGED <<kept, session, previous>>

(* checkValue: Escape was released in the field, which clears it.          *)
Escape(tab) ==
    /\ Act
    /\ tab \in Admin /\ page[tab].quick.box # Empty
    /\ page' = [page EXCEPT ![tab].quick = CheckValue(Empty)]
    /\ session' = [session EXCEPT ![tab].filter = Empty]
    /\ Touch(tab, "quick")
    /\ UNCHANGED <<kept, previous>>

(* A filter is folded or unfolded: all that the page knows is stored.      *)
ToggleFilter(tab, filter) ==
    /\ Act
    /\ tab \in Admin /\ filter \in FiltersOf(page[tab].view)
    /\ LET opens == filter \notin page[tab].open
           filters == [page[tab].filters EXCEPT ![filter] = IF opens THEN "open" ELSE "closed"]
       IN
       /\ page' = [page EXCEPT
                      ![tab].open = IF opens THEN @ \cup {filter} ELSE @ \ {filter},
                      ![tab].filters = filters]
       /\ session' = [session EXCEPT ![tab].filters = filters]
    /\ Touch(tab, "filters")
    /\ UNCHANGED <<kept, previous>>

(* The tab of a form is clicked in a page of the API.                      *)
ClickForm(tab, form) ==
    /\ Act
    /\ page[tab].view = "api" /\ page[tab].form # form
    /\ page' = [page EXCEPT ![tab].form = form]
    /\ kept' = [kept EXCEPT !.tabstyle = form]
    /\ Touch(tab, "form")
    /\ UNCHANGED <<session, previous>>

-----------------------------------------------------------------------------
(* One tab shows a page. Another program of the origin may have stored a   *)
(* theme of its own before the first page of the administration.           *)
Init ==
    /\ session = [tab \in Tabs |-> [filter |-> Empty, filters |-> [filter \in Filters |-> "unset"]]]
    /\ \E view \in Lists \cup {"api"} :
          /\ kept \in [theme : IF view = "api" THEN {"unset", "other"} ELSE {"auto"},
                       sidebar : {"unset"}, tabstyle : {"unset"}]
          /\ page = [tab \in Tabs |-> IF tab = First THEN Rendered(view, session[tab]) ELSE Closed]
          /\ current = [tab \in Tabs |-> IF tab = First THEN AspectsOf(view) ELSE {}]
    /\ previous = [tab \in Tabs |-> Closed]
    /\ acts = 0

Next ==
    \E tab \in Tabs :
        \/ \E view \in Lists \cup {"api"} : Load(tab, view)
        \/ \E opener \in Tabs, view \in Lists \cup {"api"} : OpenTab(opener, tab, view)
        \/ Back(tab)
        \/ CycleTheme(tab) \/ ToggleNavSidebar(tab)
        \/ \E text \in Texts : Type(tab, text)
        \/ Escape(tab)
        \/ \E filter \in Filters : ToggleFilter(tab, filter)
        \/ \E form \in Forms : ClickForm(tab, form)

Spec == Init /\ [][Next]_vars

-----------------------------------------------------------------------------
(* What a page shows is what it would show if it were loaded again, as     *)
(* long as no other page has changed it since: the class of the page, the  *)
(* attribute and the variable of the sidebar, the rows and the filters go  *)
(* together with what is stored, whatever was read from where. And in      *)
(* every page, however old, the page makes room for the sidebar exactly if *)
(* the sidebar is there.                                                   *)
Shown(p, aspect) ==
    CASE aspect = "theme"   -> p.theme
      [] aspect = "sidebar" -> p.isOpen
      [] aspect = "quick"   -> <<p.quick.shown, p.quick.none>>
      [] aspect = "filters" -> p.open
      [] aspect = "form"    -> p.form
ShowsWhatIsKept ==
    /\ \A tab \in Tabs : \A aspect \in current[tab] :
          Shown(page[tab], aspect) = Shown(Rendered(page[tab].view, session[tab]), aspect)
    /\ \A tab \in Admin : page[tab].shifted <=> page[tab].isOpen = "true"
=============================================================================
