------------------------------- MODULE Popups -------------------------------
(***************************************************************************)
(* The windows in which the administration adds, changes and deletes what  *)
(* a field of a form refers to: admin/js/admin/RelatedObjectLookups.js,    *)
(* and popup_response.js, the page that hands the answer to the form and   *)
(* is then closed. A form in such a window opens further ones; when a page *)
(* goes, it closes the windows it has opened.                              *)
(*                                                                         *)
(* The fields are selects, and all refer to one model; the lookup windows  *)
(* of raw identifiers are left out, and a field with two lists is in       *)
(* Chooser. The browser finds a window by its name: opening a name that is *)
(* open navigates that window. A window is therefore its name here, and    *)
(* Gone in the place of one that was closed, which the scripts pass over.  *)
(***************************************************************************)
EXTENDS Integers, Sequences, SequencesExt

CONSTANTS
    Fields,      (* the fields of each form                                 *)
    Depth,       (* bound: windows above each other                         *)
    MaxObjects,  (* bound: objects ever created                             *)
    MaxOpened    (* bound: times a window is opened                         *)

VARIABLES
    win,         (* each window: [stage, opener, kind, object]              *)
    related,     (* each page: relatedWindows, in order of opening          *)
    form,        (* each page with a form, each field: [offers, chosen, link] *)
    objects, created,   (* the server: what exists, how many ever did       *)
    opened,      (* counter                                                 *)
    cut          (* history: a loop over relatedWindows ended in an error   *)

vars == <<win, related, form, objects, created, opened, cut>>

Main == <<"main", 0>>
Names == Fields \X (1..Depth)          (* field__index *)
Gone == <<"closed", 0>>
Pages == {Main} \cup Names
Kinds == {"add", "change", "delete"}
Closed == [stage |-> "closed", opener |-> Main, kind |-> "add", object |-> 0]

IsOpen(p) == win[p].stage # "closed"
HasScript(p) == win[p].stage = "form"  (* its document runs the script     *)

Blank(offered) == [f \in Fields |-> [offers |-> offered, chosen |-> 0, link |-> 0]]

Init ==
    /\ objects = {1} /\ created = 1 /\ opened = 0 /\ cut = FALSE
    /\ win = [p \in Pages |-> IF p = Main THEN [Closed EXCEPT !.stage = "form"]
                              ELSE Closed]
    /\ related = [p \in Pages |-> <<>>]
    /\ form = [p \in Pages |-> Blank(IF p = Main THEN objects ELSE {})]

-----------------------------------------------------------------------------
(* dismissChildPopups: of each window in turn the children, and the window.*)
(* A window whose document has not run the script, or is the response, has *)
(* no such function: the error ends the loop, and the loops that called    *)
(* it. [gone: the windows that are closed; fails: it ended so]             *)
DismissChildPopups[p \in Pages] ==
    LET list == related[p]
        here == {i \in DOMAIN list : list[i] # Gone}
        Stops(i) == ~HasScript(list[i]) \/ DismissChildPopups[list[i]].fails
        reached == {i \in here : HasScript(list[i]) /\ \A j \in here : j < i => ~Stops(j)}
    IN  [gone |-> (UNION {DismissChildPopups[list[i]].gone : i \in reached})
                  \cup {list[i] : i \in {j \in reached : ~Stops(j)}},
         fails |-> \E i \in here : Stops(i)]

(* The list when windows have closed. *)
Unlisted(list, closed) ==
    [i \in DOMAIN list |-> IF list[i] \in closed THEN Gone ELSE list[i]]

(* The document of p goes, and p becomes what after says: the listener of  *)
(* unload runs, if the document has one. fields and lists are what form    *)
(* and related are when it does.                                           *)
Unload(p, after, fields, lists) ==
    LET loop == IF HasScript(p) THEN DismissChildPopups[p]
                ELSE [gone |-> {}, fails |-> FALSE]
        new == loop.gone \cup {p}     (* these have no document *)
        closed == IF after.stage = "closed" THEN new ELSE loop.gone
    IN  /\ win' = [q \in Pages |-> IF q = p THEN after
                                   ELSE IF q \in loop.gone THEN Closed ELSE win[q]]
        /\ related' = [q \in Pages |-> IF q \in new THEN <<>> ELSE Unlisted(lists[q], closed)]
        /\ form' = [q \in Pages |-> IF q \in new THEN Blank({}) ELSE fields[q]]
        /\ cut' = (cut \/ loop.fails)

-----------------------------------------------------------------------------

(* Mutant: no setPopupIndex, so that each document counts from 0. *)
SetPopupIndexNever(p) == 0
(* setPopupIndex: from the name of the window, and 0 when it is no popup.  *)
SetPopupIndex(p) == p[2]

AddPopupIndex(p, f) == <<f, SetPopupIndex(p) + 1>>
RemovePopupIndex(n) == n[1]

(* A link of field f: to the form that adds an object, or to those of the  *)
(* object chosen. The window of that name, if open, is navigated and has a *)
(* new opener; its document goes.                                          *)
ShowAdminPopup(p, f, kind) ==
    LET name == AddPopupIndex(p, f)
        object == IF kind = "add" THEN 0 ELSE form[p][f].link
        list == IF Contains(related[p], name) THEN related[p]
                ELSE Append(related[p], name)
    IN  /\ HasScript(p) /\ SetPopupIndex(p) < Depth
        /\ opened < MaxOpened /\ opened' = opened + 1
        /\ kind # "add" => object # 0
        /\ Unload(name,
                  [stage |-> "loading", opener |-> p, kind |-> kind, object |-> object],
                  form, [related EXCEPT ![p] = list])
        /\ UNCHANGED <<objects, created>>

(* A document has come, and runs the script. *)
Load(p) ==
    /\ win[p].stage = "loading"
    /\ win' = [win EXCEPT ![p].stage = "form"]
    /\ form' = [form EXCEPT ![p] = Blank(objects)]
    /\ UNCHANGED <<related, objects, created, opened, cut>>

(* change: updateRelatedObjectLinks gives the links the object chosen.     *)
(* Bound: the user chooses in the page only, and adds in the windows.      *)
Choose(p, f, object) ==
    /\ HasScript(p) /\ p = Main
    /\ object \in (form[p][f].offers \cup {0}) \ {form[p][f].chosen}
    /\ form' = [form EXCEPT ![p][f].chosen = object, ![p][f].link = object]
    /\ UNCHANGED <<win, related, objects, created, opened, cut>>

(* The form in a window is sent. The server does what it asks and answers  *)
(* with the response, or shows the form again.                             *)
Save(n) ==
    /\ HasScript(n)
    /\ \/ /\ win[n].kind = "add" /\ created < MaxObjects
          /\ created' = created + 1 /\ objects' = objects \cup {created'}
          /\ Unload(n, [win[n] EXCEPT !.stage = "response", !.object = created'],
                    form, related)
       \/ /\ win[n].kind # "add" /\ win[n].object \in objects
          /\ objects' = IF win[n].kind = "delete" THEN objects \ {win[n].object}
                        ELSE objects
          /\ Unload(n, [win[n] EXCEPT !.stage = "response"], form, related)
          /\ UNCHANGED created
       \/ /\ Unload(n, [win[n] EXCEPT !.stage = "loading"], form, related)
          /\ UNCHANGED <<objects, created>>
    /\ UNCHANGED opened

-----------------------------------------------------------------------------
(* What the answer of a window does to the fields g of its opener, f being *)
(* the one that asked.                                                     *)

(* updateRelatedSelectsOptions: the other fields offer the object too.     *)
UpdateRelatedSelectsOptions(fields, f, object) ==
    [g \in Fields |-> IF g = f THEN fields[g]
                      ELSE [fields[g] EXCEPT !.offers = @ \cup {object}]]

(* Mutant: the change event is not triggered. *)
AddedQuietly(fields, f, object) ==
    [fields[f] EXCEPT !.offers = @ \cup {object}, !.chosen = object]
Added(fields, f, object) ==
    [offers |-> fields[f].offers \cup {object}, chosen |-> object, link |-> object]

DismissAdd(fields, f, object) ==
    UpdateRelatedSelectsOptions(
        [fields EXCEPT ![f] = Added(fields, f, object)], f, object)

DismissChange(fields, f, object) ==
    UpdateRelatedSelectsOptions(
        [fields EXCEPT ![f].link = fields[f].chosen], f, object)

(* Only the field that asked loses the object. *)
DismissDelete(fields, f, object) ==
    LET left == IF fields[f].chosen = object THEN 0 ELSE fields[f].chosen
    IN  [fields EXCEPT ![f] = [offers |-> fields[f].offers \ {object},
                               chosen |-> left, link |-> left]]

(* popup_response.js. The opener may be a document without the script, or  *)
(* be closed; then the call fails and the window stays as it is.           *)
Respond(n) ==
    LET p == win[n].opener
        f == RemovePopupIndex(n)
        object == win[n].object
    IN  /\ win[n].stage = "response" /\ HasScript(p)
        /\ Unload(n, Closed, [form EXCEPT ![p] =
               CASE win[n].kind = "add"    -> DismissAdd(@, f, object)
                 [] win[n].kind = "change" -> DismissChange(@, f, object)
                 [] win[n].kind = "delete" -> DismissDelete(@, f, object)], related)
        /\ UNCHANGED <<objects, created, opened>>

(* The user closes a window, ... *)
CloseWindow(n) ==
    /\ IsOpen(n)
    /\ Unload(n, Closed, form, related)
    /\ UNCHANGED <<objects, created, opened>>

(* ... or saves, reloads or leaves the page itself. *)
LeaveMain ==
    /\ HasScript(Main)
    /\ Unload(Main, [win[Main] EXCEPT !.stage = "loading"], form, related)
    /\ UNCHANGED <<objects, created, opened>>

Next ==
    \/ LeaveMain
    \/ \E n \in Names : Save(n) \/ Respond(n) \/ CloseWindow(n)
    \/ \E p \in Pages :
           \/ Load(p)
           \/ \E f \in Fields :
                  \/ \E kind \in Kinds : ShowAdminPopup(p, f, kind)
                  \/ \E object \in 0..MaxObjects : Choose(p, f, object)

Spec == Init /\ [][Next]_vars

-----------------------------------------------------------------------------

TypeOK ==
    /\ win \in [Pages -> [stage : {"closed", "loading", "form", "response"},
                          opener : Pages, kind : Kinds, object : 0..MaxObjects]]
    /\ related \in [Pages -> Seq(Names \cup {Gone})]
    /\ form \in [Pages -> [Fields -> [offers : SUBSET (1..MaxObjects),
                                      chosen : 0..MaxObjects, link : 0..MaxObjects]]]
    /\ objects \subseteq 1..created /\ created \in 1..MaxObjects /\ opened \in 0..MaxOpened /\ cut \in BOOLEAN

(* Behind each window is the form it was opened from, the same document,   *)
(* which waits for its answer: no window outlives its form, and none is    *)
(* opened in the place of a form below it. It is not so once a form went   *)
(* while one of the windows above it was loading or answering.             *)
HasItsOpener ==
    \A n \in Names : IsOpen(n) /\ ~cut =>
        /\ win[n].opener[2] < n[2] /\ HasScript(win[n].opener)
        /\ Contains(related[win[n].opener], n)

(* The links beside a field open the object that is chosen in it, and it   *)
(* is one the field offers, also after objects were added, changed and     *)
(* deleted in windows.                                                     *)
LinksOpenTheChosen ==
    \A p \in Pages, f \in Fields :
        /\ form[p][f].link = form[p][f].chosen
        /\ form[p][f].chosen \in form[p][f].offers \cup {0}
=============================================================================
