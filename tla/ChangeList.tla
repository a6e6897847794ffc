----------------------------- MODULE ChangeList -----------------------------
(***************************************************************************)
(* The list of rows in the administration pages the waitlist is managed    *)
(* with, and the action that is run on the rows ticked: admin/js/actions.js*)
(* of the Django version in backend/staticfiles. The table has more rows   *)
(* than the page; "select all" asks whether those are meant too and says   *)
(* so to the server in a hidden field, select_across.                      *)
(***************************************************************************)
EXTENDS Integers, FiniteSets

CONSTANTS
    Rows,        (* rows on the page: 1..Rows                               *)
    Count        (* rows of the table, data-actions-icnt                    *)

VARIABLE list    (* the page: its widgets, and the variables of Actions     *)

Boxes == 1..Rows
Spans == {"counter", "question", "clear", "all"}

(* The page as the server sends it: everything but the counter is hidden.  *)
Init ==
    list = [checked |-> {}, toggle |-> FALSE, across |-> 0, visible |-> {"counter"},
            counted |-> 0,                        (* what the counter says  *)
            lastChecked |-> 0, shiftPressed |-> FALSE,
            edited |-> FALSE,                     (* list_editable_changed  *)
            phase |-> "loading",                  (* "open", "left"         *)
            restored |-> FALSE]                   (* history: came back     *)

-----------------------------------------------------------------------------
(* What the functions of the script do to the page l.                      *)

ShowQuestion(l) ==
    [l EXCEPT !.visible = (@ \ {"clear", "all"}) \cup {"question"}]
ShowClear(l) ==
    [l EXCEPT !.visible = (@ \ {"question", "counter"}) \cup {"clear", "all"}]
Reset(l) ==
    [l EXCEPT !.visible = (@ \ {"clear", "question", "all"}) \cup {"counter"}]
ClearAcross(l) == [Reset(l) EXCEPT !.across = 0]

Checker(l, boxes, checked) ==
    LET shown == IF checked THEN ShowQuestion(l) ELSE Reset(l)
    IN  [shown EXCEPT !.checked = IF checked THEN @ \cup boxes ELSE @ \ boxes]

(* The counter, and the box that ticks all of the page, follow the boxes.  *)
Counted(l) == [l EXCEPT !.counted = Cardinality(l.checked),
                        !.toggle = l.checked = Boxes]
(* Mutant: what is hidden is hidden, but the hidden field stays. *)
UpdateCounterHiding(l) ==
    IF Counted(l).toggle THEN ShowQuestion(Counted(l)) ELSE Reset(Counted(l))
UpdateCounter(l) ==
    IF Counted(l).toggle THEN ShowQuestion(Counted(l)) ELSE ClearAcross(Counted(l))

(* With shift, the boxes from the last one changed to this one.            *)
AffectedCheckboxes(target) ==
    IF list.lastChecked # 0 /\ list.shiftPressed
    THEN {box \in Boxes : \/ target <= box /\ box <= list.lastChecked
                          \/ list.lastChecked <= box /\ box <= target}
    ELSE {target}

-----------------------------------------------------------------------------

Open == list.phase = "open"

(* The document is parsed, and pageshow follows. When the page is loaded   *)
(* anew the browser may tick the boxes that were ticked.                   *)
Load ==
    /\ list.phase = "loading"
    /\ \E ticked \in SUBSET Boxes :
           list' = UpdateCounter([list EXCEPT !.phase = "open", !.checked = ticked])

PressShift ==
    /\ Open
    /\ list' = [list EXCEPT !.shiftPressed = ~@]

(* The box of the table's head.                                            *)
ClickToggle ==
    /\ Open
    /\ list' = UpdateCounter(Checker(list, Boxes, ~list.toggle))

(* A row's box: the browser has changed it when the script hears of it.    *)
ClickBox(target) ==
    /\ Open
    /\ LET checked == target \notin list.checked
           after == UpdateCounter(Checker(list, AffectedCheckboxes(target), checked))
       IN  list' = [after EXCEPT !.lastChecked = target]

(* "Select all ... rows": also those that are on other pages.              *)
AnswerQuestion ==
    /\ Open /\ "question" \in list.visible
    /\ list' = ShowClear([list EXCEPT !.across = 1])

(* "Clear selection".                                                      *)
ClickClear ==
    /\ Open /\ "clear" \in list.visible
    /\ list' = UpdateCounter(
           Checker(ClearAcross([list EXCEPT !.toggle = FALSE]), Boxes, FALSE))

(* Another field of a row was changed: list_editable.                      *)
EditField ==
    /\ Open
    /\ list' = [list EXCEPT !.edited = TRUE]

(* What the server runs an action on: the queryset, or the rows ticked.    *)
Selected(l) == IF l.across = 1 THEN Count ELSE Cardinality(l.checked)

(* "Go" or "Save". Each asks when changes to rows, or an action that was   *)
(* chosen, would be lost; a No prevents it, and nothing changes.           *)
Submit ==
    /\ Open
    /\ list' = [list EXCEPT !.phase = "left"]

(* Back: the browser shows the page as it was left, with its variables,    *)
(* and pageshow synchronises the counter.                                  *)
PageShow ==
    /\ list.phase = "left"
    /\ list' = UpdateCounter([list EXCEPT !.phase = "open", !.restored = TRUE])

Next ==
    \/ Load \/ PressShift \/ ClickToggle \/ AnswerQuestion \/ ClickClear
    \/ EditField \/ Submit \/ PageShow
    \/ \E target \in Boxes : ClickBox(target)

Spec == Init /\ [][Next]_list

-----------------------------------------------------------------------------

TypeOK ==
    list \in [checked : SUBSET Boxes, toggle : BOOLEAN, across : {0, 1},
              visible : SUBSET Spans, counted : 0..Rows, lastChecked : 0..Rows,
              shiftPressed : BOOLEAN, edited : BOOLEAN,
              phase : {"loading", "open", "left"},
              restored : BOOLEAN]

(* The number of rows the page names: "all ... selected", or the counter.  *)
Named(l) == IF "all" \in l.visible THEN Count ELSE l.counted

(* An action runs on as many rows as the page says are selected, and on    *)
(* rows nobody sees only when all that are seen are ticked. It is not so   *)
(* on a page the browser has kept and shows again: there pageshow hides    *)
(* "all ... selected" and leaves select_across as it was.                  *)
RunsOnWhatItNames ==
    list.phase # "loading" /\ ~list.restored =>
        /\ Selected(list) = Named(list)
        /\ list.across = 1 => list.checked = Boxes
        /\ list.toggle <=> list.checked = Boxes
=============================================================================
