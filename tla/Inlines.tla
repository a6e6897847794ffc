------------------------------ MODULE Inlines -------------------------------
(***************************************************************************)
(* Forms inside a form, for the objects that belong to the one edited:     *)
(* admin/js/inlines.js, where forms are added and removed in the page. The *)
(* server finds the fields of form i by the number i in their names, for i *)
(* below TOTAL_FORMS, and takes the first INITIAL_FORMS for those it has   *)
(* stored. No page of this deployment has such forms.                      *)
(***************************************************************************)
EXTENDS Integers, Sequences

CONSTANTS
    Layouts,     (* what the server may show: [stacked, original, extra,    *)
                 (* min, max], with max = NoLimit for none                  *)
    MaxForms,    (* bound: forms that are in the page                       *)
    MaxSubmits   (* bound: times the server shows the page again            *)

VARIABLES
    layout,      (* of the page; original: INITIAL_FORMS                    *)
    rows,        (* the forms, without the template behind them:            *)
                 (* [id, names: the numbers in them, original, label,       *)
                 (*  errors: a row of errors before it]                     *)
    totalForms,  (* the hidden field TOTAL_FORMS                            *)
    nextIndex,
    addShown, deleteShown,   (* the buttons                                 *)
    phase,       (* "loading", "open"                                       *)
    submits      (* counter                                                 *)

vars == <<layout, rows, totalForms, nextIndex, addShown, deleteShown, phase, submits>>

NoLimit == -1
NoPage == [stacked |-> FALSE, original |-> 0, extra |-> 0, min |-> 0, max |-> 0]

Init ==
    /\ layout = NoPage /\ rows = <<>> /\ totalForms = 0 /\ nextIndex = 0
    /\ addShown = FALSE /\ deleteShown = FALSE
    /\ phase = "loading" /\ submits = 0

-----------------------------------------------------------------------------
(* The server: as many forms as it has objects, the least number and the   *)
(* extra ones, up to the limit. A page that was refused has its forms      *)
(* again, and errors before some.                                          *)

Larger(m, n) == IF m > n THEN m ELSE n
TotalFormCount(l) ==
    LET total == Larger(l.original, l.min) + l.extra
    IN  IF l.max = NoLimit \/ total <= l.max THEN total ELSE Larger(l.original, l.max)

Rendered(l, count, errors) ==
    [k \in 1..count |-> [id |-> k - 1, names |-> k - 1, original |-> k <= l.original,
                         label |-> k, errors |-> k \in errors]]

-----------------------------------------------------------------------------

AddButtonShown(total) == layout'.max = NoLimit \/ layout'.max > total
(* toggleDeleteButtonVisibility. *)
DeleteButtonsShown(total) == layout'.min < total

(* formset: the page is there with these forms. Its counters are what the  *)
(* server says, as the browser restores neither (autocomplete="off").      *)
FormsetWith(l, forms, total) ==
    /\ phase = "loading" /\ phase' = "open"
    /\ layout' = l /\ rows' = forms
    /\ totalForms' = total /\ nextIndex' = total
    /\ addShown' = AddButtonShown(total)
    /\ deleteShown' = DeleteButtonsShown(total)
    /\ UNCHANGED submits

(* Mutant: the counters are restored by the browser. *)
FormsetRestored(l, forms) == FormsetWith(l, forms, Larger(totalForms, Len(forms)))
Formset(l, forms) == FormsetWith(l, forms, Len(forms))

Load ==
    \/ /\ rows = <<>> \/ submits > 0     (* first, or left and opened again *)
       /\ \E l \in Layouts : Formset(l, Rendered(l, TotalFormCount(l), {}))
    \/ /\ rows # <<>>                    (* refused *)
       /\ \E errors \in SUBSET (1..totalForms) :
              Formset(layout, Rendered(layout, totalForms, errors))

(* updateInlineLabel, of stacked forms. *)
Labelled(forms) ==
    [k \in DOMAIN forms |-> [forms[k] EXCEPT !.label = IF layout.stacked THEN k ELSE @]]

(* addInlineClickHandler: the row has its id from one counter, its fields  *)
(* have their names from the other.                                        *)
AddInline ==
    /\ phase = "open" /\ addShown /\ totalForms < MaxForms
    /\ UNCHANGED <<layout, phase, submits>>
    /\ rows' = Labelled(Append(rows,
           [id |-> nextIndex, names |-> totalForms, original |-> FALSE,
            label |-> 0, errors |-> FALSE]))
    /\ totalForms' = totalForms + 1
    /\ nextIndex' = nextIndex + 1
    /\ addShown' = AddButtonShown(totalForms')
    /\ deleteShown' = DeleteButtonsShown(totalForms')

Without(k) == SubSeq(rows, 1, k - 1) \o SubSeq(rows, k + 1, Len(rows))

(* updateElementIndex, of all that are left. *)
Renumbered(forms) ==
    [k \in DOMAIN forms |-> [forms[k] EXCEPT !.id = k - 1, !.names = k - 1]]

(* inlineDeleteHandler: a form that is not stored is taken out, with the   *)
(* errors before it.                                                       *)
DeleteInline(k) ==
    /\ phase = "open" /\ deleteShown
    /\ k \in DOMAIN rows /\ ~rows[k].original
    /\ UNCHANGED <<layout, phase, submits>>
    /\ rows' = Renumbered(Labelled(Without(k)))
    /\ totalForms' = Len(rows')
    /\ nextIndex' = nextIndex - 1
    /\ addShown' = (addShown \/ AddButtonShown(totalForms'))
    /\ deleteShown' = DeleteButtonsShown(totalForms')

(* The form is sent, and the server will show a page. *)
Submit ==
    /\ phase = "open" /\ submits < MaxSubmits
    /\ phase' = "loading" /\ submits' = submits + 1
    /\ UNCHANGED <<layout, rows, totalForms, nextIndex, addShown, deleteShown>>

Next == Load \/ AddInline \/ Submit \/ \E k \in DOMAIN rows : DeleteInline(k)

Spec == Init /\ [][Next]_vars

-----------------------------------------------------------------------------

TypeOK ==
    /\ layout \in Layouts \cup {NoPage}
    /\ rows \in Seq([id : Nat, names : Nat, original : BOOLEAN, label : Nat,
                     errors : BOOLEAN])
    /\ {totalForms, nextIndex} \subseteq Nat /\ {addShown, deleteShown} \subseteq BOOLEAN
    /\ phase \in {"loading", "open"} /\ submits \in 0..MaxSubmits

(* Whatever was added, removed, refused and loaded anew, the server finds  *)
(* every form in the page, and each once: they are numbered from 0 in      *)
(* order, the stored ones first, and TOTAL_FORMS is their number. One can  *)
(* be added only below the limit and removed only above the least number.  *)
ServerFindsEveryForm ==
    /\ totalForms = Len(rows) /\ nextIndex = totalForms
    /\ \A k \in DOMAIN rows :
           /\ rows[k].id = k - 1 /\ rows[k].names = k - 1
           /\ rows[k].original <=> k <= layout.original
           /\ layout.stacked => rows[k].label = k
    /\ phase = "open" =>
           /\ addShown <=> (layout.max = NoLimit \/ totalForms < layout.max)
           /\ deleteShown <=> totalForms > layout.min
=============================================================================
