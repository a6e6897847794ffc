---------------------------- MODULE ScriptProofs ----------------------------
(***************************************************************************)
(* What holds of the scripts of the administration, whatever the rows, the *)
(* options, the forms, the windows and the tabs are and how many of them   *)
(* there are. Each script has variables of its own.                        *)
(***************************************************************************)
EXTENDS WaitlistProofs, Sequences, FiniteSetTheorems, SequenceTheorems, WellFoundedInduction, TLAPS

-----------------------------------------------------------------------------
(* The list with its actions.                                              *)

(* ChangeList and this module count the members of a set alike.            *)
LEMMA SameCount == \A S : Actions!Cardinality(S) = Cardinality(S)
  BY DEF Actions!Cardinality, Cardinality

ListType ==
    [checked : SUBSET Actions!Boxes, toggle : BOOLEAN, across : {0, 1},
     visible : SUBSET Actions!Spans, counted : 0..Rows, lastChecked : 0..Rows,
     shiftPressed : BOOLEAN, edited : BOOLEAN,
     phase : {"loading", "open", "left"}, restored : BOOLEAN]

(* The question is on the page only while every box of it is ticked, so    *)
(* that a Yes, until the next click on a box, is about all of them.        *)
AsksAboutAll(l) ==
    /\ l.counted = Cardinality(l.checked)
    /\ l.toggle <=> l.checked = Actions!Boxes
    /\ "question" \in l.visible => l.checked = Actions!Boxes
    /\ "all" \in l.visible <=> l.across = 1
    /\ l.across = 1 => l.checked = Actions!Boxes

ListInv ==
    /\ changes \in ListType
    /\ changes.phase = "loading" => "all" \notin changes.visible /\ changes.across = 0 /\ ~changes.restored
    /\ changes.phase # "loading" /\ ~changes.restored => AsksAboutAll(changes)

LEMMA BoxesAreFinite ==
    ASSUME NEW boxes \in SUBSET Actions!Boxes
    PROVE  Cardinality(boxes) \in 0..Rows
  <1>1. IsFiniteSet(1..Rows) /\ Cardinality(1..Rows) = Rows
    BY FS_Interval, SomeRows
  <1>2. Cardinality(boxes) <= Rows /\ IsFiniteSet(boxes)
    BY <1>1, FS_Subset DEF Actions!Boxes
  <1> QED  BY <1>2, FS_CardinalityType

(* updateCounter leaves neither of the texts it has no reason for.         *)
LEMMA Counts ==
    ASSUME NEW l \in ListType
    PROVE  LET m == Actions!UpdateCounter(l)
           IN  /\ m \in ListType /\ m.checked = l.checked
               /\ m.counted = Cardinality(m.checked)
               /\ m.toggle <=> m.checked = Actions!Boxes
               /\ "question" \in m.visible => m.checked = Actions!Boxes
               /\ "all" \notin m.visible
               /\ m.across = IF m.checked = Actions!Boxes THEN l.across ELSE 0
               /\ m.phase = l.phase /\ m.restored = l.restored
  <1> DEFINE c == Actions!Counted(l)
  <1>1. /\ c \in ListType /\ c.checked = l.checked /\ c.counted = Cardinality(l.checked)
        /\ c.toggle <=> l.checked = Actions!Boxes
        /\ c.visible = l.visible /\ c.across = l.across /\ c.phase = l.phase
        /\ c.restored = l.restored
    <2>1. Cardinality(l.checked) \in 0..Rows
      BY BoxesAreFinite DEF ListType
    <2> DEFINE b == (l.checked = Actions!Boxes)
    <2>2. b \in BOOLEAN
      OBVIOUS
    <2>3. c = [[l EXCEPT !.counted = Cardinality(l.checked)] EXCEPT !.toggle = b]
      BY SameCount DEF Actions!Counted
    <2> HIDE DEF b, c
    <2>4. /\ c \in ListType /\ c.checked = l.checked /\ c.counted = Cardinality(l.checked)
          /\ c.toggle = b
          /\ c.visible = l.visible /\ c.across = l.across /\ c.phase = l.phase
          /\ c.restored = l.restored
      BY <2>1, <2>2, <2>3 DEF ListType
    <2>5. b <=> l.checked = Actions!Boxes
      BY DEF b
    <2> QED  BY <2>4, <2>5
  <1> HIDE DEF c
  <1>3. CASE c.toggle
    <2>1. Actions!UpdateCounter(l) = Actions!ShowQuestion(c)
      BY <1>3 DEF Actions!UpdateCounter, c
    <2> DEFINE v == (c.visible \ {"clear", "all"}) \cup {"question"}
    <2>2. Actions!ShowQuestion(c) = [c EXCEPT !.visible = v]
      BY DEF Actions!ShowQuestion
    <2>3. v \in SUBSET Actions!Spans /\ "all" \notin v
      BY <1>1 DEF ListType, Actions!Spans
    <2> HIDE DEF v
    <2>4. [c EXCEPT !.visible = v] \in ListType
      BY <1>1, <2>3 DEF ListType
    <2> DEFINE m == [c EXCEPT !.visible = v]
    <2>6. /\ m.visible = v /\ m.checked = c.checked /\ m.counted = c.counted
          /\ m.toggle = c.toggle /\ m.across = c.across /\ m.phase = c.phase
          /\ m.restored = c.restored
      BY <1>1 DEF ListType
    <2> HIDE DEF m
    <2> QED  BY <1>1, <1>3, <2>1, <2>2, <2>3, <2>4, <2>6
  <1>4. CASE ~c.toggle
    <2>1. Actions!UpdateCounter(l) = [Actions!Reset(c) EXCEPT !.across = 0]
      BY <1>4 DEF Actions!UpdateCounter, Actions!ClearAcross, c
    <2> DEFINE v == (c.visible \ {"clear", "question", "all"}) \cup {"counter"}
    <2>2. Actions!UpdateCounter(l) = [c EXCEPT !.visible = v, !.across = 0]
      BY <1>1, <2>1 DEF Actions!Reset, ListType
    <2>3. v \in SUBSET Actions!Spans /\ "all" \notin v /\ "question" \notin v
      BY <1>1 DEF ListType, Actions!Spans
    <2> HIDE DEF v
    <2>4. [c EXCEPT !.visible = v, !.across = 0] \in ListType
      BY <1>1, <2>3 DEF ListType
    <2> DEFINE m == [c EXCEPT !.visible = v, !.across = 0]
    <2>6. /\ m.visible = v /\ m.checked = c.checked /\ m.counted = c.counted
          /\ m.toggle = c.toggle /\ m.across = 0 /\ m.phase = c.phase
          /\ m.restored = c.restored
      BY <1>1 DEF ListType
    <2> HIDE DEF m
    <2> QED  BY <1>1, <1>4, <2>2, <2>3, <2>4, <2>6
  <1> QED  BY <1>3, <1>4

(* checker ticks or clears the boxes it is given.                          *)
LEMMA Checks ==
    ASSUME NEW l \in ListType, NEW boxes \in SUBSET Actions!Boxes, NEW checked \in BOOLEAN
    PROVE  LET m == Actions!Checker(l, boxes, checked)
           IN  /\ m \in ListType /\ m.across = l.across /\ m.phase = l.phase
               /\ m.restored = l.restored
               /\ m.checked = IF checked THEN l.checked \cup boxes ELSE l.checked \ boxes
  <1>1. Actions!ShowQuestion(l) \in ListType /\ Actions!Reset(l) \in ListType
    BY DEF Actions!ShowQuestion, Actions!Reset, ListType, Actions!Spans
  <1> QED  BY <1>1 DEF Actions!Checker, Actions!ShowQuestion, Actions!Reset, ListType

(* Whatever is ticked afterwards, a Yes is no more in force unless nothing *)
(* was cleared.                                                            *)
LEMMA CountedAfter ==
    ASSUME NEW l \in ListType, l.across = 1 => l.checked # Actions!Boxes
    PROVE  Actions!UpdateCounter(l) \in ListType /\ AsksAboutAll(Actions!UpdateCounter(l))
           /\ Actions!UpdateCounter(l).phase = l.phase
           /\ Actions!UpdateCounter(l).restored = l.restored
  <1> DEFINE m == Actions!UpdateCounter(l)
  <1>1. /\ m \in ListType /\ m.checked = l.checked
        /\ m.counted = Cardinality(m.checked)
        /\ m.toggle <=> m.checked = Actions!Boxes
        /\ "question" \in m.visible => m.checked = Actions!Boxes
        /\ "all" \notin m.visible
        /\ m.across = IF m.checked = Actions!Boxes THEN l.across ELSE 0
        /\ m.phase = l.phase /\ m.restored = l.restored
    BY Counts
  <1> HIDE DEF m
  <1>2. l.across \in {0, 1}
    BY DEF ListType
  <1> QED  BY <1>1, <1>2 DEF AsksAboutAll, m

LEMMA ListStep == ASSUME ListInv, [Actions!Next]_changes PROVE ListInv'
  <1> USE DEF Actions!Open
  <1>0. changes \in ListType
    BY DEF ListInv
  <1>1. CASE Actions!Load
    <2>1. PICK ticked \in SUBSET Actions!Boxes :
            changes' = Actions!UpdateCounter([changes EXCEPT !.phase = "open", !.checked = ticked])
      BY <1>1 DEF Actions!Load
    <2> DEFINE l == [changes EXCEPT !.phase = "open", !.checked = ticked]
    <2>2. l \in ListType /\ l.phase = "open" /\ l.across = 0
      BY <1>0, <1>1 DEF ListType, Actions!Load, ListInv
    <2> HIDE DEF l
    <2>3. changes' \in ListType /\ AsksAboutAll(changes') /\ changes'.phase = "open"
      <3>1. changes' = Actions!UpdateCounter(l)
        BY <2>1 DEF l
      <3> QED  BY <2>2, <3>1, CountedAfter
    <2> QED  BY <2>3 DEF ListInv
  <1>2. CASE Actions!PressShift
    BY <1>0, <1>2 DEF Actions!PressShift, ListInv, ListType, AsksAboutAll
  <1>3. CASE Actions!ClickToggle
    <2> DEFINE l == Actions!Checker(changes, Actions!Boxes, ~changes.toggle)
    <2>1. /\ l \in ListType /\ l.across = changes.across /\ l.phase = changes.phase
          /\ l.restored = changes.restored
          /\ l.checked = IF ~changes.toggle THEN changes.checked \cup Actions!Boxes
                         ELSE changes.checked \ Actions!Boxes
      <3>1. (~changes.toggle) \in BOOLEAN
        OBVIOUS
      <3> QED  BY <1>0, <3>1, Checks
    <2>2. changes' = Actions!UpdateCounter(l)
      BY <1>3 DEF Actions!ClickToggle
    <2> HIDE DEF l
    <2>3. changes'.phase = "open" /\ changes'.restored = changes.restored /\ changes' \in ListType
      BY <1>3, <2>1, <2>2, Counts DEF Actions!ClickToggle
    <2>4. ASSUME ~changes.restored PROVE AsksAboutAll(changes')
      <3>1. l.across = 1 => l.checked # Actions!Boxes
        <4>1. changes.across = 1 => changes.toggle
          BY <1>3, <2>4 DEF Actions!ClickToggle, ListInv, AsksAboutAll
        <4>2. changes.checked \ Actions!Boxes = {} /\ Actions!Boxes # {}
          <5>1. 1 \in Actions!Boxes
            BY SomeRows DEF Actions!Boxes
          <5> QED  BY <1>0, <5>1 DEF ListType
        <4> QED  BY <2>1, <4>1, <4>2
      <3> QED  BY <2>1, <2>2, <3>1, CountedAfter
    <2> QED  BY <2>3, <2>4 DEF ListInv
  <1>4. CASE Actions!AnswerQuestion
    BY <1>0, <1>4 DEF Actions!AnswerQuestion, Actions!ShowClear, ListInv, ListType, AsksAboutAll,
                      Actions!Spans
  <1>5. CASE Actions!ClickClear
    <2> DEFINE k == Actions!ClearAcross([changes EXCEPT !.toggle = FALSE])
               l == Actions!Checker(k, Actions!Boxes, FALSE)
    <2>1. k \in ListType /\ k.across = 0 /\ k.phase = changes.phase /\ k.restored = changes.restored
      BY <1>0 DEF Actions!ClearAcross, Actions!Reset, ListType, Actions!Spans
    <2> HIDE DEF k
    <2>2. l \in ListType /\ l.across = 0 /\ l.phase = changes.phase /\ l.restored = changes.restored
      BY <2>1, Checks
    <2>3. changes' = Actions!UpdateCounter(l)
      BY <1>5 DEF Actions!ClickClear, k
    <2> HIDE DEF l
    <2>4. /\ changes' \in ListType /\ AsksAboutAll(changes') /\ changes'.phase = changes.phase
          /\ changes'.restored = changes.restored
      BY <2>2, <2>3, CountedAfter
    <2> QED  BY <1>5, <2>4 DEF ListInv, Actions!ClickClear
  <1>6. CASE Actions!EditField
    BY <1>0, <1>6 DEF Actions!EditField, ListInv, ListType, AsksAboutAll
  <1>7. CASE Actions!Submit
    BY <1>0, <1>7 DEF Actions!Submit, ListInv, ListType, AsksAboutAll
  <1>8. CASE Actions!PageShow
    <2> DEFINE l == [changes EXCEPT !.phase = "open", !.restored = TRUE]
    <2>1. l \in ListType /\ l.restored /\ l.phase = "open"
      BY <1>0 DEF ListType
    <2>2. changes' = Actions!UpdateCounter(l)
      BY <1>8 DEF Actions!PageShow
    <2> HIDE DEF l
    <2>3. changes' \in ListType /\ changes'.restored /\ changes'.phase = "open"
      BY <2>1, <2>2, Counts
    <2> QED  BY <2>3 DEF ListInv
  <1>9. ASSUME NEW target \in Actions!Boxes, Actions!ClickBox(target) PROVE ListInv'
    <2> DEFINE affected == Actions!AffectedCheckboxes(target)
               checked == target \notin changes.checked
               l == Actions!Checker(changes, affected, checked)
    <2>1. affected \in SUBSET Actions!Boxes /\ target \in affected
      BY <1>0, SomeRows DEF Actions!AffectedCheckboxes, Actions!Boxes, ListType
    <2>2. checked \in BOOLEAN
      OBVIOUS
    <2> HIDE DEF affected
    <2>3. /\ l \in ListType /\ l.across = changes.across /\ l.phase = changes.phase
          /\ l.restored = changes.restored
          /\ l.checked = IF checked THEN changes.checked \cup affected ELSE changes.checked \ affected
      BY <1>0, <2>1, <2>2, Checks
    <2> DEFINE m == Actions!UpdateCounter(l)
    <2>4. changes' = [m EXCEPT !.lastChecked = target]
      BY <1>9 DEF Actions!ClickBox, affected
    <2> HIDE DEF l
    <2>5. m \in ListType /\ m.phase = changes.phase /\ m.restored = changes.restored
      BY <2>3, Counts
    <2>6. ASSUME ~changes.restored PROVE AsksAboutAll(m)
      <3>1. changes.across = 1 => changes.checked = Actions!Boxes
        BY <1>9, <2>6 DEF Actions!ClickBox, ListInv, AsksAboutAll
      <3>2. l.across = 1 => l.checked # Actions!Boxes
        BY <2>1, <2>3, <3>1
      <3> QED  BY <2>3, <3>2, CountedAfter
    <2> HIDE DEF m
    <2>7. /\ changes' \in ListType /\ changes'.phase = m.phase /\ changes'.restored = m.restored
          /\ AsksAboutAll(m) => AsksAboutAll(changes')
      <3>1. target \in 0..Rows
        BY SomeRows DEF Actions!Boxes
      <3> QED  BY <2>4, <2>5, <3>1 DEF ListType, AsksAboutAll
    <2> QED  BY <1>9, <2>5, <2>6, <2>7 DEF ListInv, Actions!ClickBox
  <1>10. CASE UNCHANGED changes
    BY <1>10 DEF ListInv, AsksAboutAll
  <1> QED
    BY <1>1, <1>2, <1>3, <1>4, <1>5, <1>6, <1>7, <1>8, <1>9, <1>10 DEF Actions!Next

(* The page as it is sent: nothing is ticked.                              *)
LEMMA ListInit == Actions!Init => ListInv
  <1>1. 0 \in 0..Rows
    BY SomeRows
  <1> QED  BY <1>1 DEF Actions!Init, ListInv, ListType, Actions!Spans

(* RunsOnWhatItNames: for any number of rows on the page and in the table, *)
(* an action of actions.js runs on as many rows as the page names, and on  *)
(* rows of other pages only when all of this one are ticked.               *)
THEOREM NamesWhatItRunsOn == Actions!Spec => [](Actions!TypeOK /\ RunsOnWhatItNames)
  <1>1. Actions!Init => ListInv
    BY ListInit
  <1>2. ListInv /\ [Actions!Next]_changes => ListInv'
    BY ListStep
  <1>3. ListInv => Actions!TypeOK /\ RunsOnWhatItNames
    <2>0. ListInv => Actions!TypeOK
      BY DEF ListInv, ListType, Actions!TypeOK
    <2> SUFFICES ASSUME ListInv, changes.phase # "loading", ~changes.restored
                 PROVE  /\ Actions!Selected(changes) = Actions!Named(changes)
                        /\ changes.across = 1 => changes.checked = Actions!Boxes
                        /\ changes.toggle <=> changes.checked = Actions!Boxes
      BY <2>0 DEF RunsOnWhatItNames, Actions!RunsOnWhatItNames
    <2>1. AsksAboutAll(changes) /\ changes.across \in {0, 1}
      BY DEF ListInv, ListType
    <2>2. "all" \in changes.visible <=> changes.across = 1
      BY <2>1 DEF AsksAboutAll
    <2>3. Actions!Selected(changes) = Actions!Named(changes)
      <3>1. Actions!Selected(changes) = IF changes.across = 1 THEN Count ELSE changes.counted
        BY <2>1, SameCount DEF AsksAboutAll, Actions!Selected
      <3>2. Actions!Named(changes) = IF "all" \in changes.visible THEN Count ELSE changes.counted
        BY DEF Actions!Named
      <3> QED  BY <2>2, <3>1, <3>2
    <2> QED  BY <2>1, <2>3 DEF AsksAboutAll
  <1> QED  BY <1>1, <1>2, <1>3, PTL DEF Actions!Spec

-----------------------------------------------------------------------------
(* Forms inside a form.                                                    *)

Forms == [id : Nat, names : Nat, original : BOOLEAN, label : Nat, errors : BOOLEAN]

(* How the server reads the forms of a page with layout l.                 *)
InOrder(l, forms) ==
    \A k \in 1..Len(forms) :
        /\ forms[k].id = k - 1 /\ forms[k].names = k - 1
        /\ forms[k].original <=> k <= l.original
        /\ l.stacked => forms[k].label = k

(* No stored form is ever missing, so that one that is added is new.       *)
FormsetInv ==
    /\ layout \in LayoutType /\ rows \in Seq(Forms)
    /\ totalForms = Len(rows) /\ nextIndex = totalForms
    /\ layout.original <= Len(rows)
    /\ InOrder(layout, rows)
    /\ {addShown, deleteShown} \subseteq BOOLEAN
    /\ filling \in {"loading", "open"} /\ submits \in 0..MaxSubmits
    /\ filling = "open" =>
           /\ addShown <=> (layout.max = Formsets!NoLimit \/ totalForms < layout.max)
           /\ deleteShown <=> totalForms > layout.min

(* The server shows every stored form, and numbers what it shows.          *)
LEMMA ServerCounts ==
    ASSUME NEW l \in LayoutType
    PROVE  Formsets!TotalFormCount(l) \in Nat /\ l.original <= Formsets!TotalFormCount(l)
  BY DEF LayoutType, Formsets!TotalFormCount, Formsets!Larger, Formsets!NoLimit

LEMMA ServerNumbers ==
    ASSUME NEW l \in LayoutType, NEW count \in Nat, NEW errors
    PROVE  LET forms == Formsets!Rendered(l, count, errors)
           IN  forms \in Seq(Forms) /\ Len(forms) = count /\ InOrder(l, forms)
  <1> DEFINE numbered(k) == [id |-> k - 1, names |-> k - 1, original |-> k <= l.original,
                         label |-> k, errors |-> k \in errors]
             forms == [k \in 1..count |-> numbered(k)]
  <1>1. forms = Formsets!Rendered(l, count, errors)
    BY DEF Formsets!Rendered
  <1>2. \A k \in 1..count : numbered(k) \in Forms
    BY DEF Forms, LayoutType
  <1>3. \A k \in 1..count :
            /\ numbered(k).id = k - 1 /\ numbered(k).names = k - 1 /\ numbered(k).label = k
            /\ numbered(k).original <=> k <= l.original
    OBVIOUS
  <1> HIDE DEF numbered
  <1>4. forms \in Seq(Forms) /\ Len(forms) = count
    BY <1>2
  <1>5. \A k \in 1..count : forms[k] = numbered(k)
    OBVIOUS
  <1>6. InOrder(l, forms)
    BY <1>3, <1>4, <1>5 DEF InOrder
  <1> QED  BY <1>1, <1>4, <1>6

(* A page that is loaded is read as it was written.                        *)
LEMMA FormsetKeeps ==
    ASSUME FormsetInv, NEW l \in LayoutType, NEW count \in Nat, l.original <= count,
           NEW errors, Formsets!Formset(l, Formsets!Rendered(l, count, errors))
    PROVE  FormsetInv'
  <1> DEFINE forms == Formsets!Rendered(l, count, errors)
  <1>1. forms \in Seq(Forms) /\ Len(forms) = count /\ InOrder(l, forms)
    BY ServerNumbers
  <1>2. /\ filling' = "open" /\ layout' = l /\ rows' = forms /\ submits' = submits
        /\ totalForms' = Len(forms) /\ nextIndex' = Len(forms)
        /\ addShown' = (l.max = Formsets!NoLimit \/ l.max > Len(forms))
        /\ deleteShown' = (l.min < Len(forms))
    BY DEF Formsets!Formset, Formsets!FormsetWith, Formsets!AddButtonShown,
           Formsets!DeleteButtonsShown
  <1> HIDE DEF forms
  <1>3. InOrder(layout, rows)'
    BY <1>1, <1>2 DEF InOrder
  <1>4. /\ addShown' \in BOOLEAN /\ deleteShown' \in BOOLEAN
        /\ addShown' <=> (l.max = Formsets!NoLimit \/ l.max > Len(forms))
        /\ deleteShown' <=> l.min < Len(forms)
    <2> DEFINE add == (l.max = Formsets!NoLimit \/ l.max > Len(forms))
               delete == (l.min < Len(forms))
    <2>1. add \in BOOLEAN /\ delete \in BOOLEAN
      OBVIOUS
    <2>2. addShown' = add /\ deleteShown' = delete
      BY <1>2
    <2>3. /\ add <=> (l.max = Formsets!NoLimit \/ l.max > Len(forms))
          /\ delete <=> l.min < Len(forms)
      OBVIOUS
    <2> HIDE DEF add, delete
    <2> QED  BY <2>1, <2>2, <2>3
  <1>5. /\ filling' = "open" /\ layout' = l /\ rows' = forms /\ submits' = submits
        /\ totalForms' = Len(forms) /\ nextIndex' = Len(forms)
    BY <1>2
  <1> QED
    BY <1>1, <1>3, <1>4, <1>5 DEF FormsetInv, LayoutType, Formsets!NoLimit

(* The buttons go with the number of forms.                                *)
LEMMA ButtonsGo ==
    ASSUME FormsetInv, layout' = layout, NEW total \in Nat, NEW before \in BOOLEAN,
           before => (layout.max = Formsets!NoLimit \/ layout.max > total),
           addShown' = (before \/ Formsets!AddButtonShown(total)),
           deleteShown' = Formsets!DeleteButtonsShown(total)
    PROVE  /\ addShown' \in BOOLEAN /\ deleteShown' \in BOOLEAN
           /\ addShown' <=> (layout.max = Formsets!NoLimit \/ total < layout.max)
           /\ deleteShown' <=> total > layout.min
  <1>1. /\ addShown' = (before \/ (layout.max = Formsets!NoLimit \/ layout.max > total))
        /\ deleteShown' = (layout.min < total)
    BY DEF Formsets!AddButtonShown, Formsets!DeleteButtonsShown
  <1>2. /\ addShown' \in BOOLEAN /\ deleteShown' \in BOOLEAN
        /\ addShown' <=> (layout.max = Formsets!NoLimit \/ layout.max > total)
        /\ deleteShown' <=> layout.min < total
    <2> DEFINE add == (before \/ (layout.max = Formsets!NoLimit \/ layout.max > total))
               delete == (layout.min < total)
    <2>1. add \in BOOLEAN /\ delete \in BOOLEAN
      OBVIOUS
    <2>2. addShown' = add /\ deleteShown' = delete
      BY <1>1
    <2>3. /\ add <=> (layout.max = Formsets!NoLimit \/ layout.max > total)
          /\ delete <=> layout.min < total
      OBVIOUS
    <2> HIDE DEF add, delete
    <2> QED  BY <2>1, <2>2, <2>3
  <1>3. layout.max \in Int /\ layout.min \in Int
    BY DEF FormsetInv, LayoutType, Formsets!NoLimit
  <1> QED  BY <1>2, <1>3

(* Without a form k the sequence is one shorter, and those behind it come  *)
(* one place forward.                                                      *)
LEMMA WithoutOne ==
    ASSUME FormsetInv, NEW k \in 1..Len(rows)
    PROVE  LET forms == Formsets!Without(k)
           IN  /\ forms \in Seq(Forms) /\ Len(forms) = Len(rows) - 1
               /\ \A i \in 1..Len(rows) - 1 : forms[i] = IF i < k THEN rows[i] ELSE rows[i + 1]
  <1> DEFINE head == SubSeq(rows, 1, k - 1)
             tail == SubSeq(rows, k + 1, Len(rows))
  <1>1. rows \in Seq(Forms) /\ Len(rows) \in Nat
    BY DEF FormsetInv
  <1>2. /\ head \in Seq(Forms) /\ Len(head) = k - 1
        /\ \A i \in 1..k - 1 : head[i] = rows[i]
    BY <1>1
  <1>3. /\ tail \in Seq(Forms) /\ Len(tail) = Len(rows) - k
        /\ \A i \in 1..Len(rows) - k : tail[i] = rows[k + i]
    BY <1>1
  <1> HIDE DEF head, tail
  <1>4. /\ head \o tail \in Seq(Forms) /\ Len(head \o tail) = Len(head) + Len(tail)
        /\ \A i \in 1..Len(head) + Len(tail) :
              (head \o tail)[i] = IF i <= Len(head) THEN head[i] ELSE tail[i - Len(head)]
    BY <1>2, <1>3, ConcatProperties
  <1>5. Len(head) + Len(tail) = Len(rows) - 1
    BY <1>1, <1>2, <1>3
  <1>6. ASSUME NEW i \in 1..Len(rows) - 1
        PROVE  (head \o tail)[i] = IF i < k THEN rows[i] ELSE rows[i + 1]
    <2>1. CASE i < k
      <3>1. i \in 1..k - 1 /\ i <= Len(head)
        BY <1>2, <2>1
      <3> QED  BY <1>2, <1>4, <1>5, <2>1, <3>1
    <2>2. CASE ~(i < k)
      <3>1. i - (k - 1) \in 1..Len(rows) - k /\ ~(i <= Len(head)) /\ k + (i - (k - 1)) = i + 1
        BY <1>1, <1>2, <2>2
      <3>2. tail[i - (k - 1)] = rows[i + 1]
        BY <1>3, <3>1
      <3> QED  BY <1>2, <1>4, <1>5, <2>2, <3>1, <3>2
    <2> QED  BY <2>1, <2>2
  <1> QED  BY <1>4, <1>5, <1>6 DEF Formsets!Without, head, tail

LEMMA FormsetStep ==
    ASSUME FormsetInv, [Formsets!Next]_(Formsets!vars) PROVE FormsetInv'
  <1>1. CASE Formsets!Load
    <2>1. ASSUME NEW l \in Layouts,
                 Formsets!Formset(l, Formsets!Rendered(l, Formsets!TotalFormCount(l), {}))
          PROVE  FormsetInv'
      BY <2>1, ServerCounts, FormsetKeeps, LayoutsAreTyped
    <2>2. ASSUME NEW errors,
                 Formsets!Formset(layout, Formsets!Rendered(layout, totalForms, errors))
          PROVE  FormsetInv'
      BY <2>2, FormsetKeeps DEF FormsetInv
    <2> QED  BY <1>1, <2>1, <2>2 DEF Formsets!Load
  <1>2. CASE Formsets!AddInline
    <2> DEFINE new == [id |-> nextIndex, names |-> totalForms, original |-> FALSE,
                       label |-> 0, errors |-> FALSE]
               more == Append(rows, new)
    <2>1. /\ rows' = Formsets!Labelled(more) /\ filling = "open"
          /\ totalForms' = totalForms + 1 /\ nextIndex' = nextIndex + 1
          /\ UNCHANGED <<layout, filling, submits>>
      BY <1>2 DEF Formsets!AddInline
    <2>2. new \in Forms /\ ~new.original /\ new.id = Len(rows) /\ new.names = Len(rows)
      BY DEF FormsetInv, Forms
    <2> HIDE DEF new
    <2>3. /\ more \in Seq(Forms) /\ Len(more) = Len(rows) + 1 /\ more[Len(rows) + 1] = new
          /\ \A i \in 1..Len(rows) : more[i] = rows[i]
      BY <2>2 DEF FormsetInv
    <2> HIDE DEF more
    <2>4. /\ rows' \in Seq(Forms) /\ Len(rows') = Len(rows) + 1 /\ InOrder(layout, rows')
      <3> DEFINE numbered(i) ==
                   [more[i] EXCEPT !.label = IF layout.stacked THEN i ELSE more[i].label]
      <3>1. rows' = [i \in 1..Len(more) |-> numbered(i)]
        BY <2>1, <2>3 DEF Formsets!Labelled
      <3>2. ASSUME NEW i \in 1..Len(more)
            PROVE  /\ numbered(i) \in Forms /\ numbered(i).id = more[i].id
                   /\ numbered(i).names = more[i].names /\ numbered(i).original = more[i].original
                   /\ layout.stacked => numbered(i).label = i
        <4>1. more[i] \in Forms /\ i \in Nat
          BY <2>3
        <4> QED  BY <4>1 DEF Forms
      <3> HIDE DEF numbered
      <3>3. rows' \in Seq(Forms) /\ Len(rows') = Len(more)
        BY <2>3, <3>1, <3>2
      <3>4. ASSUME NEW i \in 1..Len(rows')
            PROVE  /\ rows'[i].id = i - 1 /\ rows'[i].names = i - 1
                   /\ rows'[i].original <=> i <= layout.original
                   /\ layout.stacked => rows'[i].label = i
        <4>1. rows'[i] = numbered(i) /\ i \in 1..Len(more) /\ Len(rows) \in Nat
          BY <2>3, <3>1, <3>3 DEF FormsetInv
        <4>2. CASE i \in 1..Len(rows)
          BY <2>3, <3>2, <4>1, <4>2 DEF FormsetInv, InOrder
        <4>3. CASE i = Len(rows) + 1
          <5>1. ~(i <= layout.original)
            BY <4>1, <4>3 DEF FormsetInv, LayoutType
          <5> QED  BY <2>2, <2>3, <3>2, <4>1, <4>3, <5>1
        <4> QED  BY <2>3, <4>1, <4>2, <4>3
      <3> QED  BY <2>3, <3>3, <3>4 DEF InOrder
    <2>5. /\ addShown' \in BOOLEAN /\ deleteShown' \in BOOLEAN
          /\ addShown' <=> (layout.max = Formsets!NoLimit \/ totalForms' < layout.max)
          /\ deleteShown' <=> totalForms' > layout.min
      <3>1. /\ addShown' = (FALSE \/ Formsets!AddButtonShown(totalForms'))
            /\ deleteShown' = Formsets!DeleteButtonsShown(totalForms')
        BY <1>2 DEF Formsets!AddInline, Formsets!AddButtonShown
      <3>2. totalForms' \in Nat
        BY <2>1 DEF FormsetInv
      <3> QED  BY <2>1, <3>1, <3>2, ButtonsGo
    <2>6. InOrder(layout, rows)'
      BY <2>1, <2>4 DEF InOrder
    <2>7. layout.original <= Len(rows') /\ Len(rows') = totalForms'
          /\ totalForms' = nextIndex'
      BY <2>1, <2>4 DEF FormsetInv, LayoutType
    <2> QED  BY <2>1, <2>4, <2>5, <2>6, <2>7 DEF FormsetInv
  <1>3. CASE Formsets!Submit
    BY <1>3, LayoutsAreTyped DEF Formsets!Submit, FormsetInv, InOrder
  <1>4. ASSUME NEW k \in DOMAIN rows, Formsets!DeleteInline(k) PROVE FormsetInv'
    <2> DEFINE left == Formsets!Without(k)
    <2>1. /\ rows' = Formsets!Renumbered(Formsets!Labelled(left)) /\ filling = "open"
          /\ totalForms' = Len(rows') /\ nextIndex' = nextIndex - 1
          /\ UNCHANGED <<layout, filling, submits>> /\ ~rows[k].original
      BY <1>4 DEF Formsets!DeleteInline
    <2>2. k \in 1..Len(rows) /\ Len(rows) \in Nat /\ layout.original < k
      <3>1. k \in 1..Len(rows) /\ Len(rows) \in Nat
        BY DEF FormsetInv
      <3>2. rows[k].original <=> k <= layout.original
        BY <3>1 DEF FormsetInv, InOrder
      <3>3. layout.original \in Nat
        BY DEF FormsetInv, LayoutType
      <3> QED  BY <2>1, <3>1, <3>2, <3>3
    <2>3. /\ left \in Seq(Forms) /\ Len(left) = Len(rows) - 1
          /\ \A i \in 1..Len(rows) - 1 : left[i] = IF i < k THEN rows[i] ELSE rows[i + 1]
      BY <2>2, WithoutOne
    <2> HIDE DEF left
    <2>4. /\ rows' \in Seq(Forms) /\ Len(rows') = Len(rows) - 1 /\ InOrder(layout, rows')
      <3> DEFINE labelled(i) ==
                   [left[i] EXCEPT !.label = IF layout.stacked THEN i ELSE left[i].label]
                 numbered(i) == [labelled(i) EXCEPT !.id = i - 1, !.names = i - 1]
                 some == [i \in 1..Len(left) |-> labelled(i)]
      <3>1. Formsets!Labelled(left) = some
        BY <2>3 DEF Formsets!Labelled
      <3>2. DOMAIN some = 1..Len(left) /\ \A i \in 1..Len(left) : some[i] = labelled(i)
        OBVIOUS
      <3>3. ASSUME NEW i \in 1..Len(left)
            PROVE  /\ numbered(i) \in Forms /\ numbered(i).id = i - 1 /\ numbered(i).names = i - 1
                   /\ numbered(i).original = left[i].original
                   /\ layout.stacked => numbered(i).label = i
        <4>1. left[i] \in Forms /\ i \in Nat /\ i - 1 \in Nat
          BY <2>2, <2>3
        <4>2. /\ labelled(i) \in Forms /\ labelled(i).original = left[i].original
              /\ layout.stacked => labelled(i).label = i
          BY <4>1 DEF Forms
        <4> HIDE DEF labelled
        <4> QED  BY <4>1, <4>2 DEF Forms
      <3> HIDE DEF labelled, some
      <3>4. rows' = [i \in 1..Len(left) |-> numbered(i)]
        BY <2>1, <3>1, <3>2 DEF Formsets!Renumbered
      <3> HIDE DEF numbered
      <3>5. rows' \in Seq(Forms) /\ Len(rows') = Len(left)
        BY <2>2, <2>3, <3>3, <3>4
      <3>6. ASSUME NEW i \in 1..Len(rows')
            PROVE  /\ rows'[i].id = i - 1 /\ rows'[i].names = i - 1
                   /\ rows'[i].original <=> i <= layout.original
                   /\ layout.stacked => rows'[i].label = i
        <4>1. rows'[i] = numbered(i) /\ i \in 1..Len(left)
          BY <3>4, <3>5
        <4>2. left[i].original <=> i <= layout.original
          <5>1. /\ \A j \in 1..Len(rows) : rows[j].original <=> j <= layout.original
                /\ layout.original \in Nat
            BY DEF FormsetInv, InOrder, LayoutType
          <5>2. CASE i < k
            BY <2>2, <2>3, <4>1, <5>1, <5>2
          <5>3. CASE ~(i < k)
            <6>1. left[i] = rows[i + 1] /\ i + 1 \in 1..Len(rows)
              BY <2>2, <2>3, <4>1, <5>3
            <6>2. ~(i + 1 <= layout.original) /\ ~(i <= layout.original)
              BY <2>2, <4>1, <5>1, <5>3
            <6> QED  BY <5>1, <6>1, <6>2
          <5> QED  BY <5>2, <5>3
        <4> QED  BY <3>3, <4>1, <4>2
      <3> QED  BY <2>3, <3>5, <3>6 DEF InOrder
    <2>5. /\ addShown' \in BOOLEAN /\ deleteShown' \in BOOLEAN
          /\ addShown' <=> (layout.max = Formsets!NoLimit \/ totalForms' < layout.max)
          /\ deleteShown' <=> totalForms' > layout.min
      <3>1. /\ addShown' = (addShown \/ Formsets!AddButtonShown(totalForms'))
            /\ deleteShown' = Formsets!DeleteButtonsShown(totalForms')
        BY <1>4 DEF Formsets!DeleteInline
      <3>2. totalForms' \in Nat /\ totalForms' < totalForms
        BY <2>1, <2>2, <2>4 DEF FormsetInv
      <3>3. /\ addShown \in BOOLEAN
            /\ addShown => (layout.max = Formsets!NoLimit \/ totalForms < layout.max)
        BY <2>1 DEF FormsetInv
      <3>4. addShown => (layout.max = Formsets!NoLimit \/ layout.max > totalForms')
        BY <3>2, <3>3 DEF FormsetInv, LayoutType, Formsets!NoLimit
      <3> QED  BY <2>1, <3>1, <3>2, <3>3, <3>4, ButtonsGo
    <2>6. layout.original <= Len(rows')
      BY <2>2, <2>4 DEF FormsetInv, LayoutType
    <2>7. nextIndex' = totalForms'
      BY <2>1, <2>2, <2>4 DEF FormsetInv
    <2> QED  BY <2>1, <2>4, <2>5, <2>6, <2>7 DEF FormsetInv, InOrder
  <1>5. CASE UNCHANGED Formsets!vars
    BY <1>5 DEF Formsets!vars, FormsetInv, InOrder
  <1> QED  BY <1>1, <1>2, <1>3, <1>4, <1>5 DEF Formsets!Next

(* No forms before the page is there.                                     *)
LEMMA FormsetInit == Formsets!Init => FormsetInv
  <1> SUFFICES ASSUME Formsets!Init PROVE FormsetInv
    OBVIOUS
  <1>1. layout \in LayoutType /\ layout.original = 0
    BY DEF Formsets!Init, Formsets!NoPage, LayoutType, Formsets!NoLimit
  <1>2. rows = <<>> /\ rows \in Seq(Forms) /\ Len(rows) = 0 /\ 1..0 = {}
    BY DEF Formsets!Init
  <1>3. InOrder(layout, rows)
    BY <1>2 DEF InOrder
  <1>4. {addShown, deleteShown} \subseteq BOOLEAN
    BY DEF Formsets!Init
  <1>5. /\ totalForms = 0 /\ nextIndex = 0 /\ filling = "loading" /\ submits = 0
        /\ 0 \in 0..MaxSubmits
    BY LayoutsAreTyped DEF Formsets!Init
  <1> QED  BY <1>1, <1>2, <1>3, <1>4, <1>5 DEF FormsetInv

(* ServerFindsEveryForm: whatever forms the server shows, and however many *)
(* are added and removed, the page that is sent has them numbered without  *)
(* a gap from 0, the stored ones first, and TOTAL_FORMS is their number.   *)
THEOREM EveryFormIsFound == Formsets!Spec => []ServerFindsEveryForm
  <1>1. Formsets!Init => FormsetInv
    BY FormsetInit
  <1>2. FormsetInv /\ [Formsets!Next]_(Formsets!vars) => FormsetInv'
    BY FormsetStep
  <1>3. FormsetInv => ServerFindsEveryForm
    BY DEF FormsetInv, ServerFindsEveryForm, Formsets!ServerFindsEveryForm, InOrder
  <1> QED  BY <1>1, <1>2, <1>3, PTL DEF Formsets!Spec

-----------------------------------------------------------------------------
(* Windows for related objects.                                            *)

FieldType ==
    [offers : SUBSET (1..MaxObjects), chosen : 0..MaxObjects, link : 0..MaxObjects]

(* A response is about an object.                                          *)
WindowType ==
    {window \in [stage : {"closed", "loading", "form", "response"}, opener : Windows!Pages,
                 kind : Windows!Kinds, object : 0..MaxObjects] :
        window.stage = "response" => window.object # 0}

(* What a link opens is chosen, and what is chosen is offered: of the      *)
(* fields of one page, which change as one.                                *)
Agrees(field) == field.link = field.chosen /\ field.chosen \in field.offers \cup {0}
SoundFields == {fields \in [Fields -> FieldType] : \A f \in Fields : Agrees(fields[f])}

LinksInv ==
    /\ form \in [Windows!Pages -> SoundFields]
    /\ win \in [Windows!Pages -> WindowType]
    /\ objects \subseteq 1..created /\ created \in 1..MaxObjects
    /\ opened \in 0..MaxOpened /\ cut \in BOOLEAN

LEMMA BlankIsSound ==
    ASSUME NEW offered \in SUBSET (1..MaxObjects) PROVE Windows!Blank(offered) \in SoundFields
  BY ObjectsAreCounted DEF Windows!Blank, SoundFields, FieldType, Agrees

(* However many windows go with a document, the fields that stay are sound.*)
LEMMA UnloadKeeps ==
    ASSUME LinksInv, NEW p \in Windows!Pages, NEW after \in WindowType,
           NEW fields \in [Windows!Pages -> SoundFields], NEW lists,
           Windows!Unload(p, after, fields, lists), objects' \subseteq 1..created',
           created' \in 1..MaxObjects, opened' \in 0..MaxOpened
    PROVE  LinksInv'
  <1> DEFINE loop == IF Windows!HasScript(p) THEN Windows!DismissChildPopups[p]
                     ELSE [gone |-> {}, fails |-> FALSE]
             gone == loop.gone
             new == gone \cup {p}
  <1>1. /\ win' = [q \in Windows!Pages |-> IF q = p THEN after
                       ELSE IF q \in gone THEN Windows!Closed ELSE win[q]]
        /\ form' = [q \in Windows!Pages |-> IF q \in new THEN Windows!Blank({})
                        ELSE fields[q]]
        /\ cut' \in BOOLEAN
    BY DEF Windows!Unload
  <1> HIDE DEF gone, new
  <1>2. Windows!Closed \in WindowType
    BY ObjectsAreCounted DEF Windows!Closed, WindowType, Windows!Pages, Windows!Kinds
  <1>3. Windows!Blank({}) \in SoundFields
    BY BlankIsSound
  <1> QED  BY <1>1, <1>2, <1>3 DEF LinksInv

(* The answer of a window, for the fields of its opener.                   *)
LEMMA AddedIsSound ==
    ASSUME NEW fields \in SoundFields, NEW f \in Fields, NEW object \in 1..MaxObjects
    PROVE  Windows!DismissAdd(fields, f, object) \in SoundFields
  <1> DEFINE some == [fields EXCEPT ![f] = Windows!Added(fields, f, object)]
             all == Windows!UpdateRelatedSelectsOptions(some, f, object)
  <1>1. Windows!Added(fields, f, object) \in FieldType
        /\ Agrees(Windows!Added(fields, f, object))
    BY DEF Windows!Added, SoundFields, FieldType, Agrees
  <1>2. some \in SoundFields
    BY <1>1 DEF SoundFields
  <1> HIDE DEF some
  <1>3. all \in SoundFields
    <2>1. \A g \in Fields : [some[g] EXCEPT !.offers = @ \cup {object}] \in FieldType
                            /\ Agrees([some[g] EXCEPT !.offers = @ \cup {object}])
      BY <1>2 DEF SoundFields, FieldType, Agrees
    <2> QED  BY <1>2, <2>1 DEF Windows!UpdateRelatedSelectsOptions, SoundFields
  <1> QED  BY <1>3 DEF Windows!DismissAdd, some

LEMMA ChangedIsSound ==
    ASSUME NEW fields \in SoundFields, NEW f \in Fields, NEW object \in 1..MaxObjects
    PROVE  Windows!DismissChange(fields, f, object) \in SoundFields
  <1> DEFINE some == [fields EXCEPT ![f].link = fields[f].chosen]
             all == Windows!UpdateRelatedSelectsOptions(some, f, object)
  <1>1. some \in SoundFields
    <2>1. [fields[f] EXCEPT !.link = fields[f].chosen] \in FieldType
          /\ Agrees([fields[f] EXCEPT !.link = fields[f].chosen])
      BY DEF SoundFields, FieldType, Agrees
    <2> QED  BY <2>1 DEF SoundFields
  <1> HIDE DEF some
  <1>2. all \in SoundFields
    <2>1. \A g \in Fields : [some[g] EXCEPT !.offers = @ \cup {object}] \in FieldType
                            /\ Agrees([some[g] EXCEPT !.offers = @ \cup {object}])
      BY <1>1 DEF SoundFields, FieldType, Agrees
    <2> QED  BY <1>1, <2>1 DEF Windows!UpdateRelatedSelectsOptions, SoundFields
  <1> QED  BY <1>2 DEF Windows!DismissChange, some

LEMMA DeletedIsSound ==
    ASSUME NEW fields \in SoundFields, NEW f \in Fields, NEW object \in 1..MaxObjects
    PROVE  Windows!DismissDelete(fields, f, object) \in SoundFields
  <1> DEFINE left == IF fields[f].chosen = object THEN 0 ELSE fields[f].chosen
             new == [offers |-> fields[f].offers \ {object}, chosen |-> left, link |-> left]
  <1>1. new \in FieldType /\ Agrees(new)
    <2>1. fields[f] \in FieldType /\ Agrees(fields[f]) /\ 0 \in 0..MaxObjects
      BY ObjectsAreCounted DEF SoundFields
    <2>2. left \in 0..MaxObjects /\ left \in (fields[f].offers \ {object}) \cup {0}
      BY <2>1 DEF FieldType, Agrees
    <2> QED  BY <2>1, <2>2 DEF FieldType, Agrees
  <1> HIDE DEF new
  <1>2. [fields EXCEPT ![f] = new] \in SoundFields
    BY <1>1 DEF SoundFields
  <1> QED  BY <1>2 DEF Windows!DismissDelete, new

LEMMA PagesAreTyped ==
    ASSUME LinksInv, NEW n \in Windows!Names
    PROVE  /\ n \in Windows!Pages /\ n[1] \in Fields
           /\ win[n] \in WindowType /\ win[n].object \in 0..MaxObjects
           /\ win[n].stage = "response" => win[n].object \in 1..MaxObjects
           /\ win[n].opener \in Windows!Pages
  BY DEF LinksInv, Windows!Pages, Windows!Names, WindowType

LEMMA LinksStep ==
    ASSUME LinksInv, [Windows!Next]_(Windows!vars) PROVE LinksInv'
  <1>0. /\ form \in [Windows!Pages -> SoundFields] /\ win \in [Windows!Pages -> WindowType]
        /\ objects \subseteq 1..created /\ objects \subseteq 1..MaxObjects
        /\ created \in 1..MaxObjects /\ opened \in 0..MaxOpened /\ cut \in BOOLEAN
    BY ObjectsAreCounted DEF LinksInv
  <1>1. CASE Windows!LeaveMain
    <2>1. Windows!Main \in Windows!Pages
      BY DEF Windows!Pages
    <2>2. [win[Windows!Main] EXCEPT !.stage = "loading"] \in WindowType
      BY <1>0, <2>1 DEF WindowType
    <2> QED  BY <1>0, <1>1, <2>1, <2>2, UnloadKeeps DEF Windows!LeaveMain
  <1>2. ASSUME NEW n \in Windows!Names, Windows!Save(n) PROVE LinksInv'
    <2>1. /\ n \in Windows!Pages /\ win[n] \in WindowType
      BY PagesAreTyped
    <2>2. \A number \in 1..MaxObjects :
              [win[n] EXCEPT !.stage = "response", !.object = number] \in WindowType
      <3> SUFFICES ASSUME NEW number \in 1..MaxObjects
                   PROVE  [win[n] EXCEPT !.stage = "response", !.object = number] \in WindowType
        OBVIOUS
      <3>1. number \in 0..MaxObjects /\ number # 0
        BY ObjectsAreCounted
      <3> HIDE DEF Windows!Pages, Windows!Kinds
      <3> QED  BY <2>1, <3>1 DEF WindowType
    <2>3. /\ win[n].object \in objects => [win[n] EXCEPT !.stage = "response"] \in WindowType
          /\ [win[n] EXCEPT !.stage = "loading"] \in WindowType
      BY <1>0, <2>1 DEF WindowType
    <2>0. opened' = opened
      BY <1>2 DEF Windows!Save
    <2>4. CASE /\ created < MaxObjects /\ created' = created + 1 /\ objects' = objects \cup {created'}
               /\ Windows!Unload(n, [win[n] EXCEPT !.stage = "response", !.object = created'],
                                 form, related)
      <3>1. created' \in 1..MaxObjects /\ objects' \subseteq 1..created'
        BY <1>0, <2>4, ObjectsAreCounted
      <3> QED  BY <1>0, <2>0, <2>1, <2>2, <2>4, <3>1, UnloadKeeps
    <2>5. CASE /\ win[n].object \in objects /\ objects' \subseteq objects /\ UNCHANGED created
               /\ Windows!Unload(n, [win[n] EXCEPT !.stage = "response"], form, related)
      BY <1>0, <2>0, <2>1, <2>3, <2>5, UnloadKeeps
    <2>6. CASE /\ UNCHANGED <<objects, created>>
               /\ Windows!Unload(n, [win[n] EXCEPT !.stage = "loading"], form, related)
      BY <1>0, <2>0, <2>1, <2>3, <2>6, UnloadKeeps
    <2> QED  BY <1>2, <2>4, <2>5, <2>6 DEF Windows!Save
  <1>3. ASSUME NEW n \in Windows!Names, Windows!Respond(n) PROVE LinksInv'
    <2> DEFINE p == win[n].opener
               answer == CASE win[n].kind = "add" ->
                                  Windows!DismissAdd(form[p], n[1], win[n].object)
                           [] win[n].kind = "change" ->
                                  Windows!DismissChange(form[p], n[1], win[n].object)
                           [] win[n].kind = "delete" ->
                                  Windows!DismissDelete(form[p], n[1], win[n].object)
    <2>1. /\ n \in Windows!Pages /\ n[1] \in Fields /\ p \in Windows!Pages
          /\ win[n].object \in 1..MaxObjects /\ win[n].kind \in {"add", "change", "delete"}
      BY <1>3, PagesAreTyped DEF Windows!Respond, WindowType, Windows!Kinds
    <2>2. answer \in SoundFields
      <3>1. form[p] \in SoundFields
        BY <1>0, <2>1
      <3> QED  BY <2>1, <3>1, AddedIsSound, ChangedIsSound, DeletedIsSound
    <2>3. /\ Windows!Unload(n, Windows!Closed, [form EXCEPT ![p] = answer], related)
          /\ UNCHANGED <<objects, created, opened>>
      BY <1>3 DEF Windows!Respond, Windows!RemovePopupIndex
    <2> HIDE DEF answer
    <2>4. [form EXCEPT ![p] = answer] \in [Windows!Pages -> SoundFields]
      BY <1>0, <2>1, <2>2
    <2>5. Windows!Closed \in WindowType
      BY ObjectsAreCounted DEF Windows!Closed, WindowType, Windows!Pages, Windows!Kinds
    <2> QED  BY <1>0, <2>1, <2>3, <2>4, <2>5, UnloadKeeps
  <1>4. ASSUME NEW n \in Windows!Names, Windows!CloseWindow(n) PROVE LinksInv'
    <2>1. Windows!Closed \in WindowType
      BY ObjectsAreCounted DEF Windows!Closed, WindowType, Windows!Pages, Windows!Kinds
    <2>2. n \in Windows!Pages
      BY PagesAreTyped
    <2> QED  BY <1>0, <1>4, <2>1, <2>2, UnloadKeeps DEF Windows!CloseWindow
  <1>5. ASSUME NEW p \in Windows!Pages, Windows!Load(p) PROVE LinksInv'
    <2>1. Windows!Blank(objects) \in SoundFields
      BY <1>0, BlankIsSound
    <2>2. [win[p] EXCEPT !.stage = "form"] \in WindowType
      BY <1>0 DEF WindowType
    <2>3. /\ win' = [win EXCEPT ![p] = [win[p] EXCEPT !.stage = "form"]]
          /\ form' = [form EXCEPT ![p] = Windows!Blank(objects)]
          /\ UNCHANGED <<objects, created, opened, cut>>
      BY <1>0, <1>5 DEF Windows!Load
    <2> QED  BY <1>0, <2>1, <2>2, <2>3 DEF LinksInv
  <1>6. ASSUME NEW p \in Windows!Pages, NEW f \in Fields, NEW kind \in Windows!Kinds,
               Windows!ShowAdminPopup(p, f, kind)
        PROVE  LinksInv'
    <2> DEFINE name == Windows!AddPopupIndex(p, f)
               object == IF kind = "add" THEN 0 ELSE form[p][f].link
               after == [stage |-> "loading", opener |-> p, kind |-> kind, object |-> object]
    <2>1. PICK lists : /\ Windows!Unload(name, after, form, lists)
                       /\ Windows!SetPopupIndex(p) < Depth /\ UNCHANGED <<objects, created>>
                       /\ opened < MaxOpened /\ opened' = opened + 1
      BY <1>6 DEF Windows!ShowAdminPopup
    <2>2. object \in 0..MaxObjects
      BY <1>0, ObjectsAreCounted DEF SoundFields, FieldType
    <2> HIDE DEF object
    <2>3. after \in WindowType
      BY <2>2 DEF WindowType
    <2>4. name \in Windows!Pages
      <3>1. p[2] \in Nat
        BY DEF Windows!Pages, Windows!Names, Windows!Main
      <3>2. p[2] < Depth
        BY <2>1 DEF Windows!SetPopupIndex
      <3>3. p[2] + 1 \in 1..Depth
        BY <3>1, <3>2, DepthIsANumber
      <3> QED  BY <3>3 DEF Windows!AddPopupIndex, Windows!SetPopupIndex, Windows!Pages,
                  Windows!Names
    <2> HIDE DEF after, name
    <2>5. opened' \in 0..MaxOpened
      BY <1>0, <2>1, ObjectsAreCounted
    <2> QED  BY <1>0, <2>1, <2>3, <2>4, <2>5, UnloadKeeps
  <1>7. ASSUME NEW p \in Windows!Pages, NEW f \in Fields, NEW object,
               Windows!Choose(p, f, object)
        PROVE  LinksInv'
    <2> DEFINE new == [form[p][f] EXCEPT !.chosen = object, !.link = object]
    <2>1. /\ form' = [form EXCEPT ![p] = [form[p] EXCEPT ![f] = new]]
          /\ object \in form[p][f].offers \cup {0}
          /\ UNCHANGED <<win, objects, created, opened, cut>>
      BY <1>0, <1>7 DEF Windows!Choose, SoundFields, FieldType
    <2>2. form[p] \in SoundFields
      BY <1>0
    <2>3. new \in FieldType /\ Agrees(new)
      <3>1. form[p][f] \in FieldType
        BY <2>2 DEF SoundFields
      <3>2. object \in 0..MaxObjects
        BY <2>1, <3>1, ObjectsAreCounted DEF FieldType
      <3> QED  BY <2>1, <3>1, <3>2 DEF FieldType, Agrees
    <2> HIDE DEF new
    <2>4. [form[p] EXCEPT ![f] = new] \in SoundFields
      BY <2>2, <2>3 DEF SoundFields
    <2> QED  BY <1>0, <2>1, <2>4 DEF LinksInv
  <1>8. CASE UNCHANGED Windows!vars
    BY <1>8 DEF Windows!vars, LinksInv
  <1> QED
    BY <1>1, <1>2, <1>3, <1>4, <1>5, <1>6, <1>7, <1>8 DEF Windows!Next

LEMMA LinksInit == ASSUME Windows!Init PROVE LinksInv
  <1>1. /\ objects = {1} /\ created = 1 /\ objects \subseteq 1..MaxObjects
        /\ opened = 0 /\ opened \in 0..MaxOpened /\ cut = FALSE
    BY ObjectsAreCounted DEF Windows!Init
  <1>2. Windows!Blank(objects) \in SoundFields /\ Windows!Blank({}) \in SoundFields
    BY <1>1, BlankIsSound
  <1>3. Windows!Closed \in WindowType /\ [Windows!Closed EXCEPT !.stage = "form"] \in WindowType
    BY ObjectsAreCounted DEF Windows!Closed, WindowType, Windows!Pages, Windows!Kinds
  <1>4. objects \subseteq 1..created /\ created \in 1..MaxObjects
    BY <1>1, ObjectsAreCounted
  <1> QED  BY <1>1, <1>2, <1>3, <1>4 DEF Windows!Init, LinksInv

(* LinksOpenTheChosen: for any fields, objects and depth of windows, and   *)
(* whichever windows are closed by others, navigated or left, the links of *)
(* a field open what is chosen in it, and that is something it offers.     *)
THEOREM LinksAreTrue == Windows!Spec => []LinksOpenTheChosen
  <1>1. Windows!Init => LinksInv
    BY LinksInit
  <1>2. LinksInv /\ [Windows!Next]_(Windows!vars) => LinksInv'
    BY LinksStep
  <1>3. LinksInv => LinksOpenTheChosen
    BY DEF LinksInv, SoundFields, Agrees, LinksOpenTheChosen, Windows!LinksOpenTheChosen
  <1> QED  BY <1>1, <1>2, <1>3, PTL DEF Windows!Spec

-----------------------------------------------------------------------------
(* The windows in order of depth.                                          *)

LEMMA Downwards ==
    ASSUME NEW P, NEW top \in Nat, top \in P, \A k \in 0..(top - 1) : k + 1 \in P => k \in P
    PROVE  \A k \in 0..top : k \in P
  <1> DEFINE Bad == {d \in 0..top : top - d \notin P}
  <1>1. SUFFICES ASSUME Bad # {} PROVE FALSE
    <2>1. ASSUME NEW k \in 0..top, k \notin P PROVE top - k \in Bad
      <3>1. top - k \in 0..top /\ top - (top - k) = k
        OBVIOUS
      <3> QED  BY <2>1, <3>1
    <2> QED  BY <2>1
  <1>2. IsFiniteSet(0..top)
    BY FS_Interval
  <1>3. IsWellFoundedOn(StrictSubsetOrdering(0..top), FiniteSubsetsOf(0..top))
    BY <1>2, FS_StrictSubsetOrderingWellFounded
  <1> DEFINE Segments == {0..d : d \in Bad}
  <1>4. Segments \subseteq FiniteSubsetsOf(0..top)
    <2>1. \A d \in Nat : IsFiniteSet(0..d)
      BY FS_Interval, SMT
    <2>2. \A d \in Bad : d \in Nat /\ 0..d \subseteq 0..top
      OBVIOUS
    <2> QED  BY <2>1, <2>2 DEF FiniteSubsetsOf
  <1>5. Segments # {}
    BY <1>1
  <1> HIDE DEF Segments
  <1>6. \E X \in Segments : \A Y \in Segments : <<Y, X>> \notin StrictSubsetOrdering(0..top)
    BY <1>3, <1>4, <1>5, WFMin
  <1>7. PICK d \in Bad : \A e \in Bad : <<0..e, 0..d>> \notin StrictSubsetOrdering(0..top)
    <2> HIDE DEF Bad
    <2> QED  BY <1>6 DEF Segments
  <1>8. d # 0 /\ d - 1 \in 0..top
    BY <1>7
  <1>9. d - 1 \notin Bad
    <2>1. 0..(d - 1) \in SUBSET (0..top) /\ 0..d \in SUBSET (0..top)
      BY <1>7, <1>8
    <2>2. 0..(d - 1) # 0..d /\ 0..(d - 1) \subseteq 0..d
      <3>1. d \in 0..d /\ d \notin 0..(d - 1)
        BY <1>7
      <3> QED  BY <1>7, <3>1
    <2>3. <<0..(d - 1), 0..d>> \in StrictSubsetOrdering(0..top)
      BY <2>1, <2>2 DEF StrictSubsetOrdering
    <2> QED  BY <1>7, <2>3
  <1>10. top - d \in 0..(top - 1) /\ (top - d) + 1 = top - (d - 1)
    BY <1>7, <1>8
  <1> QED  BY <1>7, <1>8, <1>9, <1>10

LEMMA Depths ==
    ASSUME NEW p \in Windows!Pages
    PROVE  /\ p[2] \in 0..Depth
           /\ p \in Windows!Names => p[2] # 0
  BY DepthIsANumber DEF Windows!Pages, Windows!Names, Windows!Main

(* What stands in relatedWindows are windows of the next depth.            *)
ListsTheNext(lists) ==
    /\ lists \in [Windows!Pages -> Seq(Windows!Names \cup {Windows!Gone})]
    /\ \A p \in Windows!Pages : \A i \in DOMAIN lists[p] :
           lists[p][i] # Windows!Gone =>
               lists[p][i] \in Windows!Names /\ lists[p][i][2] = p[2] + 1

IsListed(n, list) == \E i \in DOMAIN list : list[i] = n

OpenersInv ==
    /\ LinksInv /\ ListsTheNext(related)
    /\ ~cut => \A n \in Windows!Names :
           Windows!IsOpen(n) => /\ Windows!HasScript(win[n].opener)
                                /\ IsListed(n, related[win[n].opener])

(* The loop of dismissChildPopups in p, given what those of others do.     *)
Stops(f, n) == ~Windows!HasScript(n) \/ f[n].fails
Here(p) == {i \in DOMAIN related[p] : related[p][i] # Windows!Gone}
Reached(f, p) ==
    {i \in Here(p) : /\ Windows!HasScript(related[p][i])
                     /\ \A j \in Here(p) : j < i => ~Stops(f, related[p][j])}
Loop(f, p) ==
    [gone |-> (UNION {f[related[p][i]].gone : i \in Reached(f, p)})
          \cup {related[p][i] : i \in {j \in Reached(f, p) : ~Stops(f, related[p][j])}},
     fails |-> \E i \in Here(p) : Stops(f, related[p][i])]

(* It asks the windows of p only, which are one deeper.                    *)
LEMMA LoopLooksDeeper ==
    ASSUME ListsTheNext(related), NEW p \in Windows!Pages, NEW f, NEW g,
           \A n \in Windows!Names : n[2] = p[2] + 1 => f[n] = g[n]
    PROVE  Loop(f, p) = Loop(g, p)
  <1>1. \A i \in Here(p) : f[related[p][i]] = g[related[p][i]]
    BY DEF ListsTheNext, Here
  <1>2. \A i \in Here(p) : Stops(f, related[p][i]) <=> Stops(g, related[p][i])
    BY <1>1 DEF Stops
  <1>3. Reached(f, p) = Reached(g, p) /\ Reached(f, p) \subseteq Here(p)
    BY <1>2 DEF Reached
  <1>4. {f[related[p][i]].gone : i \in Reached(f, p)} =
            {g[related[p][i]].gone : i \in Reached(g, p)}
    BY <1>1, <1>3
  <1>5. {j \in Reached(f, p) : ~Stops(f, related[p][j])} =
            {j \in Reached(g, p) : ~Stops(g, related[p][j])}
    BY <1>2, <1>3
  <1>6. (\E i \in Here(p) : Stops(f, related[p][i])) <=> (\E i \in Here(p) : Stops(g, related[p][i]))
    BY <1>2
  <1> QED  BY <1>4, <1>5, <1>6 DEF Loop

LEMMA LoopIsDefined ==
    ASSUME ListsTheNext(related)
    PROVE  \A p \in Windows!Pages :
               Windows!DismissChildPopups[p] = Loop(Windows!DismissChildPopups, p)
  <1> DEFINE Whole(f) == [p \in Windows!Pages |-> Loop(f, p)]
             Fixed(f, k) == \A p \in Windows!Pages : p[2] >= k => f[p] = Loop(f, p)
             P == {k \in Nat : \E f : Fixed(f, k)}
  <1>1. Depth + 1 \in P
    <2>1. Depth + 1 \in Nat
      BY DepthIsANumber
    <2>2. \A p \in Windows!Pages : ~(p[2] >= Depth + 1)
      BY Depths, DepthIsANumber
    <2> QED  BY <2>1, <2>2
  <1>2. ASSUME NEW k \in 0..((Depth + 1) - 1), k + 1 \in P PROVE k \in P
    <2>1. PICK f : Fixed(f, k + 1)
      BY <1>2
    <2> DEFINE g == [p \in Windows!Pages |-> IF p[2] >= k + 1 THEN f[p] ELSE Loop(f, p)]
    <2>2. ASSUME NEW p \in Windows!Pages, p[2] >= k PROVE g[p] = Loop(g, p)
      <3>1. p[2] \in Nat /\ k \in Nat
        BY Depths
      <3>2. \A n \in Windows!Names : n[2] = p[2] + 1 => f[n] = g[n]
        <4>1. ASSUME NEW n \in Windows!Names, n[2] = p[2] + 1 PROVE f[n] = g[n]
          <5>1. n \in Windows!Pages /\ n[2] >= k + 1
            BY <2>2, <3>1, <4>1 DEF Windows!Pages
          <5> QED  BY <5>1
        <4> QED  BY <4>1
      <3> HIDE DEF g
      <3>3. Loop(f, p) = Loop(g, p)
        BY <3>2, LoopLooksDeeper
      <3>4. g[p] = Loop(f, p)
        <4>1. g[p] = IF p[2] >= k + 1 THEN f[p] ELSE Loop(f, p)
          BY DEF g
        <4> QED  BY <2>1, <4>1
      <3> QED  BY <3>3, <3>4
    <2> HIDE DEF g
    <2>3. Fixed(g, k)
      BY <2>2
    <2> QED  BY <2>3
  <1> HIDE DEF P
  <1>3. 0 \in P
    <2>1. Depth + 1 \in Nat /\ 0 \in 0..(Depth + 1)
      BY DepthIsANumber
    <2> QED  BY <1>1, <1>2, <2>1, Downwards
  <1>4. PICK f : Fixed(f, 0)
    BY <1>3 DEF P
  <1>5. \A p \in Windows!Pages : f[p] = Loop(f, p)
    BY <1>4, Depths
  <1> DEFINE h == [p \in Windows!Pages |-> f[p]]
  <1>6. h = Whole(h)
    <2>1. ASSUME NEW p \in Windows!Pages PROVE h[p] = Loop(h, p)
      <3>1. \A n \in Windows!Names : n[2] = p[2] + 1 => f[n] = h[n]
        BY DEF Windows!Pages
      <3>2. h[p] = f[p]
        OBVIOUS
      <3> HIDE DEF h
      <3>3. Loop(f, p) = Loop(h, p)
        BY <3>1, LoopLooksDeeper
      <3> QED  BY <1>5, <3>2, <3>3
    <2>2. h = [p \in Windows!Pages |-> h[p]]
      OBVIOUS
    <2> HIDE DEF h
    <2> QED  BY <2>1, <2>2
  <1> HIDE DEF h
  <1> DEFINE D == CHOOSE d : d = Whole(d)
  <1>7. D = Whole(D)
    BY <1>6
  <1>8. Windows!DismissChildPopups = D
    BY DEF Windows!DismissChildPopups, Loop, Reached, Here, Stops
  <1> HIDE DEF D
  <1>9. \A p \in Windows!Pages : D[p] = Loop(D, p)
    BY <1>7
  <1> QED  BY <1>8, <1>9

(* A loop without an error closes all windows there are, with theirs.      *)
LEMMA LoopClosesAll ==
    ASSUME ListsTheNext(related), NEW p \in Windows!Pages, ~Windows!DismissChildPopups[p].fails
    PROVE  LET D == Windows!DismissChildPopups
           IN  /\ \A i \in Here(p) :
                      /\ related[p][i] \in D[p].gone /\ ~D[related[p][i]].fails
                      /\ D[related[p][i]].gone \subseteq D[p].gone
               /\ \A q \in D[p].gone : \E i \in Here(p) :
                      q = related[p][i] \/ q \in D[related[p][i]].gone
  <1> DEFINE D == Windows!DismissChildPopups
  <1>1. D[p] = Loop(D, p)
    BY LoopIsDefined
  <1> HIDE DEF D
  <1>2. \A i \in Here(p) : ~Stops(D, related[p][i])
    BY <1>1 DEF Loop, D
  <1>3. Reached(D, p) = Here(p)
    BY <1>2 DEF Reached, Stops
  <1>4. D[p].gone = (UNION {D[related[p][i]].gone : i \in Here(p)})
                        \cup {related[p][i] : i \in Here(p)}
    BY <1>1, <1>2, <1>3 DEF Loop
  <1>5. \A i \in Here(p) : ~D[related[p][i]].fails
    BY <1>2 DEF Stops
  <1>6. ASSUME NEW q
        PROVE  q \in D[p].gone <=> \E i \in Here(p) :
                                       q = related[p][i] \/ q \in D[related[p][i]].gone
    <2> DEFINE own == {related[p][i] : i \in Here(p)}
               theirs == UNION {D[related[p][i]].gone : i \in Here(p)}
    <2>1. q \in own <=> \E i \in Here(p) : q = related[p][i]
      OBVIOUS
    <2>2. q \in theirs <=> \E i \in Here(p) : q \in D[related[p][i]].gone
      OBVIOUS
    <2>3. D[p].gone = theirs \cup own
      BY <1>4
    <2> HIDE DEF own, theirs
    <2> QED  BY <2>1, <2>2, <2>3
  <1>7. \A i \in Here(p) : related[p][i] \in D[p].gone /\ D[related[p][i]].gone \subseteq D[p].gone
    BY <1>6
  <1> QED  BY <1>5, <1>6, <1>7 DEF D

(* What it closes lies deeper, and nothing that was opened there is left.  *)
ClosesWhole(p) ==
    \A q \in Windows!DismissChildPopups[p].gone :
        /\ q \in Windows!Names /\ q[2] > p[2]
        /\ \A i \in Here(q) : related[q][i] \in Windows!DismissChildPopups[p].gone

LEMMA LoopLeavesNone ==
    ASSUME ListsTheNext(related)
    PROVE  \A p \in Windows!Pages : ~Windows!DismissChildPopups[p].fails => ClosesWhole(p)
  <1> DEFINE D == Windows!DismissChildPopups
             P == {k \in Nat : \A p \in Windows!Pages :
                                   p[2] >= k /\ ~D[p].fails => ClosesWhole(p)}
  <1>1. Depth + 1 \in P
    <2>1. Depth + 1 \in Nat
      BY DepthIsANumber
    <2>2. \A p \in Windows!Pages : ~(p[2] >= Depth + 1)
      BY Depths, DepthIsANumber
    <2> QED  BY <2>1, <2>2
  <1>2. ASSUME NEW k \in 0..((Depth + 1) - 1), k + 1 \in P PROVE k \in P
    <2>1. ASSUME NEW p \in Windows!Pages, p[2] >= k, ~D[p].fails PROVE ClosesWhole(p)
      <3>1. /\ \A i \in Here(p) : /\ related[p][i] \in D[p].gone /\ ~D[related[p][i]].fails
                                  /\ D[related[p][i]].gone \subseteq D[p].gone
            /\ \A q \in D[p].gone : \E i \in Here(p) :
                   q = related[p][i] \/ q \in D[related[p][i]].gone
        BY <2>1, LoopClosesAll
      <3>2. \A i \in Here(p) : /\ related[p][i] \in Windows!Names
                               /\ related[p][i] \in Windows!Pages
                               /\ related[p][i][2] = p[2] + 1
        BY DEF ListsTheNext, Here, Windows!Pages
      <3>3. p[2] \in Nat /\ k \in Nat /\ \A n \in Windows!Names : n[2] \in Nat
        BY Depths DEF Windows!Pages
      <3>4. ASSUME NEW q \in D[p].gone
            PROVE  /\ q \in Windows!Names /\ q[2] > p[2]
                   /\ \A j \in Here(q) : related[q][j] \in D[p].gone
        <4>1. PICK i \in Here(p) : q = related[p][i] \/ q \in D[related[p][i]].gone
          BY <3>1
        <4>2. /\ related[p][i] \in Windows!Pages /\ ~D[related[p][i]].fails
              /\ related[p][i][2] = p[2] + 1 /\ D[related[p][i]].gone \subseteq D[p].gone
          BY <3>1, <3>2
        <4>3. CASE q = related[p][i]
          <5>1. \A j \in Here(q) : related[q][j] \in D[q].gone
            BY <4>2, <4>3, LoopClosesAll
          <5> QED  BY <3>2, <3>3, <4>2, <4>3, <5>1
        <4>4. CASE q \in D[related[p][i]].gone
          <5>1. related[p][i][2] >= k + 1
            BY <2>1, <3>3, <4>2
          <5>2. ClosesWhole(related[p][i])
            BY <1>2, <4>2, <5>1
          <5>3. q \in Windows!Names /\ q[2] > related[p][i][2]
                /\ \A j \in Here(q) : related[q][j] \in D[related[p][i]].gone
            BY <4>4, <5>2 DEF ClosesWhole
          <5> QED  BY <3>3, <4>2, <5>3
        <4> QED  BY <4>1, <4>3, <4>4
      <3> QED  BY <3>4 DEF ClosesWhole
    <2> QED  BY <2>1
  <1> HIDE DEF P
  <1>3. 0 \in P
    <2>1. Depth + 1 \in Nat /\ 0 \in 0..(Depth + 1)
      BY DepthIsANumber
    <2> QED  BY <1>1, <1>2, <2>1, Downwards
  <1> QED  BY <1>3, Depths DEF P

(* A document goes, with the windows its loop closes: what stays open has  *)
(* its opener.                                                             *)
LEMMA UnloadKeepsOpeners ==
    ASSUME OpenersInv, LinksInv', NEW p \in Windows!Pages, NEW after, NEW fields, NEW lists,
           Windows!Unload(p, after, fields, lists), ListsTheNext(lists),
           \A q \in Windows!Pages, n \in Windows!Names :
               IsListed(n, related[q]) => IsListed(n, lists[q]),
           \/ p = Windows!Main \/ after.stage = "closed" \/ cut
           \/ /\ after.opener \in Windows!Pages /\ after.opener[2] < p[2]
              /\ Windows!HasScript(after.opener) /\ IsListed(p, lists[after.opener])
    PROVE  OpenersInv'
  <1> DEFINE loop == IF Windows!HasScript(p) THEN Windows!DismissChildPopups[p]
                     ELSE [gone |-> {}, fails |-> FALSE]
             gone == loop.gone
             new == gone \cup {p}
             closed == IF after.stage = "closed" THEN new ELSE gone
  <1>1. /\ win' = [q \in Windows!Pages |-> IF q = p THEN after
                       ELSE IF q \in gone THEN Windows!Closed ELSE win[q]]
        /\ related' = [q \in Windows!Pages |-> IF q \in new THEN <<>>
                           ELSE Windows!Unlisted(lists[q], closed)]
        /\ cut' = (cut \/ loop.fails)
    BY DEF Windows!Unload
  <1>2. /\ LinksInv /\ ListsTheNext(related) /\ win \in [Windows!Pages -> WindowType]
        /\ \A n \in Windows!Names : n \in Windows!Pages
    BY DEF OpenersInv, LinksInv, Windows!Pages
  <1>3. ~loop.fails =>
            /\ \A q \in gone : q \in Windows!Names /\ q[2] > p[2]
            /\ \A q \in gone : \A i \in Here(q) : related[q][i] \in gone
            /\ Windows!HasScript(p) => \A i \in Here(p) : related[p][i] \in gone
    <2>1. CASE Windows!HasScript(p)
      BY <1>2, <2>1, LoopLeavesNone, LoopClosesAll DEF ClosesWhole
    <2>2. CASE ~Windows!HasScript(p)
      BY <2>2
    <2> QED  BY <2>1, <2>2
  <1> HIDE DEF loop, gone
  <1>4. ASSUME NEW q \in Windows!Pages
        PROVE  /\ Windows!Unlisted(lists[q], closed) \in Seq(Windows!Names \cup {Windows!Gone})
               /\ DOMAIN Windows!Unlisted(lists[q], closed) = DOMAIN lists[q]
               /\ \A i \in DOMAIN lists[q] : Windows!Unlisted(lists[q], closed)[i] =
                      IF lists[q][i] \in closed THEN Windows!Gone ELSE lists[q][i]
    <2>1. lists[q] \in Seq(Windows!Names \cup {Windows!Gone})
      BY DEF ListsTheNext
    <2>2. DOMAIN lists[q] = 1..Len(lists[q]) /\ Len(lists[q]) \in Nat
      BY <2>1, LenProperties
    <2>3. \A i \in DOMAIN lists[q] : lists[q][i] \in Windows!Names \cup {Windows!Gone}
      BY <2>1, <2>2, ElementOfSeq
    <2> HIDE DEF closed
    <2>4. Windows!Unlisted(lists[q], closed) =
              [i \in 1..Len(lists[q]) |-> IF lists[q][i] \in closed THEN Windows!Gone
                                          ELSE lists[q][i]]
      BY <2>2 DEF Windows!Unlisted
    <2> QED  BY <2>2, <2>3, <2>4
  <1>5. ListsTheNext(related)'
    <2>1. related' \in [Windows!Pages -> Seq(Windows!Names \cup {Windows!Gone})]
      <3>1. <<>> \in Seq(Windows!Names \cup {Windows!Gone})
        OBVIOUS
      <3> HIDE DEF new, closed
      <3> QED  BY <1>1, <1>4, <3>1
    <2>2. ASSUME NEW q \in Windows!Pages, NEW i \in DOMAIN related'[q],
                 related'[q][i] # Windows!Gone
          PROVE  related'[q][i] \in Windows!Names /\ related'[q][i][2] = q[2] + 1
      <3>1. q \notin new
        BY <1>1, <2>2
      <3>2. related'[q] = Windows!Unlisted(lists[q], closed)
        BY <1>1, <3>1
      <3>3. i \in DOMAIN lists[q] /\ related'[q][i] = lists[q][i]
        BY <1>4, <2>2, <3>2
      <3> QED  BY <2>2, <3>3 DEF ListsTheNext
    <2> QED  BY <2>1, <2>2 DEF ListsTheNext
  <1>6. ASSUME ~cut', NEW n \in Windows!Names, Windows!IsOpen(n)'
        PROVE  /\ win'[win'[n].opener].stage = "form"
               /\ IsListed(n, related'[win'[n].opener])
    <2>1. ~cut /\ ~loop.fails
      BY <1>1, <1>6
    <2>2. \A q \in gone : q \in Windows!Names /\ q[2] > p[2]
      BY <1>3, <2>1
    <2>3. \A q \in Windows!Pages : q[2] \in Nat
      BY Depths
    <2>4. n \notin gone /\ n \in Windows!Pages /\ n # Windows!Gone
      <3>1. n # p => n \notin gone
        BY <1>1, <1>2, <1>6 DEF Windows!IsOpen, Windows!Closed
      <3>2. p \notin gone
        BY <2>2, <2>3
      <3>3. n # Windows!Gone
        BY DEF Windows!Names, Windows!Gone
      <3> QED  BY <1>2, <3>1, <3>2, <3>3
    <2>5. ASSUME NEW q \in Windows!Pages, q \notin new, n \notin closed,
                 Windows!HasScript(q), IsListed(n, lists[q])
          PROVE  win'[q].stage = "form" /\ IsListed(n, related'[q])
      <3>1. win'[q] = win[q] /\ related'[q] = Windows!Unlisted(lists[q], closed)
        BY <1>1, <2>5
      <3>2. PICK i \in DOMAIN lists[q] : lists[q][i] = n
        BY <2>5 DEF IsListed
      <3>3. i \in DOMAIN related'[q] /\ related'[q][i] = n
        BY <1>4, <2>5, <3>1, <3>2
      <3> QED  BY <2>5, <3>1, <3>3 DEF Windows!HasScript, IsListed
    <2>6. CASE n = p
      <3>1. win'[n] = after /\ after.stage # "closed"
        BY <1>1, <1>6, <2>4, <2>6 DEF Windows!IsOpen
      <3>2. n # Windows!Main
        BY Depths, <2>4 DEF Windows!Main
      <3>3. /\ after.opener \in Windows!Pages /\ after.opener[2] < p[2]
            /\ Windows!HasScript(after.opener) /\ IsListed(p, lists[after.opener])
        BY <2>1, <2>6, <3>1, <3>2
      <3>4. after.opener \notin new /\ n \notin closed
        BY <2>2, <2>3, <2>4, <3>1, <3>3
      <3> QED  BY <2>5, <2>6, <3>1, <3>3, <3>4
    <2>7. CASE n # p
      <3>1. win'[n] = win[n] /\ Windows!IsOpen(n)
        BY <1>1, <1>6, <2>4, <2>7 DEF Windows!IsOpen
      <3> DEFINE q == win[n].opener
      <3>2. q \in Windows!Pages /\ Windows!HasScript(q) /\ IsListed(n, related[q])
        BY <1>2, <2>1, <2>4, <3>1 DEF OpenersInv, WindowType
      <3> HIDE DEF q
      <3>3. PICK i \in Here(q) : related[q][i] = n
        BY <2>4, <3>2 DEF IsListed, Here
      <3>4. q \notin new
        BY <1>3, <2>1, <2>4, <3>2, <3>3
      <3>5. IsListed(n, lists[q]) /\ n \notin closed
        BY <2>4, <2>7, <3>2
      <3>6. win'[q].stage = "form" /\ IsListed(n, related'[q])
        BY <2>5, <3>2, <3>4, <3>5
      <3> QED  BY <3>1, <3>6 DEF q
    <2> QED  BY <2>6, <2>7
  <1> QED  BY <1>5, <1>6 DEF OpenersInv, Windows!HasScript

LEMMA OpenersStep ==
    ASSUME OpenersInv, [Windows!Next]_(Windows!vars) PROVE OpenersInv'
  <1>0. /\ LinksInv /\ ListsTheNext(related) /\ win \in [Windows!Pages -> WindowType]
        /\ \A n \in Windows!Names : n \in Windows!Pages
    BY DEF OpenersInv, LinksInv, Windows!Pages
  <1>1. LinksInv'
    BY <1>0, LinksStep
  <1>2. ASSUME NEW p \in Windows!Pages, NEW after, NEW fields,
               Windows!Unload(p, after, fields, related),
               \/ p = Windows!Main \/ after.stage = "closed"
               \/ /\ Windows!IsOpen(p) /\ after.opener = win[p].opener
        PROVE  OpenersInv'
    <2>1. CASE p = Windows!Main \/ after.stage = "closed" \/ cut
      BY <1>0, <1>1, <1>2, <2>1, UnloadKeepsOpeners
    <2>2. CASE ~(p = Windows!Main \/ after.stage = "closed" \/ cut)
      <3> DEFINE q == after.opener
      <3>1. p \in Windows!Names /\ Windows!IsOpen(p) /\ q = win[p].opener
        BY <1>2, <2>2 DEF Windows!Pages
      <3>2. q \in Windows!Pages /\ Windows!HasScript(q) /\ IsListed(p, related[q])
        BY <1>0, <2>2, <3>1 DEF OpenersInv, WindowType
      <3> HIDE DEF q
      <3>3. q[2] < p[2]
        <4>1. p # Windows!Gone
          BY <3>1 DEF Windows!Names, Windows!Gone
        <4>2. p[2] = q[2] + 1
          BY <1>0, <3>2, <4>1 DEF IsListed, ListsTheNext
        <4> QED  BY <3>2, <4>2, Depths
      <3>4. \/ p = Windows!Main \/ after.stage = "closed" \/ cut
            \/ /\ after.opener \in Windows!Pages /\ after.opener[2] < p[2]
               /\ Windows!HasScript(after.opener) /\ IsListed(p, related[after.opener])
        BY <3>2, <3>3 DEF q
      <3> QED  BY <1>0, <1>1, <1>2, <3>4, UnloadKeepsOpeners
    <2> QED  BY <2>1, <2>2
  <1>3. CASE Windows!LeaveMain
    BY <1>2, <1>3 DEF Windows!LeaveMain, Windows!Pages
  <1>4. ASSUME NEW n \in Windows!Names, Windows!Save(n) PROVE OpenersInv'
    <2>1. n \in Windows!Pages /\ Windows!IsOpen(n) /\ win[n] \in WindowType
      BY <1>0, <1>4 DEF Windows!Save, Windows!HasScript, Windows!IsOpen
    <2>2. \E after : /\ Windows!Unload(n, after, form, related)
                     /\ after.opener = win[n].opener
      <3>1. \A number : [win[n] EXCEPT !.stage = "response", !.object = number].opener
                            = win[n].opener
        BY <2>1 DEF WindowType
      <3>2. /\ [win[n] EXCEPT !.stage = "response"].opener = win[n].opener
            /\ [win[n] EXCEPT !.stage = "loading"].opener = win[n].opener
        BY <2>1 DEF WindowType
      <3>3. \/ Windows!Unload(n, [win[n] EXCEPT !.stage = "response", !.object = created'],
                              form, related)
            \/ Windows!Unload(n, [win[n] EXCEPT !.stage = "response"], form, related)
            \/ Windows!Unload(n, [win[n] EXCEPT !.stage = "loading"], form, related)
        BY <1>4 DEF Windows!Save
      <3> QED  BY <3>1, <3>2, <3>3
    <2> QED  BY <1>2, <2>1, <2>2
  <1>5. ASSUME NEW n \in Windows!Names, Windows!Respond(n) \/ Windows!CloseWindow(n)
        PROVE  OpenersInv'
    <2>1. \E fields : Windows!Unload(n, Windows!Closed, fields, related)
      BY <1>5 DEF Windows!Respond, Windows!CloseWindow
    <2>2. Windows!Closed.stage = "closed"
      BY DEF Windows!Closed
    <2> QED  BY <1>0, <1>2, <2>1, <2>2
  <1>6. ASSUME NEW p \in Windows!Pages, Windows!Load(p) PROVE OpenersInv'
    <2>1. /\ win' = [win EXCEPT ![p] = [win[p] EXCEPT !.stage = "form"]]
          /\ win[p].stage = "loading" /\ UNCHANGED <<related, cut>>
      BY <1>0, <1>6 DEF Windows!Load
    <2>2. \A q \in Windows!Pages : /\ win'[q].opener = win[q].opener
                                   /\ Windows!HasScript(q) => win'[q].stage = "form"
                                   /\ win'[q].stage # "closed" => Windows!IsOpen(q)
      BY <1>0, <2>1 DEF WindowType, Windows!HasScript, Windows!IsOpen
    <2>3. \A n \in Windows!Names : win[n].opener \in Windows!Pages
      BY <1>0 DEF WindowType
    <2> QED
      BY <1>0, <1>1, <2>1, <2>2, <2>3
         DEF OpenersInv, ListsTheNext, IsListed, Windows!IsOpen, Windows!HasScript
  <1>7. ASSUME NEW p \in Windows!Pages, NEW f \in Fields, NEW kind \in Windows!Kinds,
               Windows!ShowAdminPopup(p, f, kind)
        PROVE  OpenersInv'
    <2> DEFINE name == Windows!AddPopupIndex(p, f)
               object == IF kind = "add" THEN 0 ELSE form[p][f].link
               after == [stage |-> "loading", opener |-> p, kind |-> kind, object |-> object]
               list == IF Windows!Contains(related[p], name) THEN related[p]
                       ELSE Append(related[p], name)
               lists == [related EXCEPT ![p] = list]
    <2>1. /\ Windows!Unload(name, after, form, lists)
          /\ Windows!HasScript(p) /\ Windows!SetPopupIndex(p) < Depth
      BY <1>7 DEF Windows!ShowAdminPopup
    <2>2. name \in Windows!Names /\ name[2] = p[2] + 1 /\ p[2] \in Nat
      <3>1. p[2] + 1 \in 1..Depth /\ p[2] \in Nat
        BY <2>1, Depths, DepthIsANumber DEF Windows!SetPopupIndex
      <3> QED
        BY <3>1 DEF Windows!AddPopupIndex, Windows!SetPopupIndex, Windows!Names
    <2>3. after.opener = p
      OBVIOUS
    <2> HIDE DEF after, name
    <2> DEFINE Entry == Windows!Names \cup {Windows!Gone}
    <2>4. /\ list \in Seq(Entry) /\ IsListed(name, list)
          /\ \A i \in DOMAIN list : \/ i \in DOMAIN related[p] /\ list[i] = related[p][i]
                                    \/ list[i] = name
          /\ \A n : IsListed(n, related[p]) => IsListed(n, list)
      <3>1. /\ related[p] \in Seq(Entry) /\ DOMAIN related[p] = 1..Len(related[p])
            /\ Len(related[p]) \in Nat /\ name \in Entry
        BY <1>0, <2>2, LenProperties DEF ListsTheNext
      <3> HIDE DEF Entry
      <3>2. CASE Windows!Contains(related[p], name)
        BY <3>1, <3>2 DEF Windows!Contains, IsListed
      <3>3. CASE ~Windows!Contains(related[p], name)
        <4>1. /\ list = Append(related[p], name) /\ list \in Seq(Entry)
              /\ DOMAIN list = 1..(Len(related[p]) + 1)
              /\ \A i \in 1..Len(related[p]) : list[i] = related[p][i]
              /\ list[Len(related[p]) + 1] = name
          BY <3>1, <3>3, AppendProperties, LenProperties
        <4> HIDE DEF list
        <4>2. \A i \in DOMAIN list : i \in DOMAIN related[p] \/ i = Len(related[p]) + 1
          BY <3>1, <4>1
        <4>3. DOMAIN related[p] \subseteq DOMAIN list /\ Len(related[p]) + 1 \in DOMAIN list
          BY <3>1, <4>1
        <4> QED  BY <3>1, <4>1, <4>2, <4>3 DEF IsListed
      <3> QED  BY <3>2, <3>3
    <2> HIDE DEF list
    <2>5. /\ lists \in [Windows!Pages -> Seq(Entry)] /\ lists[p] = list
          /\ \A q \in Windows!Pages : q # p => lists[q] = related[q]
      BY <1>0, <2>4 DEF ListsTheNext
    <2> HIDE DEF lists
    <2>6. ListsTheNext(lists)
      <3>1. ASSUME NEW q \in Windows!Pages, NEW i \in DOMAIN lists[q], lists[q][i] # Windows!Gone
            PROVE  lists[q][i] \in Windows!Names /\ lists[q][i][2] = q[2] + 1
        <4>1. CASE q # p
          BY <1>0, <2>5, <3>1, <4>1 DEF ListsTheNext
        <4>2. CASE q = p
          <5>1. CASE list[i] = name
            BY <2>2, <2>5, <4>2, <5>1
          <5>2. CASE i \in DOMAIN related[p] /\ list[i] = related[p][i]
            BY <1>0, <2>5, <3>1, <4>2, <5>2 DEF ListsTheNext
          <5> QED  BY <2>4, <2>5, <3>1, <4>2, <5>1, <5>2
        <4> QED  BY <4>1, <4>2
      <3> QED  BY <2>5, <3>1 DEF ListsTheNext
    <2>7. \A q \in Windows!Pages, n \in Windows!Names :
              IsListed(n, related[q]) => IsListed(n, lists[q])
      BY <2>4, <2>5
    <2>8. /\ after.opener \in Windows!Pages /\ after.opener[2] < name[2]
          /\ Windows!HasScript(after.opener) /\ IsListed(name, lists[after.opener])
      BY <2>1, <2>2, <2>3, <2>4, <2>5
    <2>9. name \in Windows!Pages
      BY <1>0, <2>2
    <2> QED  BY <1>1, <2>1, <2>6, <2>7, <2>8, <2>9, UnloadKeepsOpeners
  <1>8. CASE UNCHANGED <<win, related, cut>>
    BY <1>0, <1>1, <1>8
       DEF OpenersInv, ListsTheNext, IsListed, Windows!IsOpen, Windows!HasScript
  <1> QED
    BY <1>3, <1>4, <1>5, <1>6, <1>7, <1>8 DEF Windows!Next, Windows!Choose, Windows!vars

(* No window is open at first.                                            *)
LEMMA OpenersInit == Windows!Init => OpenersInv
  <1> SUFFICES ASSUME Windows!Init PROVE OpenersInv
    OBVIOUS
  <1>1. LinksInv
    BY LinksInit
  <1>2. related = [p \in Windows!Pages |-> <<>>]
    BY DEF Windows!Init
  <1>3. ListsTheNext(related)
    BY <1>2 DEF ListsTheNext
  <1>4. \A n \in Windows!Names : n \in Windows!Pages /\ n # Windows!Main
    BY Depths DEF Windows!Pages, Windows!Main
  <1>5. \A n \in Windows!Names : ~Windows!IsOpen(n)
    BY <1>4 DEF Windows!Init, Windows!IsOpen, Windows!Closed
  <1> QED  BY <1>1, <1>3, <1>5 DEF OpenersInv

(* HasItsOpener: windows of any depth, opened, navigated, answered, closed *)
(* and left in any order, have the form behind them that opened them,      *)
(* until a loop of dismissChildPopups has ended in an error.               *)
THEOREM WindowsHaveOpeners == Windows!Spec => []HasItsOpener
  <1>1. Windows!Init => OpenersInv
    BY OpenersInit
  <1>2. OpenersInv /\ [Windows!Next]_(Windows!vars) => OpenersInv'
    BY OpenersStep
  <1>3. OpenersInv => HasItsOpener
    <2> SUFFICES ASSUME OpenersInv, NEW n \in Windows!Names, Windows!IsOpen(n), ~cut
                 PROVE  /\ win[n].opener[2] < n[2] /\ Windows!HasScript(win[n].opener)
                        /\ Windows!Contains(related[win[n].opener], n)
      BY DEF HasItsOpener, Windows!HasItsOpener
    <2> DEFINE q == win[n].opener
    <2>1. Windows!HasScript(q) /\ IsListed(n, related[q]) /\ ListsTheNext(related)
      BY DEF OpenersInv
    <2>2. q \in Windows!Pages
      BY DEF OpenersInv, LinksInv, WindowType, Windows!Pages
    <2> HIDE DEF q
    <2>3. PICK i \in DOMAIN related[q] : related[q][i] = n
      BY <2>1 DEF IsListed
    <2>4. n # Windows!Gone
      BY DEF Windows!Names, Windows!Gone
    <2>5. n[2] = q[2] + 1 /\ q[2] \in Nat
      BY <2>1, <2>2, <2>3, <2>4, Depths DEF ListsTheNext
    <2>6. related[q] \in Seq(Windows!Names \cup {Windows!Gone})
      BY <2>1, <2>2 DEF ListsTheNext
    <2>7. i \in 1..Len(related[q])
      BY <2>3, <2>6, LenProperties
    <2>8. Windows!Contains(related[q], n)
      BY <2>3, <2>7 DEF Windows!Contains
    <2> QED  BY <2>1, <2>5, <2>8 DEF q
  <1> QED  BY <1>1, <1>2, <1>3, PTL DEF Windows!Spec

-----------------------------------------------------------------------------
(* The forms in the API's pages.                                           *)

Documents == [kind : Api!Kinds, emails : SUBSET Emails]
RequestType ==
    [method : {"GET", "POST", "PUT", "PATCH", "DELETE", "OPTIONS"}, address : Api!Addresses,
     email : Emails \cup {Api!None}, token : Int, ajax : BOOLEAN,
     state : {"sent", "served", "over"}, awaited : BOOLEAN, lost : BOOLEAN,
     answer : Documents, given : Nat]

(* A button of a page sends to the address it is for, with what is needed. *)
FitsItsPage(request) ==
    /\ request.method = "POST" => request.address = "list"
    /\ request.method \in {"PUT", "PATCH", "DELETE"} => request.address = "row"
    /\ request.method \in {"POST", "PUT", "PATCH"} => request.email \in Emails
Requests == {request \in RequestType : FitsItsPage(request)}

(* What a document says, under its address, is so when the row with a page *)
(* is here and the others are these.                                       *)
IsTrue(document, place, here, these) ==
    /\ document.kind = "list" =>
           place = "list" /\ document.emails = these \cup ({here} \ {Api!None})
    /\ document.kind = "row" =>
           place = "row" /\ here # Api!None /\ document.emails = {here}
    /\ document.kind = "made" => place = "list" /\ document.emails \subseteq these
    /\ document.kind = "gone" => here = Api!None /\ place = "row"

(* Of requests that follow one another one is awaited, and when its answer *)
(* is there it is true, like a page that waits for nothing.                *)
AnswersAreTrue ==
    /\ Api!Awaited(requests) = {} => IsTrue(displayed, address, row, others)
    /\ \A i \in Api!Awaited(requests) :
          requests[i].state = "served" /\ ~requests[i].lost =>
              IsTrue(requests[i].answer, requests[i].address, row, others)
ApiTypes ==
    /\ row \in Emails \cup {Api!None} /\ others \subseteq Emails
    /\ secret \in Nat /\ csrftoken \in Nat
    /\ displayed \in Documents /\ address \in Api!Addresses
ApiInv ==
    /\ ApiTypes /\ requests \in Seq(Requests)
    /\ ~overlapped => \A i, j \in Api!Awaited(requests) : i = j
    /\ ~overlapped /\ ~late => AnswersAreTrue

(* What is awaited of some requests when less of them is.                  *)
Fewer(rs, more) ==
    /\ rs \in Seq(Requests) /\ Len(rs) = Len(more)
    /\ \A i \in 1..Len(rs) : rs[i].awaited => more[i].awaited

LEMMA AbandonedAreFewer ==
    ASSUME NEW rs \in Seq(Requests), NEW which
    PROVE  /\ Fewer(Api!Abandoned(rs, which), rs)
           /\ \A i \in which : i \notin Api!Awaited(Api!Abandoned(rs, which))
  <1> DEFINE left(i) == IF i \in which THEN [rs[i] EXCEPT !.awaited = FALSE] ELSE rs[i]
             some == [i \in 1..Len(rs) |-> left(i)]
  <1>1. Api!Abandoned(rs, which) = some
    BY DEF Api!Abandoned
  <1>2. ASSUME NEW i \in 1..Len(rs)
        PROVE  /\ left(i) \in Requests
               /\ left(i).awaited => rs[i].awaited
               /\ i \in which => ~left(i).awaited
    <2>1. rs[i] \in Requests
      OBVIOUS
    <2> QED  BY <2>1 DEF Requests, RequestType, FitsItsPage
  <1>3. DOMAIN some = 1..Len(rs) /\ \A i \in 1..Len(rs) : some[i] = left(i)
    OBVIOUS
  <1> HIDE DEF left
  <1>4. some \in Seq(Requests) /\ Len(some) = Len(rs)
    BY <1>2
  <1> HIDE DEF some
  <1> QED  BY <1>1, <1>2, <1>3, <1>4 DEF Fewer, Api!Awaited

LEMMA FinishedAreFewer ==
    ASSUME NEW rs \in Seq(Requests), NEW i \in DOMAIN rs
    PROVE  /\ Fewer(Api!Finished(rs, i), rs)
           /\ i \notin Api!Awaited(Api!Finished(rs, i))
  <1> DEFINE done == [rs[i] EXCEPT !.awaited = FALSE,
                                   !.state = IF rs[i].state = "served" THEN "over" ELSE rs[i].state]
  <1>1. rs[i] \in Requests /\ i \in 1..Len(rs)
    OBVIOUS
  <1>2. done \in Requests /\ ~done.awaited
    BY <1>1 DEF Requests, RequestType, FitsItsPage
  <1>3. Api!Finished(rs, i) = [rs EXCEPT ![i] = done]
    BY <1>1 DEF Api!Finished, Requests, RequestType
  <1> HIDE DEF done
  <1>4. [rs EXCEPT ![i] = done] \in Seq(Requests)
    BY <1>1, <1>2
  <1> QED  BY <1>1, <1>2, <1>3, <1>4 DEF Fewer, Api!Awaited

(* A request that is sent alone is the only one awaited, and not served.   *)
LEMMA SendKeeps ==
    ASSUME ApiInv, NEW rs \in Seq(Requests), NEW request \in Requests,
           request.state = "sent", request.awaited, Api!Send(rs, request), UNCHANGED late, ApiTypes'
    PROVE  ApiInv'
  <1> DEFINE before == IF request.ajax THEN rs ELSE Api!Abandoned(rs, Api!Loading(rs))
  <1>1. Fewer(before, rs)
    BY AbandonedAreFewer DEF Fewer
  <1>2. requests' = Append(before, request)
    BY DEF Api!Send
  <1>3. ~overlapped' => Api!Awaited(rs) = {}
    BY DEF Api!Send
  <1> HIDE DEF before
  <1>4. /\ requests' \in Seq(Requests) /\ Len(requests') = Len(before) + 1
        /\ requests'[Len(before) + 1] = request
        /\ \A i \in 1..Len(before) : requests'[i] = before[i]
    BY <1>1, <1>2 DEF Fewer
  <1>5. ~overlapped' => \A i \in Api!Awaited(requests') : i = Len(before) + 1
    BY <1>1, <1>3, <1>4 DEF Api!Awaited, Fewer
  <1>6. ~overlapped' => AnswersAreTrue'
    <2>1. ASSUME ~overlapped', NEW i \in Api!Awaited(requests')
          PROVE  requests'[i].state # "served"
      BY <1>4, <1>5, <2>1
    <2>2. Len(before) + 1 \in Api!Awaited(requests')
      BY <1>1, <1>4 DEF Api!Awaited, Fewer
    <2> QED  BY <2>1, <2>2 DEF AnswersAreTrue
  <1> QED  BY <1>4, <1>5, <1>6 DEF ApiInv

(* When none is awaited any more and the last was not overlapped, the page *)
(* is the one its answer brought.                                          *)
LEMMA ShownKeeps ==
    ASSUME ApiInv, ApiTypes', NEW i \in Api!Awaited(requests),
           Fewer(requests', requests), i \notin Api!Awaited(requests'),
           UNCHANGED <<overlapped, late, row, others>>,
           \/ displayed' = requests[i].answer /\ requests[i].state = "served" /\ ~requests[i].lost
           \/ displayed'.kind = "error",
           address' = requests[i].address
    PROVE  ApiInv'
  <1>1. Api!Awaited(requests') \subseteq Api!Awaited(requests)
    BY DEF Fewer, Api!Awaited, ApiInv
  <1>2. ASSUME ~overlapped, ~late PROVE AnswersAreTrue'
    <2>1. Api!Awaited(requests') = {}
      BY <1>1, <1>2 DEF ApiInv
    <2>2. IsTrue(displayed', address', row', others')
      <3>1. CASE displayed'.kind = "error"
        BY <3>1 DEF IsTrue
      <3>2. CASE displayed' = requests[i].answer /\ requests[i].state = "served" /\ ~requests[i].lost
        BY <1>2, <3>2 DEF ApiInv, AnswersAreTrue
      <3> QED  BY <3>1, <3>2
    <2> QED  BY <2>1, <2>2 DEF AnswersAreTrue
  <1>3. ~overlapped' => \A j, k \in Api!Awaited(requests') : j = k
    BY <1>1 DEF ApiInv
  <1> QED  BY <1>2, <1>3 DEF ApiInv, Fewer

(* What the server answers is so when it has answered.                     *)
Answers(i, kind, emails) ==
    requests' = [requests EXCEPT ![i].state = "served", ![i].given = secret,
                                 ![i].answer = Api!Document(kind, emails)]
ServedTruly(i) ==
    /\ requests' \in Seq(Requests) /\ Len(requests') = Len(requests)
    /\ \A j \in 1..Len(requests) : j # i => requests'[j] = requests[j]
    /\ requests'[i].awaited = requests[i].awaited
    /\ requests'[i].lost = requests[i].lost
    /\ IsTrue(requests'[i].answer, requests'[i].address, row', others')
    /\ row' \in Emails \cup {Api!None} /\ others' \subseteq Emails
LEMMA ServedIsTrue ==
    ASSUME ApiInv, NEW i \in DOMAIN requests, Api!Serve(i)
    PROVE  ServedTruly(i)
  <1> DEFINE request == requests[i]
             answered(kind, emails) ==
                 [request EXCEPT !.state = "served", !.given = secret,
                                 !.answer = Api!Document(kind, emails)]
  <1>0. /\ request \in Requests /\ i \in 1..Len(requests) /\ secret \in Nat
        /\ requests \in Seq(Requests) /\ row \in Emails \cup {Api!None} /\ others \subseteq Emails
    BY DEF ApiInv, ApiTypes
  <1>1. ASSUME NEW kind \in Api!Kinds, NEW emails \in SUBSET Emails,
               requests' = [requests EXCEPT ![i] = answered(kind, emails)],
               IsTrue(Api!Document(kind, emails), request.address, row', others'),
               row' \in Emails \cup {Api!None}, others' \subseteq Emails
        PROVE  ServedTruly(i)
    <2>1. Api!Document(kind, emails) \in Documents
      BY DEF Api!Document, Documents
    <2>2. /\ answered(kind, emails) \in Requests
          /\ answered(kind, emails).awaited = request.awaited
          /\ answered(kind, emails).lost = request.lost
          /\ answered(kind, emails).answer = Api!Document(kind, emails)
          /\ answered(kind, emails).address = request.address
      BY <1>0, <2>1 DEF Requests, RequestType, FitsItsPage
    <2> HIDE DEF answered
    <2>3. requests' \in Seq(Requests) /\ Len(requests') = Len(requests)
          /\ requests'[i] = answered(kind, emails)
          /\ \A j \in 1..Len(requests) : j # i => requests'[j] = requests[j]
      BY <1>0, <1>1, <2>2
    <2> QED  BY <1>1, <2>2, <2>3 DEF ServedTruly
  <1>2. ASSUME NEW kind, NEW emails
        PROVE  [requests EXCEPT ![i].state = "served", ![i].given = secret,
                                ![i].answer = Api!Document(kind, emails)]
               = [requests EXCEPT ![i] = answered(kind, emails)]
    BY <1>0 DEF Requests, RequestType
  <1> HIDE DEF answered
  <1>3. ASSUME NEW kind \in Api!Kinds, NEW emails \in SUBSET Emails, Answers(i, kind, emails),
               IsTrue(Api!Document(kind, emails), request.address, row', others'),
               row' \in Emails \cup {Api!None}, others' \subseteq Emails
        PROVE  ServedTruly(i)
    <2>1. requests' = [requests EXCEPT ![i] = answered(kind, emails)]
      BY <1>2, <1>3 DEF Answers
    <2> QED  BY <1>1, <1>3, <2>1
  <1>4. ASSUME NEW kind \in {"options", "refused", "invalid"}, Answers(i, kind, {}),
               UNCHANGED <<row, others>>
        PROVE  ServedTruly(i)
    <2>1. kind \in Api!Kinds /\ {} \in SUBSET Emails
      BY DEF Api!Kinds
    <2>2. IsTrue(Api!Document(kind, {}), request.address, row', others')
      BY DEF IsTrue, Api!Document
    <2> QED  BY <1>0, <1>3, <1>4, <2>1, <2>2
  <1>5. ASSUME Answers(i, "gone", {}), UNCHANGED others, row' = Api!None, request.address = "row"
        PROVE  ServedTruly(i)
    <2>1. "gone" \in Api!Kinds /\ {} \in SUBSET Emails
      BY DEF Api!Kinds
    <2>2. IsTrue(Api!Document("gone", {}), request.address, row', others')
      BY <1>5 DEF IsTrue, Api!Document
    <2>3. row' \in Emails \cup {Api!None} /\ others' \subseteq Emails
      BY <1>0, <1>5
    <2> QED  BY <1>3, <1>5, <2>1, <2>2, <2>3
  <1>6. CASE Api!Missing(request) /\ Answers(i, "gone", {}) /\ UNCHANGED <<row, others>>
    <2>1. row = Api!None /\ request.address = "row"
      BY <1>0, <1>6 DEF Api!Missing, Requests, FitsItsPage
    <2> QED  BY <1>5, <1>6, <2>1
  <1>7. CASE /\ request.method = "GET" /\ UNCHANGED <<row, others>>
             /\ Answers(i, Api!Get(request.address).kind, Api!Get(request.address).emails)
    <2> DEFINE document == Api!Get(request.address)
    <2>1. request.address \in {"list", "row"}
      BY <1>0 DEF Requests, RequestType, Api!Addresses
    <2>2. document \in Documents /\ IsTrue(document, request.address, row, others)
      BY <1>0, <2>1, NoEmailIsNone
         DEF Api!Get, Api!Document, Documents, Api!Kinds, IsTrue
    <2>3. document.kind \in Api!Kinds /\ document.emails \in SUBSET Emails
      BY <2>2 DEF Documents
    <2>4. Api!Document(document.kind, document.emails) = document
      BY <2>2 DEF Api!Document, Documents
    <2> HIDE DEF document
    <2>5. Answers(i, document.kind, document.emails)
      BY <1>7 DEF document
    <2> QED  BY <1>0, <1>3, <1>7, <2>2, <2>3, <2>4, <2>5
  <1>8. CASE request.method = "DELETE" /\ Answers(i, "gone", {}) /\ row' = Api!None /\ UNCHANGED others
    <2>1. request.address = "row"
      BY <1>0, <1>8 DEF Requests, FitsItsPage
    <2> QED  BY <1>5, <1>8, <2>1
  <1>9. CASE /\ request.method \in {"PUT", "PATCH"} /\ Answers(i, "row", {request.email})
             /\ row' = request.email /\ UNCHANGED others
    <2>1. request.address = "row" /\ request.email \in Emails
      BY <1>0, <1>9 DEF Requests, FitsItsPage
    <2>2. "row" \in Api!Kinds /\ {request.email} \in SUBSET Emails
      BY <2>1 DEF Api!Kinds
    <2>3. request.email # Api!None
      BY <2>1, NoEmailIsNone
    <2>4. IsTrue(Api!Document("row", {request.email}), request.address, row', others')
      BY <1>9, <2>1, <2>3 DEF IsTrue, Api!Document
    <2> QED  BY <1>0, <1>3, <1>9, <2>1, <2>2, <2>4
  <1>10. CASE /\ request.method = "POST" /\ Answers(i, "made", {request.email})
              /\ others' = others \cup {request.email} /\ UNCHANGED row
    <2>1. request.address = "list" /\ request.email \in Emails
      BY <1>0, <1>10 DEF Requests, FitsItsPage
    <2>2. "made" \in Api!Kinds /\ {request.email} \in SUBSET Emails
      BY <2>1 DEF Api!Kinds
    <2>3. IsTrue(Api!Document("made", {request.email}), request.address, row', others')
      BY <1>10, <2>1 DEF IsTrue, Api!Document
    <2> QED  BY <1>0, <1>3, <1>10, <2>1, <2>2, <2>3
  <1> QED  BY <1>4, <1>6, <1>7, <1>8, <1>9, <1>10 DEF Answers, Api!Serve

(* A request of this page, or a load, fits the page it is sent to.         *)
LEMMA SentFits ==
    ASSUME ApiInv, NEW method \in {"GET", "POST", "PUT", "PATCH", "DELETE", "OPTIONS"},
           NEW place \in Api!Addresses, NEW email \in Emails \cup {Api!None}, NEW ajax \in BOOLEAN,
           method = "POST" => place = "list",
           method \in {"PUT", "PATCH", "DELETE"} => place = "row",
           method \in {"POST", "PUT", "PATCH"} => email \in Emails
    PROVE  /\ Api!Request(method, place, email, ajax) \in Requests
           /\ Api!Request(method, place, email, ajax).state = "sent"
           /\ Api!Request(method, place, email, ajax).awaited
  <1> DEFINE request == Api!Request(method, place, email, ajax)
  <1>1. Api!Error \in Documents
    BY DEF Api!Error, Api!Document, Documents, Api!Kinds
  <1>2. (IF method \in Api!csrfSafeMethod THEN -1 ELSE csrftoken) \in Int
    BY DEF ApiInv, ApiTypes
  <1>3. request \in RequestType /\ request.state = "sent" /\ request.awaited
        /\ request.method = method /\ request.address = place /\ request.email = email
    BY <1>1, <1>2 DEF Api!Request, RequestType
  <1> HIDE DEF request
  <1>4. request \in Requests
    BY <1>3 DEF Requests, FitsItsPage
  <1> QED  BY <1>3, <1>4 DEF request

(* An answer that nothing overtakes is true when it is shown.              *)
LEMMA ServeKeeps ==
    ASSUME ApiInv, NEW i \in DOMAIN requests, Api!Serve(i) PROVE ApiInv'
  <1>1. ServedTruly(i)
    BY ServedIsTrue
  <1>2. /\ UNCHANGED <<secret, displayed, address, csrftoken, clicks, losses, overlapped>>
        /\ late' = IF requests[i].awaited /\ ~requests[i].lost THEN FALSE
                   ELSE late \/ <<row, others>>' # <<row, others>>
    BY DEF Api!Serve
  <1>3. i \in 1..Len(requests) /\ requests \in Seq(Requests)
    BY DEF ApiInv
  <1>4. Api!Awaited(requests') = Api!Awaited(requests)
    BY <1>1, <1>3 DEF Api!Awaited, ServedTruly
  <1>5. ASSUME ~overlapped, ~late' PROVE AnswersAreTrue'
    <2>1. CASE requests[i].awaited /\ ~requests[i].lost
      <3>1. Api!Awaited(requests) = {i}
        BY <1>3, <1>5, <2>1 DEF ApiInv, Api!Awaited
      <3> QED  BY <1>1, <1>2, <1>4, <3>1 DEF AnswersAreTrue, ServedTruly
    <2>2. CASE ~(requests[i].awaited /\ ~requests[i].lost)
      <3>1. ~late /\ row' = row /\ others' = others
        BY <1>2, <1>5, <2>2
      <3>2. AnswersAreTrue
        BY <1>5, <3>1 DEF ApiInv
      <3>3. ASSUME NEW j \in Api!Awaited(requests'), requests'[j].state = "served",
                   ~requests'[j].lost
            PROVE  requests'[j] = requests[j]
        BY <1>1, <1>3, <1>4, <2>2, <3>3 DEF Api!Awaited, ServedTruly
      <3> QED  BY <1>2, <1>4, <3>1, <3>2, <3>3 DEF AnswersAreTrue
    <2> QED  BY <2>1, <2>2
  <1> QED  BY <1>1, <1>2, <1>4, <1>5 DEF ApiInv, ApiTypes, ServedTruly

LEMMA ApiStep ==
    ASSUME ApiInv, [Api!Next]_(Api!vars) PROVE ApiInv'
  <1>0. /\ requests \in Seq(Requests) /\ ApiTypes
        /\ \A i \in DOMAIN requests : /\ requests[i] \in Requests
                                      /\ requests[i].address \in Api!Addresses
                                      /\ requests[i].answer \in Documents
                                      /\ requests[i].given \in Nat
    BY DEF ApiInv, Requests, RequestType
  <1>1. ASSUME NEW button \in Api!Forms(address), NEW email \in Emails \cup {Api!None},
               Api!DoAjaxSubmit(button, email)
        PROVE  ApiInv'
    <2> DEFINE method == Api!Method(button)
               ajax == ~Api!SubmitsItself(button)
    <2>1. /\ method \in {"POST", "PUT", "PATCH", "DELETE", "OPTIONS"}
          /\ method = "POST" => address = "list"
          /\ method \in {"PUT", "PATCH", "DELETE"} => address = "row"
      <3>1. address \in {"list", "row"}
        BY <1>0 DEF ApiTypes, Api!Addresses
      <3>2. address = "row" => button \in {Api!Form("", "OPTIONS", "", FALSE),
                Api!Form("PUT", "", "POST", FALSE), Api!Form("PUT", "", "POST", TRUE),
                Api!Form("PATCH", "", "POST", TRUE), Api!Form("", "DELETE", "", FALSE)}
        BY DEF Api!Forms
      <3>3. address = "list" => button \in {Api!Form("", "OPTIONS", "", FALSE),
                Api!Form("", "", "POST", FALSE), Api!Form("", "", "POST", TRUE)}
        BY DEF Api!Forms
      <3>4. /\ Api!Method(Api!Form("", "OPTIONS", "", FALSE)) = "OPTIONS"
            /\ Api!Method(Api!Form("PUT", "", "POST", FALSE)) = "PUT"
            /\ Api!Method(Api!Form("PUT", "", "POST", TRUE)) = "PUT"
            /\ Api!Method(Api!Form("PATCH", "", "POST", TRUE)) = "PATCH"
            /\ Api!Method(Api!Form("", "DELETE", "", FALSE)) = "DELETE"
            /\ Api!Method(Api!Form("", "", "POST", FALSE)) = "POST"
            /\ Api!Method(Api!Form("", "", "POST", TRUE)) = "POST"
        BY DEF Api!Method, Api!Form
      <3> QED  BY <3>1, <3>2, <3>3, <3>4
    <2>2. /\ method \in {"POST", "PUT", "PATCH"} => email \in Emails
          /\ Api!Send(requests, Api!Request(method, address, email, ajax))
          /\ UNCHANGED <<row, others, secret, displayed, address, csrftoken, losses, late>>
      BY <1>1, <2>1 DEF Api!DoAjaxSubmit
    <2>3. ajax \in BOOLEAN /\ address \in Api!Addresses
      BY <1>0 DEF ApiTypes
    <2> HIDE DEF method, ajax
    <2>4. /\ Api!Request(method, address, email, ajax) \in Requests
          /\ Api!Request(method, address, email, ajax).state = "sent"
          /\ Api!Request(method, address, email, ajax).awaited
      BY <2>1, <2>2, <2>3, SentFits
    <2>5. ApiTypes'
      BY <1>0, <2>2 DEF ApiTypes
    <2> QED  BY <1>0, <2>2, <2>4, <2>5, SendKeeps
  <1>2. ASSUME NEW place \in Api!Addresses, NEW rs \in Seq(Requests),
               Api!Send(rs, Api!Request("GET", place, Api!None, FALSE)),
               UNCHANGED <<row, others, secret, displayed, address, csrftoken, late>>
        PROVE  ApiInv'
    <2> DEFINE request == Api!Request("GET", place, Api!None, FALSE)
    <2>1. request \in Requests /\ request.state = "sent" /\ request.awaited
      BY SentFits
    <2>2. ApiTypes'
      BY <1>0, <1>2 DEF ApiTypes
    <2> HIDE DEF request
    <2> QED  BY <1>2, <2>1, <2>2, SendKeeps DEF request
  <1>3. ASSUME NEW place \in Api!Addresses, Api!Follow(place) PROVE ApiInv'
    BY <1>0, <1>2, <1>3 DEF Api!Follow
  <1>4. ASSUME NEW i \in DOMAIN requests, Api!Lose(i) PROVE ApiInv'
    <2> DEFINE gone == [requests[i] EXCEPT !.lost = TRUE]
    <2>1. /\ requests' = [requests EXCEPT ![i] = gone]
          /\ UNCHANGED <<row, others, secret, displayed, address, csrftoken, overlapped, late>>
      BY <1>4 DEF Api!Lose
    <2>2. gone \in Requests /\ gone.lost /\ gone.awaited = requests[i].awaited
      BY <1>0 DEF Requests, RequestType, FitsItsPage
    <2> HIDE DEF gone
    <2>3. /\ requests' \in Seq(Requests) /\ Len(requests') = Len(requests)
          /\ requests'[i] = gone
          /\ \A j \in 1..Len(requests) : j # i => requests'[j] = requests[j]
      BY <1>0, <2>1, <2>2
    <2>4. Api!Awaited(requests') = Api!Awaited(requests)
      BY <1>0, <2>2, <2>3 DEF Api!Awaited
    <2>5. AnswersAreTrue => AnswersAreTrue'
      BY <1>0, <2>1, <2>2, <2>3, <2>4 DEF AnswersAreTrue, Api!Awaited
    <2> QED  BY <1>0, <2>1, <2>3, <2>4, <2>5 DEF ApiInv, ApiTypes
  <1>5. ASSUME NEW i \in DOMAIN requests, Api!Always(i) PROVE ApiInv'
    <2>1. /\ UNCHANGED <<row, others, secret, losses, late>>
          /\ i \in Api!Awaited(requests)
      BY <1>5 DEF Api!Always, Api!Awaited
    <2>2. Fewer(Api!Finished(requests, i), requests)
          /\ i \notin Api!Awaited(Api!Finished(requests, i))
      BY <1>0, FinishedAreFewer
    <2>3. CASE requests[i].lost /\ Api!Redirect(i)
      <3>1. Api!Finished(requests, i) \in Seq(Requests)
        BY <2>2 DEF Fewer
      <3> QED  BY <1>0, <1>2, <2>1, <2>3, <3>1 DEF Api!Redirect
    <2>4. CASE ~requests[i].lost /\ requests[i].state = "served" /\ Api!ReplaceDocument(i)
      <3> DEFINE rs == Api!Finished(requests, i)
      <3>1. /\ displayed' = requests[i].answer /\ address' = requests[i].address
            /\ csrftoken' = requests[i].given /\ UNCHANGED overlapped
            /\ requests' \in {rs, Api!Abandoned(rs, Api!Awaited(rs))}
        BY <2>4 DEF Api!ReplaceDocument, Api!Show
      <3> HIDE DEF rs
      <3>2. Fewer(rs, requests) /\ i \notin Api!Awaited(rs)
        BY <2>2 DEF rs
      <3>3. Fewer(requests', requests) /\ i \notin Api!Awaited(requests')
        <4>1. rs \in Seq(Requests)
          BY <3>2 DEF Fewer
        <4>2. Fewer(Api!Abandoned(rs, Api!Awaited(rs)), rs)
          BY <4>1, AbandonedAreFewer
        <4> QED  BY <3>1, <3>2, <4>2 DEF Fewer, Api!Awaited
      <3>4. ApiTypes'
        BY <1>0, <2>1, <3>1 DEF ApiTypes
      <3> QED  BY <2>1, <2>4, <3>1, <3>3, <3>4, ShownKeeps
    <2> QED  BY <1>5, <2>3, <2>4 DEF Api!Always
  <1>6. ASSUME NEW i \in DOMAIN requests, Api!Loaded(i) PROVE ApiInv'
    <2> DEFINE rs == Api!Abandoned(requests, Api!Awaited(requests))
    <2>1. /\ i \in Api!Awaited(requests) /\ requests' = Api!Finished(rs, i)
          /\ requests[i].lost \/ requests[i].state = "served"
          /\ IF requests[i].lost THEN Api!Show(Api!Error, requests[i].address, 0)
             ELSE Api!Show(requests[i].answer, requests[i].address, requests[i].given)
          /\ UNCHANGED <<row, others, secret, clicks, losses, overlapped, late>>
      BY <1>6 DEF Api!Loaded, Api!Loading
    <2>2. Fewer(rs, requests)
      BY <1>0, AbandonedAreFewer
    <2> HIDE DEF rs
    <2>3. i \in DOMAIN rs /\ rs \in Seq(Requests)
      BY <1>0, <2>2 DEF Fewer
    <2>4. Fewer(requests', requests) /\ i \notin Api!Awaited(requests')
      <3>1. Fewer(Api!Finished(rs, i), rs) /\ i \notin Api!Awaited(Api!Finished(rs, i))
        BY <2>3, FinishedAreFewer
      <3> QED  BY <2>1, <2>2, <3>1 DEF Fewer
    <2>5. Api!Error \in Documents /\ Api!Error.kind = "error"
      BY DEF Api!Error, Api!Document, Documents, Api!Kinds
    <2>6. /\ \/ displayed' = requests[i].answer /\ requests[i].state = "served" /\ ~requests[i].lost
             \/ displayed'.kind = "error"
          /\ address' = requests[i].address /\ displayed' \in Documents /\ csrftoken' \in Nat
      BY <1>0, <2>1, <2>5 DEF Api!Show
    <2>7. ApiTypes'
      BY <1>0, <2>1, <2>6 DEF ApiTypes
    <2> QED  BY <2>1, <2>4, <2>6, <2>7, ShownKeeps
  <1>7. CASE Api!Login
    BY <1>7 DEF Api!Login, ApiInv, ApiTypes, AnswersAreTrue
  <1>8. CASE UNCHANGED Api!vars
    BY <1>8 DEF Api!vars, ApiInv, ApiTypes, AnswersAreTrue
  <1> QED  BY <1>1, <1>3, <1>4, <1>5, <1>6, <1>7, <1>8, ServeKeeps DEF Api!Next

(* The first page shows what is stored.                                   *)
LEMMA ApiInit == Api!Init => ApiInv
  <1> SUFFICES ASSUME Api!Init PROVE ApiInv
    OBVIOUS
  <1>1. /\ row \in Emails /\ others = {} /\ secret = 0 /\ csrftoken = 0
        /\ address \in {"list", "row"} /\ displayed = Api!Get(address) /\ requests = <<>>
    BY DEF Api!Init, Api!Addresses
  <1>2. displayed \in Documents /\ IsTrue(displayed, address, row, others)
    BY <1>1, NoEmailIsNone DEF Api!Get, Api!Document, Documents, Api!Kinds, IsTrue
  <1>3. requests \in Seq(Requests) /\ Api!Awaited(requests) = {}
    BY <1>1 DEF Api!Awaited
  <1> QED  BY <1>1, <1>2, <1>3 DEF ApiInv, ApiTypes, AnswersAreTrue, Api!Addresses

(* ShowsTheDatabase: with any number of clicks and links, of requests and  *)
(* answers lost, and of logins meanwhile, a page that waits for nothing    *)
(* shows what is stored, under its address, if its requests were sent one  *)
(* after the other and nothing came late.                                  *)
THEOREM PagesAreTrue == Api!Spec => []ShowsTheDatabase
  <1>1. Api!Init => ApiInv
    BY ApiInit
  <1>2. ApiInv /\ [Api!Next]_(Api!vars) => ApiInv'
    BY ApiStep
  <1>3. ApiInv => ShowsTheDatabase
    <2> SUFFICES ASSUME ApiInv, Api!Awaited(requests) = {}, ~overlapped, ~late
                 PROVE  /\ displayed.kind \in {"list", "row"} => displayed = Api!Get(address)
                        /\ displayed.kind = "made" => address = "list" /\ displayed.emails \subseteq others
                        /\ displayed.kind = "gone" => row = Api!None /\ address = "row"
      BY DEF ShowsTheDatabase, Api!ShowsTheDatabase
    <2>1. displayed \in Documents /\ IsTrue(displayed, address, row, others)
      BY DEF ApiInv, ApiTypes, AnswersAreTrue
    <2>2. ASSUME displayed.kind \in {"list", "row"} PROVE displayed = Api!Get(address)
      BY <2>1, <2>2 DEF IsTrue, Documents, Api!Get, Api!Document
    <2> QED  BY <2>1, <2>2 DEF IsTrue
  <1> QED  BY <1>1, <1>2, <1>3, PTL DEF Api!Spec

-----------------------------------------------------------------------------
(* What pages remember.                                                    *)

(* The texts that are kept are in lower case.                              *)
Lowered == {Lower(text) : text \in QuickTexts}
Typable == QuickTexts \cup Lowered
Quick == {Memory!CheckValue(text) : text \in Typable}
Storages == [filter : Lowered, filters : [Memory!Filters -> Memory!States]]
KeptType == [theme : Memory!Modes \cup {"unset", "other"}, sidebar : {"unset", "true", "false"},
             tabstyle : Memory!Forms \cup {"unset"}]
ApiPages == [view : {"api"}, form : Memory!Forms]

(* A page of the administration folds the filters its variable says, and   *)
(* makes room for the sidebar that is there, however old it is.            *)
AdminType ==
    [view : Indexes, theme : Memory!Modes, isOpen : {"true", "false"}, shifted : BOOLEAN,
     quick : Quick, filters : [Memory!Filters -> Memory!States], open : SUBSET Memory!Filters]
AdminPages ==
    {p \in AdminType : /\ p.open = Memory!InitFilters(p.view, p.filters)
                       /\ p.shifted <=> p.isOpen = "true"}
PageType == {Memory!Closed} \cup ApiPages \cup AdminPages

(* These aspects of a page are what k and s, kept for all tabs and for     *)
(* this one, say.                                                          *)
Fresh(p, aspects, k, s) ==
    /\ aspects \subseteq {"form", "theme", "sidebar", "quick", "filters"}
    /\ p \in AdminPages => "form" \notin aspects
    /\ p \in ApiPages => aspects \subseteq {"form"}
    /\ p = Memory!Closed => aspects = {}
    /\ "theme" \in aspects => p.theme = Memory!SetTheme(k.theme)
    /\ "sidebar" \in aspects => p.isOpen = IF k.sidebar = "unset" THEN "true" ELSE k.sidebar
    /\ "quick" \in aspects => /\ p.quick.shown = Memory!CheckValue(s.filter).shown
                              /\ p.quick.none = Memory!CheckValue(s.filter).none
    /\ "filters" \in aspects => p.open = Memory!InitFilters(p.view, s.filters)
    /\ "form" \in aspects =>
           p.form = IF k.tabstyle \in Memory!Forms THEN k.tabstyle ELSE "html-tab"

MemoryInv ==
    /\ kept \in KeptType /\ session \in [Tabs -> Storages]
    /\ page \in [Tabs -> PageType] /\ previous \in [Tabs -> PageType]
    /\ current = [tab \in Tabs |-> current[tab]]
    /\ \A tab \in Tabs : Fresh(page[tab], current[tab], kept, session[tab])

LEMMA EmptyIsLower == Empty \in QuickTexts /\ Empty \in Lowered
  BY LowerIsSound DEF Lowered

(* The kinds of pages are told apart by what they show.                    *)
LEMMA KindsOfPages ==
    ASSUME NEW p \in PageType
    PROVE  /\ p.view \in Indexes => p \in AdminPages /\ p \in AdminType
           /\ p.view = "api" => p \in ApiPages
           /\ p # Memory!Closed => p.view \in Indexes \cup {"api"}
           /\ p \in AdminPages => p \notin ApiPages /\ p # Memory!Closed /\ p.view \in Indexes
           /\ p \in ApiPages => p # Memory!Closed /\ p.view = "api"
           /\ Memory!Closed.view = "closed"
  <1>1. Memory!Closed.view = "closed"
    BY DEF Memory!Closed
  <1>2. p \in ApiPages => p.view = "api"
    BY DEF ApiPages
  <1>3. p \in AdminPages => p.view \in Indexes /\ p \in AdminType
    BY DEF AdminPages, AdminType
  <1> QED  BY <1>1, <1>2, <1>3, ListsAreNames DEF PageType

LEMMA ThemesAreModes ==
    \A mode : /\ Memory!SetTheme(mode) \in Memory!Modes
              /\ Memory!SetTheme(Memory!SetTheme(mode)) = Memory!SetTheme(mode)
  BY DEF Memory!SetTheme, Memory!Modes

LEMMA FiltersOfAList ==
    ASSUME NEW view \in Indexes, NEW filters
    PROVE  /\ FiltersOf(view) \subseteq Memory!Filters
           /\ Memory!InitFilters(view, filters) \subseteq Memory!Filters
  BY DEF Memory!Filters, Memory!InitFilters

(* A page that was just loaded shows what is kept.                         *)
LEMMA AdminPageIsFresh ==
    ASSUME kept \in KeptType, NEW view \in Indexes, NEW storage \in Storages,
           NEW k, k.theme = Memory!SetTheme(kept.theme) \/ k = kept, k.sidebar = kept.sidebar
    PROVE  /\ Memory!AdminPage(view, storage) \in AdminPages
           /\ Fresh(Memory!AdminPage(view, storage), Memory!AspectsOf(view), k, storage)
  <1> DEFINE p == Memory!AdminPage(view, storage)
             isOpen == Memory!NavSidebarIsOpen
             shifted == (isOpen = "true")
  <1>1. isOpen \in {"true", "false"}
        /\ isOpen = IF kept.sidebar = "unset" THEN "true" ELSE kept.sidebar
    BY DEF Memory!NavSidebarIsOpen, KeptType
  <1>2. shifted \in BOOLEAN /\ (shifted <=> isOpen = "true")
    OBVIOUS
  <1>3. p = [view |-> view, theme |-> Memory!SetTheme(kept.theme), isOpen |-> isOpen,
             shifted |-> shifted, quick |-> Memory!CheckValue(storage.filter),
             filters |-> storage.filters, open |-> Memory!InitFilters(view, storage.filters)]
    BY DEF Memory!AdminPage
  <1> HIDE DEF p, isOpen, shifted
  <1>4. Memory!CheckValue(storage.filter) \in Quick /\ storage.filters \in [Memory!Filters -> Memory!States]
    BY DEF Storages, Quick, Typable
  <1>5. p \in AdminType
    BY <1>1, <1>2, <1>3, <1>4, ThemesAreModes, FiltersOfAList DEF AdminType
  <1>6. /\ p.view = view /\ p.theme = Memory!SetTheme(kept.theme) /\ p.isOpen = isOpen
        /\ p.shifted = shifted /\ p.quick = Memory!CheckValue(storage.filter)
        /\ p.filters = storage.filters /\ p.open = Memory!InitFilters(view, storage.filters)
    BY <1>3
  <1>7. p \in AdminPages
    BY <1>2, <1>5, <1>6 DEF AdminPages
  <1>8. view # "api" /\ Memory!AspectsOf(view) = {"theme", "sidebar", "quick", "filters"}
    BY ListsAreNames DEF Memory!AspectsOf
  <1>9. p \notin ApiPages /\ p # Memory!Closed
    BY <1>7, KindsOfPages DEF PageType
  <1>10. p.theme = Memory!SetTheme(k.theme)
    BY <1>6, ThemesAreModes
  <1>11. Fresh(p, Memory!AspectsOf(view), k, storage)
    BY <1>1, <1>6, <1>8, <1>9, <1>10 DEF Fresh
  <1> QED  BY <1>7, <1>11 DEF p

LEMMA ApiPageIsFresh ==
    ASSUME kept \in KeptType, NEW storage
    PROVE  /\ Memory!ApiPage \in ApiPages
           /\ Fresh(Memory!ApiPage, Memory!AspectsOf("api"), kept, storage)
  <1> DEFINE p == Memory!ApiPage
  <1>1. /\ p \in ApiPages
        /\ p.form = IF kept.tabstyle \in Memory!Forms THEN kept.tabstyle ELSE "html-tab"
    BY DEF Memory!ApiPage, ApiPages, Memory!Forms
  <1>2. Memory!AspectsOf("api") = {"form"}
    BY DEF Memory!AspectsOf
  <1> HIDE DEF p
  <1>3. p \notin AdminPages /\ p # Memory!Closed
    BY <1>1, KindsOfPages DEF PageType
  <1>4. Fresh(p, {"form"}, kept, storage)
    BY <1>1, <1>3 DEF Fresh
  <1> QED  BY <1>1, <1>2, <1>4 DEF p

(* A page of the administration stores the theme it has found.             *)
LEMMA InitThemeKeeps ==
    ASSUME MemoryInv, kept' = Memory!InitTheme
    PROVE  /\ kept' \in KeptType /\ kept'.theme = Memory!SetTheme(kept.theme)
           /\ kept'.sidebar = kept.sidebar /\ kept'.tabstyle = kept.tabstyle
           /\ \A p, aspects, s : Fresh(p, aspects, kept, s) => Fresh(p, aspects, kept', s)
  <1>1. /\ kept' \in KeptType /\ kept'.theme = Memory!SetTheme(kept.theme)
        /\ kept'.sidebar = kept.sidebar /\ kept'.tabstyle = kept.tabstyle
    BY ThemesAreModes DEF Memory!InitTheme, MemoryInv, KeptType
  <1> QED  BY <1>1, ThemesAreModes DEF Fresh

LEMMA ShowKeeps ==
    ASSUME MemoryInv, NEW tab \in Tabs, NEW view \in Indexes \cup {"api"},
           NEW storage \in Storages, Memory!Show(tab, view, storage),
           previous' \in [Tabs -> PageType]
    PROVE  MemoryInv'
  <1> DEFINE Shows(new, stored) ==
                 /\ page' = [page EXCEPT ![tab] = new]
                 /\ session' = [session EXCEPT ![tab] = stored]
                 /\ current' = [current EXCEPT ![tab] = Memory!AspectsOf(view)]
  <1>1. ASSUME NEW new \in PageType, NEW stored \in Storages, Shows(new, stored),
               kept' \in KeptType, Fresh(new, Memory!AspectsOf(view), kept', stored),
               \A p, aspects, s : Fresh(p, aspects, kept, s) => Fresh(p, aspects, kept', s)
        PROVE  MemoryInv'
    <2>1. ASSUME NEW t \in Tabs PROVE Fresh(page'[t], current'[t], kept', session'[t])
      <3>1. CASE t = tab
        <4>1. page'[t] = new /\ current'[t] = Memory!AspectsOf(view) /\ session'[t] = stored
          BY <1>1, <3>1 DEF MemoryInv
        <4> QED  BY <1>1, <4>1
      <3>2. CASE t # tab
        <4>1. page'[t] = page[t] /\ current'[t] = current[t] /\ session'[t] = session[t]
          BY <1>1, <3>2 DEF MemoryInv
        <4> QED  BY <1>1, <4>1 DEF MemoryInv
      <3> QED  BY <3>1, <3>2
    <2> QED  BY <1>1, <2>1 DEF MemoryInv
  <1>2. CASE view = "api"
    <2>1. Shows(Memory!ApiPage, storage) /\ UNCHANGED kept
      BY <1>2 DEF Memory!Show
    <2> HIDE DEF Shows
    <2>2. Memory!ApiPage \in PageType /\ kept' \in KeptType
          /\ Fresh(Memory!ApiPage, Memory!AspectsOf(view), kept', storage)
      BY <1>2, <2>1, ApiPageIsFresh DEF PageType, MemoryInv
    <2> QED  BY <1>1, <2>1, <2>2
  <1>3. CASE view # "api"
    <2>1. PICK filters \in {storage.filters, Memory!Toggled(view, storage.filters)} :
              /\ Shows(Memory!AdminPage(view, [storage EXCEPT !.filters = filters]),
                       [storage EXCEPT !.filters = filters])
              /\ kept' = Memory!InitTheme
      BY <1>3 DEF Memory!Show
    <2> DEFINE stored == [storage EXCEPT !.filters = filters]
    <2>2. filters \in [Memory!Filters -> Memory!States]
      BY DEF Storages, Memory!Toggled, Memory!States
    <2>3. stored \in Storages /\ view \in Indexes
      BY <1>3, <2>2 DEF Storages
    <2> HIDE DEF stored, Shows
    <2>4. /\ kept' \in KeptType /\ kept'.theme = Memory!SetTheme(kept.theme)
          /\ kept'.sidebar = kept.sidebar
          /\ \A p, aspects, s : Fresh(p, aspects, kept, s) => Fresh(p, aspects, kept', s)
      BY <2>1, InitThemeKeeps
    <2>5. Memory!AdminPage(view, stored) \in PageType
          /\ Fresh(Memory!AdminPage(view, stored), Memory!AspectsOf(view), kept', stored)
      BY <2>3, <2>4, AdminPageIsFresh DEF PageType, MemoryInv
    <2>6. Shows(Memory!AdminPage(view, stored), stored)
      BY <2>1 DEF stored
    <2> QED  BY <1>1, <2>3, <2>4, <2>5, <2>6
  <1> QED  BY <1>2, <1>3

(* A click in a page: the page, and of what is kept the part it is about,  *)
(* which no other page shows any more.                                     *)
LEMMA TouchKeeps ==
    ASSUME MemoryInv, NEW tab \in Tabs,
           NEW aspect \in {"form", "theme", "sidebar", "quick", "filters"},
           Memory!Touch(tab, aspect), NEW new \in PageType, NEW stored \in Storages,
           page' = [page EXCEPT ![tab] = new], session' = [session EXCEPT ![tab] = stored],
           kept' \in KeptType, UNCHANGED previous,
           Fresh(new, current[tab] \cup {aspect}, kept', stored),
           aspect # "theme" => kept'.theme = kept.theme,
           aspect # "sidebar" => kept'.sidebar = kept.sidebar,
           aspect # "form" => kept'.tabstyle = kept.tabstyle
    PROVE  MemoryInv'
  <1>1. current' = [other \in Tabs |->
            IF other = tab THEN current[tab] \cup {aspect}
            ELSE IF aspect \in {"theme", "sidebar", "form"} THEN current[other] \ {aspect}
            ELSE current[other]]
    BY DEF Memory!Touch
  <1>2. ASSUME NEW t \in Tabs PROVE Fresh(page'[t], current'[t], kept', session'[t])
    <2>1. CASE t = tab
      <3>1. page'[t] = new /\ current'[t] = current[tab] \cup {aspect} /\ session'[t] = stored
        BY <1>1, <2>1 DEF MemoryInv
      <3> QED  BY <3>1
    <2>2. CASE t # tab
      <3>1. /\ page'[t] = page[t] /\ session'[t] = session[t] /\ current'[t] \subseteq current[t]
            /\ aspect \in {"theme", "sidebar", "form"} => aspect \notin current'[t]
        BY <1>1, <2>2 DEF MemoryInv
      <3>2. Fresh(page[t], current[t], kept, session[t])
        BY DEF MemoryInv
      <3> QED  BY <3>1, <3>2 DEF Fresh
    <2> QED  BY <2>1, <2>2
  <1> QED  BY <1>1, <1>2 DEF MemoryInv

(* What a key or a click makes of a page of the administration.            *)
LEMMA AdminPageStays ==
    ASSUME NEW p \in AdminPages
    PROVE  /\ \A mode \in Memory!Modes : [p EXCEPT !.theme = mode] \in AdminPages
           /\ \A quick \in Quick : [p EXCEPT !.quick = quick] \in AdminPages
  <1>1. p \in AdminType
    BY DEF AdminPages
  <1>2. ASSUME NEW mode \in Memory!Modes PROVE [p EXCEPT !.theme = mode] \in AdminPages
    <2> DEFINE new == [p EXCEPT !.theme = mode]
    <2>1. /\ new \in AdminType /\ new.view = p.view /\ new.open = p.open
          /\ new.filters = p.filters /\ new.shifted = p.shifted /\ new.isOpen = p.isOpen
      BY <1>1 DEF AdminType
    <2> HIDE DEF new
    <2> QED  BY <2>1 DEF AdminPages, new
  <1>3. ASSUME NEW quick \in Quick PROVE [p EXCEPT !.quick = quick] \in AdminPages
    <2> DEFINE new == [p EXCEPT !.quick = quick]
    <2>1. /\ new \in AdminType /\ new.view = p.view /\ new.open = p.open
          /\ new.filters = p.filters /\ new.shifted = p.shifted /\ new.isOpen = p.isOpen
      BY <1>1 DEF AdminType
    <2> HIDE DEF new
    <2> QED  BY <2>1 DEF AdminPages, new
  <1> QED  BY <1>2, <1>3

(* The rows for a text and for the same text in lower case are the same.   *)
LEMMA SameRows ==
    ASSUME NEW text \in QuickTexts
    PROVE  /\ Memory!CheckValue(text).shown = Memory!CheckValue(Lower(text)).shown
           /\ Memory!CheckValue(text).none = Memory!CheckValue(Lower(text)).none
  <1>1. Lower(Lower(text)) = Lower(text) /\ (Lower(text) = Empty <=> text = Empty)
    BY LowerIsSound
  <1> QED  BY <1>1 DEF Memory!CheckValue

(* Folding or unfolding a filter: the page and its variable go together.   *)
LEMMA FoldedGoTogether ==
    ASSUME NEW p \in AdminPages, NEW filter \in FiltersOf(p.view), NEW opens \in BOOLEAN
    PROVE  LET filters == [p.filters EXCEPT ![filter] = IF opens THEN "open" ELSE "closed"]
               open == IF opens THEN p.open \cup {filter} ELSE p.open \ {filter}
               new == [p EXCEPT !.open = open, !.filters = filters]
           IN  /\ filters \in [Memory!Filters -> Memory!States]
               /\ new \in AdminPages /\ new.open = Memory!InitFilters(new.view, filters)
  <1> DEFINE filters == [p.filters EXCEPT ![filter] = IF opens THEN "open" ELSE "closed"]
             open == IF opens THEN p.open \cup {filter} ELSE p.open \ {filter}
             new == [p EXCEPT !.open = open, !.filters = filters]
  <1>1. p \in AdminType /\ p.view \in Indexes /\ p.filters \in [Memory!Filters -> Memory!States]
        /\ p.open = Memory!InitFilters(p.view, p.filters)
    BY DEF AdminPages, AdminType
  <1>2. filter \in Memory!Filters
    BY <1>1, FiltersOfAList
  <1>3. filters \in [Memory!Filters -> Memory!States]
    BY <1>1, <1>2 DEF Memory!States
  <1>4. open = Memory!InitFilters(p.view, filters)
    <2>1. \A f \in FiltersOf(p.view) :
              filters[f] = IF f = filter THEN (IF opens THEN "open" ELSE "closed") ELSE p.filters[f]
      BY <1>1, <1>2, FiltersOfAList
    <2> QED  BY <1>1, <2>1 DEF Memory!InitFilters
  <1>5. open \in SUBSET Memory!Filters
    BY <1>1, <1>4, FiltersOfAList
  <1> HIDE DEF open, filters
  <1>6. /\ new \in AdminType /\ new.view = p.view /\ new.open = open
        /\ new.filters = filters /\ new.shifted = p.shifted /\ new.isOpen = p.isOpen
    BY <1>1, <1>3, <1>5 DEF AdminType
  <1> HIDE DEF new
  <1>7. new \in AdminPages
    BY <1>4, <1>6 DEF AdminPages
  <1> QED  BY <1>3, <1>4, <1>6, <1>7 DEF open, filters, new

LEMMA MemoryStep ==
    ASSUME MemoryInv, [Memory!Next]_(Memory!vars) PROVE MemoryInv'
  <1>0. /\ kept \in KeptType /\ session \in [Tabs -> Storages]
        /\ page \in [Tabs -> PageType] /\ previous \in [Tabs -> PageType]
        /\ \A tab \in Tabs : Fresh(page[tab], current[tab], kept, session[tab])
    BY DEF MemoryInv
  <1>1. ASSUME NEW tab \in Tabs, NEW view \in Indexes \cup {"api"}, Memory!Load(tab, view)
        PROVE  MemoryInv'
    BY <1>0, <1>1, ShowKeeps DEF Memory!Load
  <1>2. ASSUME NEW tab \in Tabs, NEW opener \in Tabs, NEW view \in Indexes \cup {"api"},
               Memory!OpenTab(opener, tab, view)
        PROVE  MemoryInv'
    BY <1>0, <1>2, ShowKeeps DEF Memory!OpenTab
  <1>3. ASSUME NEW tab \in Tabs, Memory!Back(tab) PROVE MemoryInv'
    <2>1. previous[tab] # Memory!Closed /\ previous' = [previous EXCEPT ![tab] = Memory!Closed]
      BY <1>3 DEF Memory!Back
    <2>2. previous' \in [Tabs -> PageType]
      BY <1>0, <2>1 DEF PageType
    <2>3. CASE /\ page' = [page EXCEPT ![tab] = previous[tab]]
               /\ current' = [current EXCEPT ![tab] = {}] /\ UNCHANGED <<kept, session>>
      <3>1. Fresh(previous[tab], {}, kept, session[tab])
        BY DEF Fresh
      <3>2. ASSUME NEW t \in Tabs PROVE Fresh(page'[t], current'[t], kept', session'[t])
        <4>1. CASE t = tab
          BY <1>0, <2>3, <3>1, <4>1 DEF MemoryInv
        <4>2. CASE t # tab
          BY <1>0, <2>3, <4>2 DEF MemoryInv
        <4> QED  BY <4>1, <4>2
      <3> QED  BY <1>0, <2>2, <2>3, <3>2 DEF MemoryInv
    <2>4. CASE Memory!Show(tab, previous[tab].view, session[tab])
      <3>1. previous[tab].view \in Indexes \cup {"api"} /\ session[tab] \in Storages
        BY <1>0, <2>1, KindsOfPages
      <3> QED  BY <2>2, <2>4, <3>1, ShowKeeps
    <2> QED  BY <1>3, <2>3, <2>4 DEF Memory!Back
  <1>4. ASSUME NEW tab \in Memory!Admin
        PROVE  /\ tab \in Tabs /\ page[tab] \in AdminPages /\ page[tab] \in AdminType
               /\ page[tab] \notin ApiPages /\ page[tab] # Memory!Closed
               /\ session[tab] \in Storages
               /\ Fresh(page[tab], current[tab], kept, session[tab])
    BY <1>0, KindsOfPages DEF Memory!Admin
  <1>5. ASSUME NEW tab \in Memory!Admin, NEW new \in AdminPages, NEW k, NEW s,
               NEW aspect \in {"theme", "sidebar", "quick", "filters"},
               aspect # "theme" => new.theme = page[tab].theme /\ k.theme = kept.theme,
               aspect # "sidebar" => new.isOpen = page[tab].isOpen /\ k.sidebar = kept.sidebar,
               aspect # "quick" => new.quick = page[tab].quick /\ s.filter = session[tab].filter,
               aspect # "filters" => new.open = page[tab].open /\ new.view = page[tab].view
                                     /\ s.filters = session[tab].filters,
               Fresh(new, {aspect}, k, s)
        PROVE  Fresh(new, current[tab] \cup {aspect}, k, s)
    <2>1. Fresh(page[tab], current[tab], kept, session[tab]) /\ page[tab] \in AdminPages
      BY <1>4
    <2>2. new \notin ApiPages /\ new # Memory!Closed
      BY KindsOfPages DEF PageType
    <2>3. "form" \notin current[tab] /\ current[tab] \subseteq {"theme", "sidebar", "quick", "filters"}
      BY <2>1 DEF Fresh
    <2>4. /\ "theme" \in current[tab] => page[tab].theme = Memory!SetTheme(kept.theme)
          /\ "sidebar" \in current[tab] =>
                 page[tab].isOpen = IF kept.sidebar = "unset" THEN "true" ELSE kept.sidebar
          /\ "quick" \in current[tab] =>
                 /\ page[tab].quick.shown = Memory!CheckValue(session[tab].filter).shown
                 /\ page[tab].quick.none = Memory!CheckValue(session[tab].filter).none
          /\ "filters" \in current[tab] =>
                 page[tab].open = Memory!InitFilters(page[tab].view, session[tab].filters)
      BY <2>1 DEF Fresh
    <2>5. /\ aspect = "theme" => new.theme = Memory!SetTheme(k.theme)
          /\ aspect = "sidebar" => new.isOpen = IF k.sidebar = "unset" THEN "true" ELSE k.sidebar
          /\ aspect = "quick" => /\ new.quick.shown = Memory!CheckValue(s.filter).shown
                                 /\ new.quick.none = Memory!CheckValue(s.filter).none
          /\ aspect = "filters" => new.open = Memory!InitFilters(new.view, s.filters)
      BY <1>5 DEF Fresh
    <2> QED  BY <1>5, <2>2, <2>3, <2>4, <2>5 DEF Fresh
  <1>6. ASSUME NEW tab \in Tabs PROVE session = [session EXCEPT ![tab] = session[tab]]
    BY <1>0
  <1>7. ASSUME NEW tab \in Tabs, Memory!CycleTheme(tab) PROVE MemoryInv'
    <2>1. tab \in Memory!Admin /\ Memory!Touch(tab, "theme") /\ UNCHANGED <<session, previous>>
      BY <1>7 DEF Memory!CycleTheme
    <2>2. PICK prefersDark \in BOOLEAN :
              LET mode == Memory!SetTheme(Memory!Cycle(prefersDark)[kept.theme])
              IN  /\ kept' = [kept EXCEPT !.theme = mode]
                  /\ page' = [page EXCEPT ![tab].theme = mode]
      BY <1>7 DEF Memory!CycleTheme
    <2> DEFINE mode == Memory!SetTheme(Memory!Cycle(prefersDark)[kept.theme])
               new == [page[tab] EXCEPT !.theme = mode]
    <2>3. mode \in Memory!Modes /\ Memory!SetTheme(mode) = mode
      BY ThemesAreModes
    <2>4. kept' = [kept EXCEPT !.theme = mode] /\ page' = [page EXCEPT ![tab] = new]
      BY <1>0, <2>2
    <2> HIDE DEF mode
    <2>5. /\ kept' \in KeptType /\ kept'.theme = mode /\ kept'.sidebar = kept.sidebar
          /\ kept'.tabstyle = kept.tabstyle
      BY <1>0, <2>3, <2>4 DEF KeptType
    <2>6. /\ new \in AdminPages /\ new.theme = mode /\ new.isOpen = page[tab].isOpen
          /\ new.quick = page[tab].quick /\ new.open = page[tab].open
          /\ new.view = page[tab].view
      BY <1>4, <2>1, <2>3, AdminPageStays DEF AdminType
    <2> HIDE DEF new
    <2>7. new \in PageType /\ new \notin ApiPages /\ new # Memory!Closed
      BY <2>6, KindsOfPages DEF PageType
    <2>8. Fresh(new, {"theme"}, kept', session[tab])
      BY <2>3, <2>5, <2>6, <2>7 DEF Fresh
    <2>9. Fresh(new, current[tab] \cup {"theme"}, kept', session[tab])
      BY <1>5, <2>1, <2>5, <2>6, <2>8
    <2>10. session[tab] \in Storages /\ session' = [session EXCEPT ![tab] = session[tab]]
      BY <1>4, <1>6, <2>1
    <2> QED  BY <2>1, <2>4, <2>5, <2>7, <2>9, <2>10, TouchKeeps
  <1>8. ASSUME NEW tab \in Tabs, Memory!ToggleNavSidebar(tab) PROVE MemoryInv'
    <2> DEFINE isOpen == IF page[tab].isOpen = "true" THEN "false" ELSE "true"
               new == [page[tab] EXCEPT !.isOpen = isOpen, !.shifted = ~page[tab].shifted]
    <2>1. /\ tab \in Memory!Admin /\ Memory!Touch(tab, "sidebar") /\ UNCHANGED <<session, previous>>
          /\ kept' = [kept EXCEPT !.sidebar = isOpen] /\ page' = [page EXCEPT ![tab] = new]
      BY <1>0, <1>4, <1>8 DEF Memory!ToggleNavSidebar, AdminType
    <2>2. page[tab] \in AdminType /\ page[tab].shifted \in BOOLEAN
          /\ page[tab].open = Memory!InitFilters(page[tab].view, page[tab].filters)
      BY <1>4, <2>1 DEF AdminPages, AdminType
    <2>3. page[tab].shifted <=> page[tab].isOpen = "true"
      BY <1>4, <2>1 DEF AdminPages
    <2>4. isOpen \in {"true", "false"} /\ (isOpen = "true" <=> page[tab].isOpen # "true")
      OBVIOUS
    <2> DEFINE shifted == ~page[tab].shifted
    <2>5. shifted \in BOOLEAN /\ (shifted <=> isOpen = "true")
      BY <2>3, <2>4
    <2>6. new = [page[tab] EXCEPT !.isOpen = isOpen, !.shifted = shifted]
      OBVIOUS
    <2> HIDE DEF isOpen, shifted, new
    <2>7. /\ new \in AdminType /\ new.isOpen = isOpen /\ new.shifted = shifted
          /\ new.theme = page[tab].theme /\ new.quick = page[tab].quick
          /\ new.open = page[tab].open /\ new.view = page[tab].view
          /\ new.filters = page[tab].filters
      BY <2>2, <2>4, <2>5, <2>6 DEF AdminType
    <2>8. new \in AdminPages
      BY <2>2, <2>5, <2>7 DEF AdminPages
    <2>9. /\ kept' \in KeptType /\ kept'.theme = kept.theme /\ kept'.sidebar = isOpen
          /\ kept'.tabstyle = kept.tabstyle
      BY <1>0, <2>1, <2>4 DEF KeptType
    <2>10. new \in PageType /\ new \notin ApiPages /\ new # Memory!Closed
      BY <2>8, KindsOfPages DEF PageType
    <2>11. Fresh(new, {"sidebar"}, kept', session[tab])
      BY <2>4, <2>7, <2>9, <2>10 DEF Fresh
    <2>12. Fresh(new, current[tab] \cup {"sidebar"}, kept', session[tab])
      BY <1>5, <2>1, <2>7, <2>8, <2>9, <2>11
    <2>13. session[tab] \in Storages /\ session' = [session EXCEPT ![tab] = session[tab]]
      BY <1>4, <1>6, <2>1
    <2> QED  BY <2>1, <2>9, <2>10, <2>12, <2>13, TouchKeeps
  <1>9. ASSUME NEW tab \in Tabs, NEW text \in QuickTexts, NEW filter \in Lowered,
               tab \in Memory!Admin, Memory!Touch(tab, "quick"),
               page' = [page EXCEPT ![tab].quick = Memory!CheckValue(text)],
               session' = [session EXCEPT ![tab].filter = filter], UNCHANGED <<kept, previous>>,
               Memory!CheckValue(text).shown = Memory!CheckValue(filter).shown,
               Memory!CheckValue(text).none = Memory!CheckValue(filter).none
        PROVE  MemoryInv'
    <2> DEFINE quick == Memory!CheckValue(text)
               new == [page[tab] EXCEPT !.quick = quick]
               stored == [session[tab] EXCEPT !.filter = filter]
    <2>1. page' = [page EXCEPT ![tab] = new] /\ session' = [session EXCEPT ![tab] = stored]
      BY <1>0, <1>9
    <2>2. quick \in Quick
      BY DEF Quick, Typable
    <2> HIDE DEF quick
    <2>3. /\ new \in AdminPages /\ new.theme = page[tab].theme /\ new.isOpen = page[tab].isOpen
          /\ new.quick = quick /\ new.open = page[tab].open /\ new.view = page[tab].view
      BY <1>4, <1>9, <2>2, AdminPageStays DEF AdminType
    <2>4. stored \in Storages /\ stored.filter = filter /\ stored.filters = session[tab].filters
      BY <1>4, <1>9 DEF Storages
    <2> HIDE DEF new, stored
    <2>5. new \in PageType /\ new \notin ApiPages /\ new # Memory!Closed
      BY <2>3, KindsOfPages DEF PageType
    <2>6. Fresh(new, {"quick"}, kept', stored)
      BY <1>9, <2>3, <2>4, <2>5 DEF Fresh, quick
    <2>7. Fresh(new, current[tab] \cup {"quick"}, kept', stored)
      BY <1>5, <1>9, <2>3, <2>4, <2>6
    <2>8. /\ kept' \in KeptType /\ kept'.theme = kept.theme /\ kept'.sidebar = kept.sidebar
          /\ kept'.tabstyle = kept.tabstyle /\ UNCHANGED previous /\ Memory!Touch(tab, "quick")
      BY <1>0, <1>9
    <2> QED  BY <2>1, <2>4, <2>5, <2>7, <2>8, TouchKeeps
  <1>10. ASSUME NEW tab \in Tabs, NEW text \in QuickTexts, Memory!Type(tab, text) PROVE MemoryInv'
    <2>1. Lower(text) \in Lowered
      BY DEF Lowered
    <2>2. /\ Memory!CheckValue(text).shown = Memory!CheckValue(Lower(text)).shown
          /\ Memory!CheckValue(text).none = Memory!CheckValue(Lower(text)).none
      BY SameRows
    <2>3. /\ tab \in Memory!Admin /\ Memory!Touch(tab, "quick")
          /\ page' = [page EXCEPT ![tab].quick = Memory!CheckValue(text)]
          /\ session' = [session EXCEPT ![tab].filter = Lower(text)]
          /\ UNCHANGED <<kept, previous>>
      BY <1>10 DEF Memory!Type
    <2> QED  BY <1>9, <2>1, <2>2, <2>3
  <1>11. ASSUME NEW tab \in Tabs, Memory!Escape(tab) PROVE MemoryInv'
    BY <1>9, <1>11, EmptyIsLower DEF Memory!Escape
  <1>12. ASSUME NEW tab \in Tabs, NEW filter, Memory!ToggleFilter(tab, filter) PROVE MemoryInv'
    <2> DEFINE opens == filter \notin page[tab].open
               filters == [page[tab].filters EXCEPT ![filter] = IF opens THEN "open" ELSE "closed"]
               open == IF opens THEN page[tab].open \cup {filter} ELSE page[tab].open \ {filter}
               new == [page[tab] EXCEPT !.open = open, !.filters = filters]
               stored == [session[tab] EXCEPT !.filters = filters]
    <2>1. /\ tab \in Memory!Admin /\ filter \in FiltersOf(page[tab].view)
          /\ Memory!Touch(tab, "filters") /\ UNCHANGED <<kept, previous>>
          /\ page' = [page EXCEPT ![tab] = new] /\ session' = [session EXCEPT ![tab] = stored]
      BY <1>0, <1>4, <1>12 DEF Memory!ToggleFilter, AdminType
    <2>2. opens \in BOOLEAN
      OBVIOUS
    <2>3. /\ filters \in [Memory!Filters -> Memory!States]
          /\ new \in AdminPages /\ new.open = Memory!InitFilters(new.view, filters)
      <3> HIDE DEF opens
      <3> QED  BY <1>4, <2>1, <2>2, FoldedGoTogether
    <2> HIDE DEF open, filters
    <2>4. /\ new.theme = page[tab].theme /\ new.isOpen = page[tab].isOpen
          /\ new.quick = page[tab].quick /\ new.view = page[tab].view
      BY <1>4, <2>1 DEF AdminType
    <2>5. stored \in Storages /\ stored.filter = session[tab].filter /\ stored.filters = filters
      BY <1>4, <2>1, <2>3 DEF Storages
    <2> HIDE DEF new, stored
    <2>6. new \in PageType /\ new \notin ApiPages /\ new # Memory!Closed
      BY <2>3, KindsOfPages DEF PageType
    <2>7. Fresh(new, {"filters"}, kept', stored)
      BY <2>3, <2>5, <2>6 DEF Fresh
    <2>8. Fresh(new, current[tab] \cup {"filters"}, kept', stored)
      BY <1>5, <2>1, <2>3, <2>4, <2>5, <2>7
    <2> QED  BY <1>0, <2>1, <2>5, <2>6, <2>8, TouchKeeps
  <1>13. ASSUME NEW tab \in Tabs, NEW button \in Memory!Forms, Memory!ClickForm(tab, button)
         PROVE  MemoryInv'
    <2> DEFINE new == [page[tab] EXCEPT !.form = button]
    <2>1. /\ page[tab].view = "api" /\ page' = [page EXCEPT ![tab] = new]
          /\ kept' = [kept EXCEPT !.tabstyle = button]
          /\ Memory!Touch(tab, "form") /\ UNCHANGED <<session, previous>>
      BY <1>0, <1>13 DEF Memory!ClickForm
    <2>2. page[tab] \in ApiPages
      BY <1>0, <2>1, KindsOfPages
    <2>3. new \in ApiPages /\ new.form = button
      BY <2>2 DEF ApiPages
    <2> HIDE DEF new
    <2>4. new \in PageType /\ new \notin AdminPages /\ new # Memory!Closed
      BY <2>3, KindsOfPages DEF PageType
    <2>5. /\ kept' \in KeptType /\ kept'.theme = kept.theme /\ kept'.sidebar = kept.sidebar
          /\ kept'.tabstyle = button
      BY <1>0, <2>1 DEF KeptType
    <2>6. current[tab] \subseteq {"form"}
      BY <1>0, <2>2 DEF Fresh
    <2>7. Fresh(new, current[tab] \cup {"form"}, kept', session[tab])
      BY <2>3, <2>4, <2>5, <2>6 DEF Fresh
    <2>8. session[tab] \in Storages /\ session' = [session EXCEPT ![tab] = session[tab]]
      BY <1>0, <1>6, <2>1
    <2> QED  BY <2>1, <2>4, <2>5, <2>7, <2>8, TouchKeeps
  <1>14. CASE UNCHANGED Memory!vars
    BY <1>14 DEF Memory!vars, MemoryInv
  <1> QED
    BY <1>1, <1>2, <1>3, <1>7, <1>8, <1>10, <1>11, <1>12, <1>13, <1>14 DEF Memory!Next

(* So do the pages of the first tab.                                      *)
LEMMA MemoryInit == Memory!Init => MemoryInv
  <1> SUFFICES ASSUME Memory!Init PROVE MemoryInv
    OBVIOUS
  <1> DEFINE fresh == [filter |-> Empty, filters |-> [filter \in Memory!Filters |-> "unset"]]
  <1>1. /\ session = [tab \in Tabs |-> fresh]
        /\ previous = [tab \in Tabs |-> Memory!Closed]
    BY DEF Memory!Init
  <1>2. PICK view \in Indexes \cup {"api"} :
            /\ kept \in [theme : IF view = "api" THEN {"unset", "other"} ELSE {"auto"},
                         sidebar : {"unset"}, tabstyle : {"unset"}]
            /\ page = [tab \in Tabs |-> IF tab = First THEN Memory!Rendered(view, session[tab])
                                       ELSE Memory!Closed]
            /\ current = [tab \in Tabs |-> IF tab = First THEN Memory!AspectsOf(view) ELSE {}]
    BY DEF Memory!Init
  <1>3. fresh \in Storages
    BY EmptyIsLower DEF Storages, Memory!States
  <1> HIDE DEF fresh
  <1>4. \A tab \in Tabs : session[tab] = fresh /\ previous[tab] = Memory!Closed
    BY <1>1
  <1>5. kept \in KeptType
    BY <1>2 DEF KeptType, Memory!Modes
  <1>6. Memory!Rendered(view, fresh) \in PageType
        /\ Fresh(Memory!Rendered(view, fresh), Memory!AspectsOf(view), kept, fresh)
    <2>1. CASE view = "api"
      BY <1>5, <2>1, ApiPageIsFresh DEF Memory!Rendered, PageType
    <2>2. CASE view # "api"
      BY <1>3, <1>5, <2>2, AdminPageIsFresh DEF Memory!Rendered, PageType
    <2> QED  BY <2>1, <2>2
  <1>7. Memory!Closed \in PageType /\ Fresh(Memory!Closed, {}, kept, fresh)
    BY DEF PageType, Fresh
  <1>8. ASSUME NEW tab \in Tabs
        PROVE  page[tab] \in PageType /\ Fresh(page[tab], current[tab], kept, session[tab])
    <2>1. CASE tab = First
      BY <1>2, <1>4, <1>6, <2>1
    <2>2. CASE tab # First
      BY <1>2, <1>4, <1>7, <2>2
    <2> QED  BY <2>1, <2>2
  <1>9. page \in [Tabs -> PageType]
    BY <1>2, <1>8
  <1>10. session \in [Tabs -> Storages] /\ previous \in [Tabs -> PageType]
    BY <1>1, <1>3, <1>7
  <1>11. current = [tab \in Tabs |-> current[tab]]
    BY <1>2
  <1> QED  BY <1>5, <1>8, <1>9, <1>10, <1>11 DEF MemoryInv

(* ShowsWhatIsKept: for any tabs, lists, filters and texts, and as many    *)
(* clicks, loads and returns as there are, what a page shows is what is    *)
(* stored unless another page has changed that since, and no page leaves   *)
(* room for a sidebar it has not.                                          *)
THEOREM PagesShowWhatIsKept == Memory!Spec => []ShowsWhatIsKept
  <1>1. Memory!Init => MemoryInv
    BY MemoryInit
  <1>2. MemoryInv /\ [Memory!Next]_(Memory!vars) => MemoryInv'
    BY MemoryStep
  <1>3. MemoryInv => ShowsWhatIsKept
    <2> SUFFICES ASSUME MemoryInv PROVE ShowsWhatIsKept
      OBVIOUS
    <2>1. ASSUME NEW tab \in Tabs, NEW aspect \in current[tab]
          PROVE  Memory!Shown(page[tab], aspect)
                 = Memory!Shown(Memory!Rendered(page[tab].view, session[tab]), aspect)
      <3>1. page[tab] \in PageType /\ Fresh(page[tab], current[tab], kept, session[tab])
            /\ session[tab] \in Storages
        BY DEF MemoryInv
      <3>2. aspect \in {"form", "theme", "sidebar", "quick", "filters"}
        BY <3>1 DEF Fresh
      <3>3. CASE aspect = "form"
        <4>1. page[tab] \in ApiPages /\ page[tab].view = "api"
          BY <3>1, <3>3, KindsOfPages DEF Fresh, PageType
        <4>2. Memory!Rendered(page[tab].view, session[tab]) = Memory!ApiPage
          BY <4>1 DEF Memory!Rendered
        <4>3. page[tab].form = Memory!ApiPage.form
          BY <3>1, <3>3 DEF Fresh, Memory!ApiPage
        <4> QED  BY <3>3, <4>2, <4>3 DEF Memory!Shown
      <3>4. CASE aspect # "form"
        <4>1. page[tab] \in AdminPages /\ page[tab].view \in Indexes
          BY <3>1, <3>2, <3>4, KindsOfPages DEF Fresh, PageType
        <4> DEFINE p == page[tab]
                   r == Memory!AdminPage(p.view, session[tab])
        <4>2. Memory!Rendered(p.view, session[tab]) = r
          BY <4>1, ListsAreNames DEF Memory!Rendered
        <4>3. /\ r.theme = Memory!SetTheme(kept.theme)
              /\ r.isOpen = IF kept.sidebar = "unset" THEN "true" ELSE kept.sidebar
              /\ r.quick = Memory!CheckValue(session[tab].filter)
              /\ r.open = Memory!InitFilters(p.view, session[tab].filters)
          BY DEF Memory!AdminPage, Memory!NavSidebarIsOpen
        <4> HIDE DEF p, r
        <4>4. /\ aspect = "theme" => p.theme = r.theme
              /\ aspect = "sidebar" => p.isOpen = r.isOpen
              /\ aspect = "quick" => p.quick.shown = r.quick.shown /\ p.quick.none = r.quick.none
              /\ aspect = "filters" => p.open = r.open
          BY <3>1, <4>3 DEF Fresh, p
        <4>5. aspect \in {"theme", "sidebar", "quick", "filters"}
          BY <3>2, <3>4
        <4>6. Memory!Shown(p, aspect) = Memory!Shown(r, aspect)
          BY <4>4, <4>5 DEF Memory!Shown
        <4> QED  BY <4>2, <4>6 DEF p
      <3> QED  BY <3>3, <3>4
    <2>2. ASSUME NEW tab \in Memory!Admin PROVE page[tab].shifted <=> page[tab].isOpen = "true"
      <3>1. page[tab] \in AdminPages
        BY KindsOfPages DEF Memory!Admin, MemoryInv
      <3> QED  BY <3>1 DEF AdminPages
    <2> QED  BY <2>1, <2>2 DEF ShowsWhatIsKept, Memory!ShowsWhatIsKept
  <1> QED  BY <1>1, <1>2, <1>3, PTL DEF Memory!Spec

-----------------------------------------------------------------------------
(* The two lists to choose from.                                           *)

(* What the caches and the marks of hidden options are for the page. The   *)
(* type invariant is not needed: that what is hidden or selected is in the *)
(* list is all a step relies on.                                           *)
ListsAreSound ==
    /\ cache = [side \in Groups!Lists |-> cache[side]]
    /\ hidden = [side \in Groups!Lists |-> hidden[side]]
    /\ selected = [side \in Groups!Lists |-> selected[side]]
    /\ \A side \in Groups!Lists : /\ hidden[side] \subseteq cache[side]
                                  /\ selected[side] \subseteq Groups!Displayed(side)

(* Nothing is hidden or selected while the page is loading, and before the  *)
(* form is submitted the warning counts what is hidden.                    *)
ChooserInv ==
    /\ ListsAreSound
    /\ cache["from"] \cup cache["to"] = known
    /\ cache["from"] \cap cache["to"] = {}
    /\ choosing = "loading" => \A side \in Groups!Lists : hidden[side] = {} /\ selected[side] = {}
    /\ choosing # "submitted" => warning = Groups!Cardinality(hidden["to"])
    /\ choosing = "submitted" => submitted = cache["to"]
    /\ choosing \in {"loading", "open", "submitted"}

-----------------------------------------------------------------------------
(* While the page is loading no option is hidden or selected.              *)
LEMMA ChooserInit == Groups!Init => ChooserInv
  <1> SUFFICES ASSUME Groups!Init PROVE ChooserInv
    OBVIOUS
  <1>1. Groups!Cardinality({}) = 0
    BY FS_EmptySet DEF Groups!Cardinality, Cardinality
  <1> QED  BY <1>1 DEF Groups!Init, ChooserInv, ListsAreSound, Groups!Lists, Groups!Displayed

(* Moving displayed options from a list leaves every option in one list,   *)
(* and what is hidden in the other is what was hidden there.               *)
LEMMA MovedIsSound ==
    ASSUME ChooserInv, NEW side \in Groups!Lists, NEW moving, moving \subseteq Groups!Displayed(side)
    PROVE  /\ Groups!Moved(side, moving) = [l \in Groups!Lists |-> Groups!Moved(side, moving)[l]]
           /\ Groups!Moved(side, moving)["from"] \cup Groups!Moved(side, moving)["to"] = known
           /\ Groups!Moved(side, moving)["from"] \cap Groups!Moved(side, moving)["to"] = {}
           /\ Groups!StillHidden(side, moving) = hidden
           /\ \A l \in Groups!Lists : hidden[l] \subseteq Groups!Moved(side, moving)[l]
  BY DEF ChooserInv, ListsAreSound, Groups!Moved, Groups!StillHidden, Groups!Displayed,
     Groups!Lists, Groups!Other

(* A filter hides options of the list it is given, ...                     *)
LEMMA FilterIsSound ==
    ASSUME NEW lists, NEW c, NEW text, Groups!Filter(lists, c, text)
    PROVE  /\ hidden' = [l \in Groups!Lists |-> hidden'[l]]
           /\ \A l \in Groups!Lists : hidden'[l] \subseteq c[l]
  BY DEF Groups!Filter, Groups!Lists

(* ... so what a move followed by the filters leaves is sound.             *)
LEMMA MoveSelectionKeeps ==
    ASSUME ChooserInv, NEW side \in Groups!Lists, NEW moving, moving \subseteq Groups!Displayed(side), NEW button,
           Groups!MoveSelection(button, side, moving)
    PROVE  ChooserInv' /\ \A l \in Groups!Lists : hidden[l] \subseteq cache'[l]
  <1>1. /\ cache' = Groups!Moved(side, moving)
        /\ selected' = [l \in Groups!Lists |-> {}]
        /\ Groups!Filter(Groups!Lists, cache', searches)
        /\ warning' = Groups!Cardinality(hidden'["to"])
        /\ UNCHANGED <<known, choosing, submitted>> /\ choosing = "open"
    BY DEF Groups!MoveSelection, Groups!Unselected, Groups!RefreshFilteredWarning,
       Groups!FormUnchanged, Groups!Open
  <1>2. /\ hidden' = [l \in Groups!Lists |-> hidden'[l]]
        /\ \A l \in Groups!Lists : hidden'[l] \subseteq cache'[l]
    BY <1>1, FilterIsSound
  <1>3. /\ cache' = [l \in Groups!Lists |-> cache'[l]]
        /\ cache'["from"] \cup cache'["to"] = known
        /\ cache'["from"] \cap cache'["to"] = {}
        /\ \A l \in Groups!Lists : hidden[l] \subseteq cache'[l]
    BY <1>1, MovedIsSound
  <1> QED  BY <1>1, <1>2, <1>3 DEF ChooserInv, ListsAreSound, Groups!Displayed, Groups!Lists

(* A move without a filter, of an option that is displayed.                *)
LEMMA MoveAloneKeeps ==
    ASSUME ChooserInv, NEW side \in Groups!Lists, NEW moving, moving \subseteq Groups!Displayed(side),
           choosing = "open", cache' = Groups!Moved(side, moving), hidden' = Groups!StillHidden(side, moving),
           selected' = [l \in Groups!Lists |-> selected'[l]],
           \A l \in Groups!Lists : selected'[l] \subseteq Groups!Displayed(l)',
           UNCHANGED <<warning, known, choosing, submitted>>
    PROVE  ChooserInv' /\ \A l \in Groups!Lists : hidden[l] \subseteq cache'[l]
  <1>1. /\ cache' = [l \in Groups!Lists |-> cache'[l]]
        /\ cache'["from"] \cup cache'["to"] = known
        /\ cache'["from"] \cap cache'["to"] = {}
        /\ hidden' = hidden
        /\ \A l \in Groups!Lists : hidden[l] \subseteq cache'[l]
    BY MovedIsSound
  <1> QED  BY <1>1 DEF ChooserInv, ListsAreSound, Groups!Lists

-----------------------------------------------------------------------------
(* Each step keeps the invariant, and what is hidden stays in its list.    *)
LEMMA ChooserStep ==
    ChooserInv /\ [Groups!Next]_(Groups!vars) => ChooserInv' /\ \A l \in Groups!Lists : hidden[l] \subseteq cache'[l]
  <1> SUFFICES ASSUME ChooserInv, [Groups!Next]_(Groups!vars)
               PROVE  ChooserInv' /\ \A l \in Groups!Lists : hidden[l] \subseteq cache'[l]
    OBVIOUS
  <1> DEFINE Goal == ChooserInv' /\ \A l \in Groups!Lists : hidden[l] \subseteq cache'[l]
  <1>0. ASSUME UNCHANGED <<cache, hidden, warning>>, UNCHANGED <<known, choosing, submitted>>,
               choosing = "loading" => selected' = selected,
               selected' = [l \in Groups!Lists |-> selected'[l]],
               \A l \in Groups!Lists : selected'[l] \subseteq Groups!Displayed(l)
        PROVE  Goal
    BY <1>0 DEF ChooserInv, ListsAreSound, Groups!Displayed
  <1>1. CASE Groups!Load
    <2>1. PICK chosen \in SUBSET cache["from"] : cache' = Groups!Moved("from", chosen)
      BY <1>1 DEF Groups!Load
    <2>2. choosing = "loading" /\ choosing' = "open"
          /\ UNCHANGED <<hidden, selected, warning, known, submitted>>
      BY <1>1 DEF Groups!Load
    <2>3. chosen \subseteq Groups!Displayed("from") /\ "from" \in Groups!Lists
      BY <2>2 DEF ChooserInv, Groups!Displayed, Groups!Lists
    <2>4. /\ cache' = [l \in Groups!Lists |-> cache'[l]]
          /\ cache'["from"] \cup cache'["to"] = known
          /\ cache'["from"] \cap cache'["to"] = {}
          /\ \A l \in Groups!Lists : hidden[l] \subseteq cache'[l]
      BY <2>1, <2>3, MovedIsSound
    <2>5. \A l \in Groups!Lists : selected[l] \subseteq cache'[l] \ hidden'[l]
      BY <2>2 DEF ChooserInv, ListsAreSound
    <2> QED  BY <2>2, <2>4, <2>5 DEF ChooserInv, ListsAreSound, Groups!Displayed
  <1>2. CASE Groups!ClearFilter
    <2>1. /\ Groups!Filter({"to"}, cache, searches') /\ warning' = Groups!Cardinality(hidden'["to"])
          /\ selected' = [selected EXCEPT !["to"] = {}]
          /\ UNCHANGED <<cache, known, choosing, submitted>> /\ choosing = "open"
      BY <1>2 DEF Groups!ClearFilter, Groups!RefreshFilteredWarning, Groups!FormUnchanged,
         Groups!Open
    <2>2. /\ hidden' = [l \in Groups!Lists |-> hidden'[l]]
          /\ \A l \in Groups!Lists : hidden'[l] \subseteq cache[l]
          /\ hidden'["from"] = hidden["from"]
      BY <2>1, FilterIsSound DEF Groups!Filter, Groups!Lists, ChooserInv, ListsAreSound
    <2> QED  BY <2>1, <2>2 DEF ChooserInv, ListsAreSound, Groups!Displayed, Groups!Lists
  <1>3. CASE Groups!Submit
    BY <1>3 DEF Groups!Submit, Groups!SubmitWith, ChooserInv, ListsAreSound, Groups!Displayed,
       Groups!Lists, Groups!Open
  <1>4. ASSUME NEW side \in Groups!Lists, Groups!Choose(side) PROVE Goal
    <2>1. selected[side] \subseteq Groups!Displayed(side)
      BY DEF ChooserInv, ListsAreSound
    <2> QED  BY <1>4, <2>1, MoveSelectionKeeps DEF Groups!Choose
  <1>5. ASSUME NEW side \in Groups!Lists, Groups!ChooseAll(side) PROVE Goal
    BY <1>5, MoveSelectionKeeps DEF Groups!ChooseAll
  <1>6. ASSUME NEW side \in Groups!Lists, Groups!FilterKeyUp(side) PROVE Goal
    <2>1. /\ Groups!Filter({side}, cache, searches) /\ warning' = Groups!Cardinality(hidden'["to"])
          /\ UNCHANGED <<cache, known, choosing, submitted>> /\ choosing = "open"
      BY <1>6 DEF Groups!FilterKeyUp, Groups!RefreshFilteredWarning, Groups!FormUnchanged,
         Groups!Open
    <2>2. PICK at \in Groups!AtMostOne(cache[side] \ hidden'[side]) :
              selected' = [selected EXCEPT ![side] = at]
      BY <1>6 DEF Groups!FilterKeyUp
    <2>3. at \subseteq cache[side] \ hidden'[side]
      BY DEF Groups!AtMostOne
    <2>4. /\ hidden' = [l \in Groups!Lists |-> hidden'[l]]
          /\ \A l \in Groups!Lists : hidden'[l] \subseteq cache[l]
      BY <2>1, FilterIsSound
    <2>5. ASSUME NEW l \in Groups!Lists PROVE selected'[l] \subseteq cache[l] \ hidden'[l]
      <3>1. CASE l = side
        BY <2>2, <2>3, <3>1 DEF ChooserInv, ListsAreSound
      <3>2. CASE l # side
        <4>1. hidden'[l] \subseteq hidden[l] /\ selected'[l] = selected[l]
          BY <2>1, <2>2, <3>2 DEF Groups!Filter, ChooserInv, ListsAreSound
        <4> QED  BY <4>1 DEF ChooserInv, ListsAreSound, Groups!Displayed
      <3> QED  BY <3>1, <3>2
    <2> QED  BY <2>1, <2>2, <2>4, <2>5 DEF ChooserInv, ListsAreSound, Groups!Displayed
  <1>7. ASSUME NEW side \in Groups!Lists, Groups!FilterKeyPress(side) PROVE Goal
    <2>1. PICK moving \in Groups!AtMostOne(Groups!Displayed(side)) :
              /\ cache' = Groups!Moved(side, moving)
              /\ hidden' = Groups!StillHidden(side, moving)
              /\ \E at \in Groups!AtMostOne(Groups!Displayed(side) \ moving) :
                     selected' = [Groups!Unselected EXCEPT ![side] = at]
      BY <1>7 DEF Groups!FilterKeyPress
    <2>2. moving \subseteq Groups!Displayed(side)
      BY DEF Groups!AtMostOne
    <2>3. PICK at \in Groups!AtMostOne(Groups!Displayed(side) \ moving) :
              selected' = [Groups!Unselected EXCEPT ![side] = at]
      BY <2>1
    <2>4. at \subseteq Groups!Displayed(side) \ moving
      BY DEF Groups!AtMostOne
    <2>5. hidden' = hidden
      BY <2>1, <2>2, MovedIsSound
    <2>6. \A l \in Groups!Lists : selected'[l] \subseteq cache'[l] \ hidden'[l]
      BY <2>1, <2>3, <2>4, <2>5
         DEF Groups!Unselected, Groups!Moved, Groups!Displayed, Groups!Lists, Groups!Other, ChooserInv, ListsAreSound
    <2>7. UNCHANGED <<warning, known, choosing, submitted>> /\ choosing = "open"
      BY <1>7 DEF Groups!FilterKeyPress, Groups!FormUnchanged, Groups!Open
    <2>8. selected' = [l \in Groups!Lists |-> selected'[l]]
      BY <2>3 DEF Groups!Unselected
    <2> QED  BY <2>1, <2>2, <2>6, <2>7, <2>8, MoveAloneKeeps DEF Groups!Displayed
  <1>8. ASSUME NEW side \in Groups!Lists, Groups!ArrowAcross(side) PROVE Goal
    <2>1. /\ cache' = Groups!Moved(side, selected[side]) /\ Groups!Filter(Groups!Lists, cache', searches)
          /\ warning' = Groups!Cardinality(hidden'["to"])
          /\ UNCHANGED <<known, choosing, submitted>> /\ choosing = "open"
      BY <1>8 DEF Groups!ArrowAcross, Groups!RefreshFilteredWarning, Groups!FormUnchanged,
         Groups!Open
    <2>2. PICK at \in Groups!AtMostOne(cache'[side] \ hidden'[side]) :
              selected' = [Groups!Unselected EXCEPT ![side] = at]
      BY <1>8 DEF Groups!ArrowAcross
    <2>3. at \subseteq cache'[side] \ hidden'[side]
      BY DEF Groups!AtMostOne
    <2>4. selected[side] \subseteq Groups!Displayed(side)
      BY DEF ChooserInv, ListsAreSound
    <2>5. /\ cache' = [l \in Groups!Lists |-> cache'[l]]
          /\ cache'["from"] \cup cache'["to"] = known
          /\ cache'["from"] \cap cache'["to"] = {}
          /\ \A l \in Groups!Lists : hidden[l] \subseteq cache'[l]
      BY <2>1, <2>4, MovedIsSound
    <2>6. /\ hidden' = [l \in Groups!Lists |-> hidden'[l]]
          /\ \A l \in Groups!Lists : hidden'[l] \subseteq cache'[l]
      BY <2>1, FilterIsSound
    <2> QED
      BY <2>1, <2>2, <2>3, <2>5, <2>6 DEF ChooserInv, ListsAreSound, Groups!Displayed,
         Groups!Lists, Groups!Unselected
  <1>9. ASSUME NEW side \in Groups!Lists, Groups!ArrowAlong(side) PROVE Goal
    <2>1. PICK option \in Groups!Displayed(side) : selected' = [selected EXCEPT ![side] = {option}]
      BY <1>9 DEF Groups!ArrowAlong
    <2> QED  BY <1>0, <1>9, <2>1 DEF Groups!ArrowAlong, Groups!FormUnchanged, Groups!Open,
                ChooserInv, ListsAreSound
  <1>10. ASSUME NEW side \in Groups!Lists, NEW options, Groups!Select(side, options) PROVE Goal
    BY <1>0, <1>10 DEF Groups!Select, Groups!FormUnchanged, Groups!Open, ChooserInv, ListsAreSound
  <1>11. ASSUME NEW side \in Groups!Lists, NEW text, Groups!Type(side, text) PROVE Goal
    BY <1>0, <1>11 DEF Groups!Type, Groups!FormUnchanged, Groups!Open, ChooserInv, ListsAreSound
  <1>12. ASSUME NEW side \in Groups!Lists, NEW option, Groups!DoubleClick(side, option) PROVE Goal
    <2>1. /\ {option} \subseteq Groups!Displayed(side) /\ cache' = Groups!Moved(side, {option})
          /\ hidden' = Groups!StillHidden(side, {option}) /\ selected' = [l \in Groups!Lists |-> {}]
          /\ UNCHANGED <<warning, known, choosing, submitted>> /\ choosing = "open"
      BY <1>12 DEF Groups!DoubleClick, Groups!Unselected, Groups!FormUnchanged, Groups!Open
    <2> QED  BY <2>1, MoveAloneKeeps
  <1>13. ASSUME NEW option, Groups!AddRelated(option) PROVE Goal
    BY <1>13 DEF Groups!AddRelated, ChooserInv, ListsAreSound, Groups!Displayed, Groups!Lists,
       Groups!Open
  <1>14. CASE UNCHANGED Groups!vars
    BY <1>0, <1>14 DEF Groups!vars, ChooserInv, ListsAreSound
  <1> QED
    BY <1>1, <1>2, <1>3, <1>4, <1>5, <1>6, <1>7, <1>8, <1>9, <1>10, <1>11, <1>12, <1>13,
       <1>14 DEF Groups!Next

(* Every option is in one list, the warning counts those hidden, and the   *)
(* form is submitted with all that are chosen.                             *)
THEOREM NoOptionIsLost == Groups!Spec => []LosesNoOption
  <1>1. ChooserInv => LosesNoOption
    BY DEF ChooserInv, LosesNoOption, Groups!LosesNoOption
  <1> QED  BY <1>1, ChooserInit, ChooserStep, PTL DEF Groups!Spec

(* No step moves an option that is not displayed.                          *)
THEOREM TheHiddenStay == Groups!Spec => LeavesTheHidden
  <1>1. ChooserInv /\ [Groups!Next]_(Groups!vars) => [Groups!TheHiddenStayInList]_(Groups!vars)
    BY ChooserStep DEF Groups!TheHiddenStayInList
  <1> QED  BY <1>1, ChooserInit, ChooserStep, PTL DEF Groups!Spec, LeavesTheHidden,
              Groups!LeavesTheHidden

-----------------------------------------------------------------------------
(* The calendars beside the date fields.                                   *)

(* The Gregorian calendar: 400 years are 146097 days, and day n of them is *)
(* one of the year that is computed.                                       *)
YearOfEra(n) == (n - n \div 1460 + n \div 36524 - n \div 146096) \div 365
BeforeYearOfEra(y) == 365 * y + y \div 4 - y \div 100

(* In each century a year has at most one day more than 365, whatever is  *)
(* rounded: c centuries, a times 1460 days, y years, q of four and h of a  *)
(* hundred.                                                                *)
LEMMA Centuries ==
    ASSUME NEW c \in {0, 1, 2, 3}, NEW n \in Int, NEW a \in Int, NEW y \in Int, NEW q \in Int,
           NEW h \in Int,
           36524 * c <= n, n < 36524 * c + 36524, 1460 * a <= n, n < 1460 * a + 1460,
           365 * y <= n - a + c, n - a + c < 365 * y + 365,
           4 * q <= y, y < 4 * q + 4, 100 * h <= y, y < 100 * h + 100
    PROVE  n - (365 * y + q - h) \in 0..365 /\ y \in 0..399
  <1>1. CASE c = 0
    <2>1. 0 <= a /\ a <= 25 /\ a \in 0..25
      BY <1>1, SMTT(30)
    <2>2. h = 0
      BY <1>1, <2>1, SMTT(30)
    <2>3. a = q \/ a = q + 1
      BY <1>1, <2>1, SMTT(30)
    <2> QED  BY <1>1, <2>1, <2>2, <2>3, SMTT(30)
  <1>2. CASE c = 1
    <2>1. 25 <= a /\ a <= 50 /\ a \in 25..50
      BY <1>2, SMTT(30)
    <2>2. h = 1
      BY <1>2, <2>1, SMTT(30)
    <2>3. a = q \/ a = q + 1
      BY <1>2, <2>1, SMTT(30)
    <2> QED  BY <1>2, <2>1, <2>2, <2>3, SMTT(30)
  <1>3. CASE c = 2
    <2>1. 50 <= a /\ a <= 75 /\ a \in 50..75
      BY <1>3, SMTT(30)
    <2>2. h = 2
      BY <1>3, <2>1, SMTT(30)
    <2>3. a = q \/ a = q + 1
      BY <1>3, <2>1, SMTT(30)
    <2> QED  BY <1>3, <2>1, <2>2, <2>3, SMTT(30)
  <1>4. CASE c = 3
    <2>1. 75 <= a /\ a <= 100 /\ a \in 75..100
      BY <1>4, SMTT(30)
    <2>2. h = 3
      BY <1>4, <2>1, SMTT(30)
    <2>3. a = q \/ a = q + 1
      BY <1>4, <2>1, SMTT(30)
    <2> QED  BY <1>4, <2>1, <2>2, <2>3, SMTT(30)
  <1> QED  BY <1>1, <1>2, <1>3, <1>4

LEMMA DayOfEra ==
    ASSUME NEW n \in Int, 0 <= n, n < 146097
    PROVE  /\ YearOfEra(n) \in 0..399
           /\ n - BeforeYearOfEra(YearOfEra(n)) \in 0..365
  <1>1. CASE n = 146096
    <2>1. YearOfEra(n) = 399
      BY <1>1, SMT DEF YearOfEra
    <2>2. BeforeYearOfEra(399) = 145731
      BY SMT DEF BeforeYearOfEra
    <2> QED  BY <1>1, <2>1, <2>2, SMT
  <1>2. CASE n # 146096
    <2> DEFINE c == n \div 36524
               y == YearOfEra(n)
    <2>1. c \in {0, 1, 2, 3} /\ 36524 * c <= n /\ n < 36524 * c + 36524 /\ n \div 146096 = 0
      <3>1. n < 146096
        BY <1>2, SMT
      <3>2. c \in Int /\ 36524 * c <= n /\ n < 36524 * c + 36524
        BY SMT
      <3>3. n \div 146096 = 0
        BY <3>1, SMT
      <3> HIDE DEF c
      <3>4. 0 <= c /\ c <= 3
        BY <3>1, <3>2, SMT
      <3> QED  BY <3>2, <3>3, <3>4, SMT
    <2>2. n \div 1460 \in Int /\ 1460 * (n \div 1460) <= n /\ n < 1460 * (n \div 1460) + 1460
      BY SMT
    <2>3. y \in Int /\ 365 * y <= n - n \div 1460 + c /\ n - n \div 1460 + c < 365 * y + 365
      BY <2>1, <2>2, SMT DEF YearOfEra
    <2> HIDE DEF y
    <2>4. /\ y \div 4 \in Int /\ 4 * (y \div 4) <= y /\ y < 4 * (y \div 4) + 4
          /\ y \div 100 \in Int /\ 100 * (y \div 100) <= y /\ y < 100 * (y \div 100) + 100
      BY <2>3, SMT
    <2> DEFINE a == n \div 1460
               q == y \div 4
               h == y \div 100
    <2> HIDE DEF a, c, q, h
    <2>5. n - (365 * y + q - h) \in 0..365 /\ y \in 0..399
      <3>1. a \in Int /\ 1460 * a <= n /\ n < 1460 * a + 1460
        BY <2>2, SMT DEF a
      <3>2. 365 * y <= n - a + c /\ n - a + c < 365 * y + 365
        BY <2>3, SMT DEF a
      <3>3. /\ q \in Int /\ 4 * q <= y /\ y < 4 * q + 4
            /\ h \in Int /\ 100 * h <= y /\ y < 100 * h + 100
        BY <2>4, SMT DEF q, h
      <3> QED  BY <2>1, <2>3, <3>1, <3>2, <3>3, Centuries, SMT
    <2> QED  BY <2>5, SMT DEF BeforeYearOfEra, y, q, h
  <1> QED  BY <1>1, <1>2, SMT

LEMMA Eras ==
    ASSUME NEW e \in Int, NEW y \in 0..399
    PROVE  Shortcuts!BeforeYear(400 * e + y) = 146097 * e + BeforeYearOfEra(y)
  BY SMTT(60) DEF Shortcuts!BeforeYear, BeforeYearOfEra

(* Each date is a day of its year.                                         *)
LEMMA MarchYears ==
    ASSUME NEW date \in Int
    PROVE  /\ Shortcuts!MarchYear(date) \in Int
           /\ date - Shortcuts!BeforeYear(Shortcuts!MarchYear(date)) \in 0..365
  <1> DEFINE e == date \div 146097
             n == date % 146097
  <1>1. e \in Int /\ n \in Int /\ 0 <= n /\ n < 146097 /\ date = 146097 * e + n
    <2>1. \A d \in Int : d \div 146097 \in Int /\ d % 146097 \in Int /\ 0 <= d % 146097 /\ d % 146097 < 146097
      BY SMT
    <2>2. \A d \in Int : d = 146097 * (d \div 146097) + (d % 146097)
      BY SMT
    <2> QED  BY <2>1, <2>2, SMT
  <1>2. Shortcuts!MarchYear(date) = 400 * e + YearOfEra(n)
    BY SMT DEF Shortcuts!MarchYear, YearOfEra
  <1>3. YearOfEra(n) \in 0..399 /\ n - BeforeYearOfEra(YearOfEra(n)) \in 0..365
    BY <1>1, DayOfEra, SMT
  <1> HIDE DEF e, n
  <1>4. Shortcuts!BeforeYear(400 * e + YearOfEra(n)) = 146097 * e + BeforeYearOfEra(YearOfEra(n))
    BY <1>1, <1>3, Eras, SMT
  <1>5. BeforeYearOfEra(YearOfEra(n)) \in Int
    BY <1>3, SMT DEF BeforeYearOfEra
  <1>6. date - (146097 * e + BeforeYearOfEra(YearOfEra(n))) \in 0..365
    BY <1>1, <1>3, <1>5, SMT
  <1> QED  BY <1>1, <1>2, <1>3, <1>4, <1>6, SMT

LEMMA YearsGrow ==
    ASSUME NEW y \in Int, NEW z \in Int, y < z
    PROVE  /\ Shortcuts!BeforeYear(y) \in Int
           /\ Shortcuts!BeforeYear(y) + 365 <= Shortcuts!BeforeYear(z)
  BY SMTT(60) DEF Shortcuts!BeforeYear

(* The fields of a date are a month and numbers, ...                       *)
LEMMA Months ==
    ASSUME NEW date \in Int
    PROVE  /\ Shortcuts!MarchMonth(date) \in 0..11
           /\ Shortcuts!GetMonth(date) \in 1..12
           /\ (Shortcuts!GetMonth(date) - 1) \div 12 = 0
           /\ (((Shortcuts!GetMonth(date) - 1) % 12) + 10) % 12 = Shortcuts!MarchMonth(date)
           /\ Shortcuts!GetMonth(date) <= 2 <=> (Shortcuts!GetMonth(date) - 1) % 12 < 2
           /\ Shortcuts!GetFullYear(date) \in Int
           /\ Shortcuts!GetDate(date) \in Int
  <1> DEFINE k == date - Shortcuts!BeforeYear(Shortcuts!MarchYear(date))
  <1>1. k \in 0..365 /\ Shortcuts!MarchYear(date) \in Int
    BY MarchYears, SMT
  <1> HIDE DEF k
  <1>2. Shortcuts!MarchMonth(date) = (5 * k + 2) \div 153
    BY SMT DEF Shortcuts!MarchMonth, k
  <1>3. Shortcuts!MarchMonth(date) \in 0..11
    BY <1>1, <1>2, SMT
  <1>4. Shortcuts!GetMonth(date) = ((Shortcuts!MarchMonth(date) + 2) % 12) + 1
    BY SMT DEF Shortcuts!GetMonth
  <1>5. Shortcuts!GetDate(date) = k - Shortcuts!BeforeMonth(Shortcuts!MarchMonth(date)) + 1
    BY SMT DEF Shortcuts!GetDate, k
  <1>6. Shortcuts!BeforeMonth(Shortcuts!MarchMonth(date)) \in Int
    BY <1>3, SMT DEF Shortcuts!BeforeMonth
  <1>7. Shortcuts!GetFullYear(date) \in Int
    BY <1>1, <1>4, <1>3, SMT DEF Shortcuts!GetFullYear
  <1>8. Shortcuts!GetDate(date) \in Int
    BY <1>1, <1>5, <1>6, SMT
  <1> QED  BY <1>3, <1>4, <1>7, <1>8, SMT

(* ... and the date they say, from the year 100 on, is that date.          *)
LEMMA DateOfItsFields ==
    ASSUME NEW date \in Int, Shortcuts!GetFullYear(date) >= 100
    PROVE  Shortcuts!DateUTC(Shortcuts!GetFullYear(date), Shortcuts!GetMonth(date) - 1,
                             Shortcuts!GetDate(date)) = date
  <1> DEFINE year == Shortcuts!GetFullYear(date)
             month == Shortcuts!GetMonth(date)
             k == date - Shortcuts!BeforeYear(Shortcuts!MarchYear(date))
             b == Shortcuts!BeforeMonth(Shortcuts!MarchMonth(date))
  <1>1. Shortcuts!MarchYear(date) \in Int /\ k \in 0..365
    BY MarchYears, SMT
  <1>2. /\ Shortcuts!MarchMonth(date) \in 0..11 /\ month \in 1..12 /\ year \in Int
        /\ (month - 1) \div 12 = 0 /\ (((month - 1) % 12) + 10) % 12 = Shortcuts!MarchMonth(date)
        /\ month <= 2 <=> (month - 1) % 12 < 2
    BY Months, SMT
  <1>3. year = Shortcuts!MarchYear(date) + (IF month <= 2 THEN 1 ELSE 0)
    BY SMT DEF Shortcuts!GetFullYear
  <1>4. Shortcuts!GetDate(date) = date - Shortcuts!BeforeYear(Shortcuts!MarchYear(date)) - b + 1
    BY SMT DEF Shortcuts!GetDate
  <1>5. Shortcuts!BeforeYear(Shortcuts!MarchYear(date)) \in Int /\ b \in Int
    BY <1>1, <1>2, SMT DEF Shortcuts!BeforeYear, Shortcuts!BeforeMonth
  <1>6. year \notin 0..99 /\ (year + (month - 1) \div 12) = year
    BY <1>2, SMT
  <1> HIDE DEF year, month, k, b
  <1>7. Shortcuts!DateUTC(year, month - 1, Shortcuts!GetDate(date))
           = Shortcuts!BeforeYear(Shortcuts!MarchYear(date)) + b + Shortcuts!GetDate(date) - 1
    BY <1>1, <1>2, <1>3, <1>6, SMT DEF Shortcuts!DateUTC, b
  <1>8. Shortcuts!DateUTC(year, month - 1, Shortcuts!GetDate(date)) = date
    BY <1>4, <1>5, <1>7, SMT
  <1> QED  BY <1>8, SMT DEF year, month

(* Dates from the first of a year on are of that year or a later one.      *)
LEMMA LateYears ==
    ASSUME NEW date \in Int, NEW y \in Nat, y >= 100, date >= Shortcuts!DateUTC(y, 0, 1)
    PROVE  Shortcuts!GetFullYear(date) >= y
  <1> DEFINE z == Shortcuts!MarchYear(date)
             k == date - Shortcuts!BeforeYear(z)
             m == (5 * k + 2) \div 153
  <1>1. z \in Int /\ k \in 0..365
    BY MarchYears, SMT
  <1>2. Shortcuts!DateUTC(y, 0, 1) = Shortcuts!BeforeYear(y - 1) + 306
    <2>1. /\ 0 % 12 = 0 /\ 0 \div 12 = 0 /\ (0 + 10) % 12 = 10 /\ Shortcuts!BeforeMonth(10) = 306
          /\ y \notin 0..99 /\ ((y + 0) - 1) = y - 1
      BY SMT DEF Shortcuts!BeforeMonth
    <2>2. Shortcuts!DateUTC(y, 0, 1)
             = Shortcuts!BeforeYear(y - 1) + Shortcuts!BeforeMonth(10) + 1 - 1
      BY <2>1, SMT DEF Shortcuts!DateUTC
    <2>3. Shortcuts!BeforeYear(y - 1) \in Int
      BY SMT DEF Shortcuts!BeforeYear
    <2> QED  BY <2>1, <2>2, <2>3, SMT
  <1>3. Shortcuts!BeforeYear(y - 1) \in Int /\ Shortcuts!BeforeYear(z) \in Int
    BY <1>1, SMT DEF Shortcuts!BeforeYear
  <1>4. z >= y - 1
    <2>1. CASE z < y - 1
      <3>1. Shortcuts!BeforeYear(z) + 365 <= Shortcuts!BeforeYear(y - 1)
        BY <1>1, <2>1, YearsGrow, SMT
      <3> HIDE DEF z
      <3> QED  BY <1>1, <1>2, <1>3, <3>1, SMT
    <2> HIDE DEF z
    <2> QED  BY <1>1, <2>1, SMT
  <1>5. z = y - 1 => k >= 306
    <2> HIDE DEF z
    <2> QED  BY <1>1, <1>2, <1>3, SMT
  <1>6. Shortcuts!GetMonth(date) = ((m + 2) % 12) + 1
    BY SMT DEF Shortcuts!GetMonth, Shortcuts!MarchMonth
  <1>7. k >= 306 => Shortcuts!GetMonth(date) <= 2
    <2> HIDE DEF k
    <2> QED  BY <1>1, <1>6, SMT
  <1>8. Shortcuts!GetFullYear(date) = z + (IF Shortcuts!GetMonth(date) <= 2 THEN 1 ELSE 0)
    BY SMT DEF Shortcuts!GetFullYear
  <1> HIDE DEF z, k
  <1> QED  BY <1>1, <1>4, <1>5, <1>7, <1>8, SMT

(* From 1969 to 2068 two digits say the year: to DateUTC, which takes those*)
(* below 100 for years of the twentieth century.                           *)
LEMMA TwoDigitsSay ==
    ASSUME NEW year \in 1969..2068
    PROVE  Shortcuts!TwoDigitYear(year % 100)
               = IF year <= 1999 THEN year - 1900 ELSE year
  <1> DEFINE t == year % 100
             date == Shortcuts!DateUTC(t, 0, 1)
             z == Shortcuts!MarchYear(date)
  <1>1. t \in 0..99 /\ year = IF t >= 69 THEN 1900 + t ELSE 2000 + t
    BY SMT
  <1>2. CASE t >= 69
    BY <1>1, <1>2, SMT DEF Shortcuts!TwoDigitYear
  <1>3. CASE t < 69
    <2>1. date = Shortcuts!BeforeYear(1899 + t) + 306
      <3> HIDE DEF t
      <3>1. /\ 0 % 12 = 0 /\ 0 \div 12 = 0 /\ Shortcuts!BeforeMonth(10) = 306
            /\ ((IF t \in 0..99 THEN t + 1900 ELSE t) + 0) - 1 = 1899 + t
        BY <1>1, SMT DEF Shortcuts!BeforeMonth
      <3>2. date = Shortcuts!BeforeYear(1899 + t) + Shortcuts!BeforeMonth(10) + 1 - 1
        BY <3>1, SMT DEF Shortcuts!DateUTC
      <3>3. Shortcuts!BeforeYear(1899 + t) \in Int
        BY <1>1, SMT DEF Shortcuts!BeforeYear
      <3> QED  BY <3>1, <3>2, <3>3, SMT
    <2>2. Shortcuts!BeforeYear(1899 + t) \in Int /\ date \in Int
      <3>1. Shortcuts!BeforeYear(1899 + t) \in Int
        BY <1>1, SMT DEF Shortcuts!BeforeYear
      <3> QED  BY <2>1, <3>1, SMT
    <2> HIDE DEF date
    <2>3. z \in Int /\ date - Shortcuts!BeforeYear(z) \in 0..365
      BY <2>2, MarchYears, SMT
    <2>4. Shortcuts!BeforeYear(z) \in Int
      BY <2>3, SMT DEF Shortcuts!BeforeYear
    <2> HIDE DEF z
    <2>5. ~(z < 1899 + t)
      <3>1. z < 1899 + t => Shortcuts!BeforeYear(z) + 365 <= Shortcuts!BeforeYear(1899 + t)
        BY <1>1, <2>3, YearsGrow, SMT
      <3> HIDE DEF t
      <3> QED  BY <2>1, <2>2, <2>3, <2>4, <3>1, SMT
    <2>6. ~(1899 + t < z)
      <3>1. 1899 + t < z => Shortcuts!BeforeYear(1899 + t) + 365 <= Shortcuts!BeforeYear(z)
        BY <1>1, <2>3, YearsGrow, SMT
      <3> HIDE DEF t
      <3> QED  BY <2>1, <2>2, <2>3, <2>4, <3>1, SMT
    <2>7. z = 1899 + t /\ date - Shortcuts!BeforeYear(z) = 306
      <3>1. z = 1899 + t
        <4> HIDE DEF t
        <4> QED  BY <1>1, <2>3, <2>5, <2>6, SMT
      <3> HIDE DEF t
      <3> QED  BY <2>1, <2>2, <3>1, SMT
    <2>8. Shortcuts!GetMonth(date) = 1
      <3>1. Shortcuts!MarchMonth(date) = 10
        BY <2>7, SMT DEF Shortcuts!MarchMonth, z
      <3> QED  BY <3>1, SMT DEF Shortcuts!GetMonth
    <2>9. Shortcuts!GetFullYear(date) = 1900 + t
      <3> HIDE DEF t
      <3> QED  BY <1>1, <2>7, <2>8, SMT DEF Shortcuts!GetFullYear, z
    <2> HIDE DEF t
    <2>10. Shortcuts!TwoDigitYear(t) = 2000 + t
      BY <1>1, <1>3, <2>9, SMT DEF Shortcuts!TwoDigitYear, date
    <2> QED  BY <1>1, <1>3, <2>10, SMT DEF t
  <1> QED  BY <1>1, <1>2, <1>3, SMT

(* What strftime writes in a format of the locales, strptime reads.        *)
LEMMA FormatsHaveFields ==
    ASSUME NEW f \in Formats
    PROVE  /\ DOMAIN f = 1..3
           /\ \E d \in 1..3, m \in 1..3, y \in 1..3 :
                /\ f[d] = "d" /\ f[m] = "m" /\ f[y] \in {"y", "Y"}
                /\ \A i \in 1..3 : i \in {d, m, y}
  BY SMT DEF Formats

LEMMA DatesSayDays ==
    ASSUME NEW date \in Int
    PROVE  Shortcuts!GetDate(date) \in 1..31
  <1> DEFINE k == date - Shortcuts!BeforeYear(Shortcuts!MarchYear(date))
             m == (5 * k + 2) \div 153
  <1>1. k \in 0..365
    BY MarchYears, SMT
  <1>2. Shortcuts!GetDate(date) = k - (153 * m + 2) \div 5 + 1
    BY SMT DEF Shortcuts!GetDate, Shortcuts!BeforeMonth, Shortcuts!MarchMonth
  <1> HIDE DEF k
  <1> QED  BY <1>1, <1>2, SMT

LEMMA Chosen ==
    ASSUME NEW f, NEW directives, NEW i \in DOMAIN f, f[i] \in directives
    PROVE  LET c == CHOOSE j \in DOMAIN f : f[j] \in directives
           IN  c \in DOMAIN f /\ f[c] \in directives
  OBVIOUS

LEMMA ReadsBack ==
    ASSUME NEW f \in Formats, NEW date \in Int, Shortcuts!GetFullYear(date) >= 100,
           (\E k \in DOMAIN f : f[k] = "y") => Shortcuts!GetFullYear(date) \in 1969..2068
    PROVE  Shortcuts!Strptime(Shortcuts!Strftime(date, f), f) = date
  <1> DEFINE text == Shortcuts!Strftime(date, f)
             year == Shortcuts!GetFullYear(date)
             month == Shortcuts!GetMonth(date)
             day == Shortcuts!GetDate(date)
             At(directives) == CHOOSE i \in DOMAIN f : f[i] \in directives
  <1>1. PICK d \in 1..3, m \in 1..3, y \in 1..3 :
              /\ f[d] = "d" /\ f[m] = "m" /\ f[y] \in {"y", "Y"}
              /\ \A i \in 1..3 : i \in {d, m, y}
    BY FormatsHaveFields
  <1>2. DOMAIN f = 1..3
    BY FormatsHaveFields
  <1>3. DOMAIN text = 1..3 /\ text[d] = day /\ text[m] = month
        /\ text[y] = IF f[y] = "y" THEN year % 100 ELSE year
    BY <1>1, <1>2, SMT DEF Shortcuts!Strftime
  <1>4. year \in Int /\ year >= 100 /\ month \in 1..12 /\ day \in Int
    BY Months
  <1>5. At({"d"}) = d /\ At({"m"}) = m /\ At({"Y", "y"}) = y
    <2>0. /\ d \in DOMAIN f /\ f[d] \in {"d"} /\ m \in DOMAIN f /\ f[m] \in {"m"}
          /\ y \in DOMAIN f /\ f[y] \in {"Y", "y"}
      BY <1>1, <1>2, SMT
    <2>1. At({"d"}) \in DOMAIN f /\ f[At({"d"})] \in {"d"}
      BY <2>0, Chosen
    <2>2. At({"m"}) \in DOMAIN f /\ f[At({"m"})] \in {"m"}
      BY <2>0, Chosen
    <2>3. At({"Y", "y"}) \in DOMAIN f /\ f[At({"Y", "y"})] \in {"Y", "y"}
      BY <2>0, Chosen
    <2> HIDE DEF At
    <2> QED  BY <1>1, <1>2, <2>1, <2>2, <2>3, SMT
  <1> DEFINE written == text[y]
             short == \E i \in DOMAIN f : f[i] = "y"
             said == IF short THEN Shortcuts!TwoDigitYear(written) ELSE written
  <1>6. short <=> f[y] = "y"
    BY <1>1, <1>2, SMT
  <1>7. \A i \in DOMAIN f : i \in DOMAIN text /\ text[i] # Shortcuts!NaN
    <2>1. year % 100 \in 0..99
      BY <1>4, SMT
    <2>2. day # -1
      <3>1. day >= 0
        BY DatesSayDays
      <3> HIDE DEF day
      <3> QED  BY <1>4, <3>1, SMT
    <2> HIDE DEF text, year, month, day
    <2> QED  BY <1>1, <1>2, <1>3, <1>4, <2>1, <2>2, SMT DEF Shortcuts!NaN
  <1>8. Shortcuts!Strptime(text, f) = Shortcuts!DateUTC(said, month - 1, day)
    <2> HIDE DEF month, day, year
    <2>1. Shortcuts!Strptime(text, f)
             = Shortcuts!DateUTC(IF short THEN Shortcuts!TwoDigitYear(text[At({"Y", "y"})])
                                          ELSE text[At({"Y", "y"})],
                                 text[At({"m"})] - 1, text[At({"d"})])
      <3> HIDE DEF text
      <3> QED  BY <1>7, SMT DEF Shortcuts!Strptime
    <2> HIDE DEF text, At, short
    <2> QED  BY <1>3, <1>5, <2>1
  <1>9. IF said \in 0..99 THEN said + 1900 = year ELSE said = year
    <2>1. CASE short
      <3>1. year \in 1969..2068 /\ written = year % 100
        BY <1>3, <1>6, <2>1
      <3>2. said = Shortcuts!TwoDigitYear(year % 100)
        BY <2>1, <3>1
      <3> HIDE DEF year
      <3>3. said = IF year <= 1999 THEN year - 1900 ELSE year
        BY <3>1, <3>2, TwoDigitsSay, SMT
      <3> HIDE DEF said
      <3> QED  BY <1>4, <3>1, <3>3, SMT
    <2>2. CASE ~short
      <3>1. said = year
        BY <1>3, <1>6, <2>2
      <3> HIDE DEF said, year
      <3> QED  BY <1>4, <3>1, SMT
    <2> QED  BY <2>1, <2>2
  <1>10. Shortcuts!DateUTC(said, month - 1, day) = Shortcuts!DateUTC(year, month - 1, day)
    <2> HIDE DEF said, year, month, day
    <2> QED  BY <1>4, <1>9, SMT DEF Shortcuts!DateUTC
  <1> QED  BY <1>8, <1>10, DateOfItsFields

LEMMA DatesAreNumbers ==
    \A year \in Int, month \in Int, day \in Int : Shortcuts!DateUTC(year, month, day) \in Int
  BY SMT DEF Shortcuts!DateUTC, Shortcuts!BeforeYear, Shortcuts!BeforeMonth

(* getDaysInMonth and the columns of draw agree with the calendar.         *)
LEMMA MonthIsRight ==
    ASSUME NEW month \in 1..12, NEW year \in Int, year >= 100, NEW first \in 0..6
    PROVE  LET start == Shortcuts!DateUTC(year, month - 1, 1)
               before == Shortcuts!GetDay(Shortcuts!DateUTC(year, month - 1, 1 - first))
           IN  /\ Shortcuts!GetDaysInMonth(month, year) = Shortcuts!DateUTC(year, month, 1) - start
               /\ \A d \in 1..31 :
                     Shortcuts!GetDay(start + d - 1) = (((before + d - 1) % 7) + first) % 7
  <1> DEFINE start == Shortcuts!DateUTC(year, month - 1, 1)
             next == Shortcuts!DateUTC(year, month, 1)
             b == Shortcuts!BeforeYear(year - 1)
             c == Shortcuts!BeforeYear(year)
  <1>1. b \in Int /\ c \in Int
    BY SMT DEF Shortcuts!BeforeYear
  <1>2. c - b = IF Shortcuts!IsLeapYear(year) THEN 366 ELSE 365
    BY SMTT(60) DEF Shortcuts!BeforeYear, Shortcuts!IsLeapYear
  <1>3. year \notin 0..99
    OBVIOUS
  <1>4. \A n \in Int : Shortcuts!DateUTC(year, month - 1, n)
           = (IF month <= 2 THEN b ELSE c) + Shortcuts!BeforeMonth((month + 9) % 12) + n - 1
    <2>1. (month - 1) \div 12 = 0 /\ (month - 1) % 12 = month - 1
      BY SMT
    <2> QED  BY <1>3, <2>1, SMT DEF Shortcuts!DateUTC
  <1>5. start \in Int /\ \A n \in Int : Shortcuts!DateUTC(year, month - 1, n) = start + n - 1
    <2>1. Shortcuts!BeforeMonth((month + 9) % 12) \in Int
      BY SMT DEF Shortcuts!BeforeMonth
    <2> HIDE DEF b, c
    <2> QED  BY <1>1, <1>4, <2>1, SMT
  <1>6. next = (IF month = 1 THEN b ELSE c) + Shortcuts!BeforeMonth((month + 10) % 12)
    <2>1. CASE month = 12
      <3>1. month \div 12 = 1 /\ month % 12 = 0 /\ (month + 10) % 12 = 10 /\ (year + 1) - 1 = year
        BY <2>1, SMT
      <3>2. Shortcuts!BeforeMonth(10) \in Int
        BY SMT DEF Shortcuts!BeforeMonth
      <3> QED  BY <1>1, <1>3, <2>1, <3>1, <3>2, SMT DEF Shortcuts!DateUTC
    <2>2. CASE month # 12
      <3>1. month \div 12 = 0 /\ month % 12 = month
        BY <2>2, SMT
      <3>2. Shortcuts!BeforeMonth((month + 10) % 12) \in Int
        BY SMT DEF Shortcuts!BeforeMonth
      <3> QED  BY <1>1, <1>3, <2>2, <3>1, <3>2, SMT DEF Shortcuts!DateUTC
    <2> QED  BY <2>1, <2>2
  <1>7. start = (IF month <= 2 THEN b ELSE c) + Shortcuts!BeforeMonth((month + 9) % 12)
    <2>1. Shortcuts!BeforeMonth((month + 9) % 12) \in Int
      BY SMT DEF Shortcuts!BeforeMonth
    <2> HIDE DEF b, c
    <2> QED  BY <1>1, <1>4, <2>1, SMT
  <1>8. Shortcuts!GetDaysInMonth(month, year) = next - start
    <2> HIDE DEF b, c, next, start
    <2>1. month \in {1, 2, 3, 4, 5, 6, 7, 8, 9, 10, 11, 12}
      BY SMT
    <2> QED  BY <1>1, <1>2, <1>6, <1>7, <2>1, SMTT(60) DEF Shortcuts!GetDaysInMonth,
                Shortcuts!BeforeMonth
  <1>9. Shortcuts!GetDay(Shortcuts!DateUTC(year, month - 1, 1 - first)) = (start - first + 3) % 7
    <2> HIDE DEF start
    <2> QED  BY <1>5, SMT DEF Shortcuts!GetDay
  <1>10. ASSUME NEW d \in 1..31
         PROVE  Shortcuts!GetDay(start + d - 1)
                   = (((((start - first + 3) % 7) + d - 1) % 7) + first) % 7
    <2> HIDE DEF start
    <2> QED  BY <1>5, SMTT(60) DEF Shortcuts!GetDay
  <1> HIDE DEF start, next
  <1>11. \A d \in 1..31 :
            Shortcuts!GetDay(start + d - 1)
               = (((Shortcuts!GetDay(Shortcuts!DateUTC(year, month - 1, 1 - first)) + d - 1) % 7)
                     + first) % 7
    BY <1>9, <1>10
  <1> QED  BY <1>8, <1>11 DEF start, next

GridType ==
    [month : 0..12, year : Int, start : Int, days : 0..31, today : Int, selected : Int]

(* What draw makes of a month, a first day of the week and a date selected.*)
IsGridOf(g, first, date) ==
    /\ g.month \in 1..12
    /\ g.start = Shortcuts!GetDay(Shortcuts!DateUTC(g.year, g.month - 1, 1 - first))
    /\ g.days = Shortcuts!GetDaysInMonth(g.month, g.year)
    /\ g.selected =
          IF /\ date # Shortcuts!NaN
             /\ Shortcuts!GetFullYear(date) = g.year /\ Shortcuts!GetMonth(date) = g.month
          THEN Shortcuts!GetDate(date) ELSE 0

IsDrawing(g, month, year, first, date) ==
    /\ g \in GridType /\ IsGridOf(g, first, date)
    /\ g.month = month /\ g.year = year

LEMMA DrawsAGrid ==
    ASSUME NEW month \in 1..12, NEW year \in Int, NEW first \in 0..6, NEW today \in Int,
           NEW date \in Int
    PROVE  IsDrawing(Shortcuts!Draw(month, year, first, today, date), month, year, first, date)
  <1> DEFINE g == Shortcuts!Draw(month, year, first, today, date)
             Marked(day) ==
                IF /\ day # Shortcuts!NaN
                   /\ Shortcuts!GetFullYear(day) = year /\ Shortcuts!GetMonth(day) = month
                THEN Shortcuts!GetDate(day) ELSE 0
  <1>1. Marked(today) \in Int /\ Marked(date) \in Int
    <2>1. Shortcuts!GetDate(today) \in Int /\ Shortcuts!GetDate(date) \in Int
      BY Months
    <2> QED  BY <2>1
  <1>2. g = [month |-> month, year |-> year,
             start |-> Shortcuts!GetDay(Shortcuts!DateUTC(year, month - 1, 1 - first)),
             days |-> Shortcuts!GetDaysInMonth(month, year),
             today |-> Marked(today), selected |-> Marked(date)]
    BY DEF Shortcuts!Draw
  <1>3. Shortcuts!GetDaysInMonth(month, year) \in 0..31
    BY SMT DEF Shortcuts!GetDaysInMonth
  <1>4. Shortcuts!GetDay(Shortcuts!DateUTC(year, month - 1, 1 - first)) \in Int
    <2>1. Shortcuts!DateUTC(year, month - 1, 1 - first) \in Int
      BY SMT DEF Shortcuts!DateUTC, Shortcuts!BeforeYear, Shortcuts!BeforeMonth
    <2> QED  BY <2>1, SMT DEF Shortcuts!GetDay
  <1>5. g \in GridType /\ g.month = month /\ g.year = year
    <2> HIDE DEF Marked
    <2> QED  BY <1>1, <1>2, <1>3, <1>4 DEF GridType
  <1>6. g.selected = Marked(date) /\ g.days = Shortcuts!GetDaysInMonth(month, year)
        /\ g.start = Shortcuts!GetDay(Shortcuts!DateUTC(year, month - 1, 1 - first))
    <2> HIDE DEF Marked
    <2> QED  BY <1>2
  <1> HIDE DEF g
  <1> QED  BY <1>5, <1>6 DEF IsDrawing, IsGridOf, g

(* What strptime and strftime return has the type of the fields.           *)
LEMMA ParsedIsANumber ==
    ASSUME NEW f \in Formats, NEW text \in Seq(Int)
    PROVE  /\ Shortcuts!Strptime(text, f) \in Int
           /\ Shortcuts!GetFullYear(Shortcuts!Strptime(text, f)) >= 1000
                => Shortcuts!Strptime(text, f) \in Nat
  <1> DEFINE date == Shortcuts!Strptime(text, f)
             At(directives) == CHOOSE i \in DOMAIN f : f[i] \in directives
             has == \A i \in DOMAIN f : i \in DOMAIN text /\ text[i] # Shortcuts!NaN
             year == IF \E i \in DOMAIN f : f[i] = "y"
                     THEN Shortcuts!TwoDigitYear(text[At({"Y", "y"})])
                     ELSE text[At({"Y", "y"})]
  <1>1. date = IF has THEN Shortcuts!DateUTC(year, text[At({"m"})] - 1, text[At({"d"})])
               ELSE Shortcuts!NaN
    BY SMT DEF Shortcuts!Strptime
  <1>2. At({"d"}) \in DOMAIN f /\ At({"m"}) \in DOMAIN f /\ At({"Y", "y"}) \in DOMAIN f
    <2>1. PICK d \in 1..3, m \in 1..3, y \in 1..3 :
             f[d] = "d" /\ f[m] = "m" /\ f[y] \in {"y", "Y"}
      BY FormatsHaveFields
    <2>2. /\ d \in DOMAIN f /\ f[d] \in {"d"} /\ m \in DOMAIN f /\ f[m] \in {"m"}
          /\ y \in DOMAIN f /\ f[y] \in {"Y", "y"}
      BY <2>1, FormatsHaveFields, SMT
    <2> QED  BY <2>2, Chosen
  <1>3. \A i \in DOMAIN text : text[i] \in Int
    OBVIOUS
  <1>4. \A y \in Int, m \in Int, d \in Int : Shortcuts!DateUTC(y, m, d) \in Int
    BY SMT DEF Shortcuts!DateUTC, Shortcuts!BeforeYear, Shortcuts!BeforeMonth
  <1>5. \A y \in Int : Shortcuts!TwoDigitYear(y) \in Int
    <2>1. \A y \in Int : Shortcuts!GetFullYear(Shortcuts!DateUTC(y, 0, 1)) \in Int
      BY <1>4, Months
    <2> QED  BY <2>1, SMT DEF Shortcuts!TwoDigitYear
  <1>6. date \in Int
    <2>1. CASE has
      <3>1. text[At({"d"})] \in Int /\ text[At({"m"})] \in Int /\ text[At({"Y", "y"})] \in Int
        BY <1>2, <1>3, <2>1
      <3>2. year \in Int
        BY <1>5, <3>1
      <3> HIDE DEF At, year, date, has
      <3>3. text[At({"m"})] - 1 \in Int
        BY <3>1
      <3> QED  BY <1>1, <1>4, <2>1, <3>1, <3>2, <3>3
    <2>2. CASE ~has
      <3> HIDE DEF At, year, date, has
      <3> QED  BY <1>1, <2>2 DEF Shortcuts!NaN
    <2> QED  BY <2>1, <2>2
  <1> HIDE DEF date
  <1>7. ASSUME Shortcuts!GetFullYear(date) >= 1000
        PROVE  date \in Nat
    <2> DEFINE z == Shortcuts!MarchYear(date)
    <2>1. z \in Int /\ date - Shortcuts!BeforeYear(z) \in 0..365
      BY <1>6, MarchYears
    <2>2. z >= 999
      BY <1>7, <2>1, SMT DEF Shortcuts!GetFullYear
    <2> HIDE DEF z
    <2> DEFINE b == Shortcuts!BeforeYear(z)
    <2>3. b \in Int /\ b >= 0
      BY <2>1, <2>2, SMT DEF Shortcuts!BeforeYear
    <2> HIDE DEF b
    <2>4. date - b \in 0..365
      BY <2>1 DEF b
    <2> QED  BY <1>6, <2>3, <2>4, SMT
  <1> QED  BY <1>6, <1>7 DEF date

LEMMA WrittenIsAText ==
    ASSUME NEW f \in Formats, NEW date \in Int
    PROVE  Shortcuts!Strftime(date, f) \in Seq(Int)
  <1>1. /\ Shortcuts!GetDate(date) \in Int /\ Shortcuts!GetMonth(date) \in Int
        /\ Shortcuts!GetFullYear(date) \in Int /\ Shortcuts!GetFullYear(date) % 100 \in Int
    <2>1. Shortcuts!GetFullYear(date) \in Int
      BY Months
    <2> QED  BY <2>1, Months, SMT
  <1>2. DOMAIN f = 1..3 /\ \A i \in 1..3 : f[i] \in {"d", "m", "y", "Y"}
    BY DEF Formats
  <1>3. Shortcuts!Strftime(date, f) \in [1..3 -> Int]
    BY <1>1, <1>2, SMT DEF Shortcuts!Strftime
  <1> QED  BY <1>3, SeqDef

CalendarType == [selected : Nat \cup {Shortcuts!NaN}, grid : GridType]

(* The page: everything is closed and empty until it is loaded.            *)
PageIsTyped ==
    /\ locale \in Locales \cup {Shortcuts!NotLoaded}
    /\ turns \in 0..MaxTurns /\ ticks \in 0..MaxTicks
    /\ local \in Nat /\ server \in Int /\ server - local \in -1..1
    /\ dateValue \in [Calendars -> Seq(Int)] /\ openedOn \in [Calendars -> Seq(Int)]
    /\ calendar \in [Calendars -> CalendarType]
    /\ dateBoxes \subseteq listening /\ listening \subseteq Shortcuts!Boxes
    /\ ~Shortcuts!Loaded => dateBoxes = {} /\ openedOn = [i \in Calendars |-> <<>>]
    /\ Shortcuts!Loaded => local >= Shortcuts!DateUTC(1000, 0, 1)

(* A grid is drawn of what its calendar has selected, and that is the date *)
(* the calendar was opened on last, if it was one. A year before 1000 is   *)
(* reached by turning over only.                                           *)
CalendarsAreDrawn ==
    Shortcuts!Loaded =>
        \A i \in Calendars :
            /\ IsGridOf(calendar[i].grid, locale.first, calendar[i].selected)
            /\ 12 * calendar[i].grid.year + calendar[i].grid.month >= 12001 - turns
            /\ Shortcuts!IsDrawn(openedOn[i]) =>
                   calendar[i].selected = Shortcuts!Strptime(openedOn[i], locale.format)

CalendarInv == PageIsTyped /\ CalendarsAreDrawn

(* A locale has a format, and there is none before the page is loaded.     *)
LEMMA NotLoadedIsNone == Shortcuts!NotLoaded \notin Locales
  <1>1. ASSUME Shortcuts!NotLoaded \in Locales  PROVE FALSE
    <2>1. Shortcuts!NotLoaded.format \in Formats
      BY <1>1, LocalesAreTyped
    <2>2. DOMAIN Shortcuts!NotLoaded.format = 1..3 /\ 1 \in 1..3
      BY <2>1, FormatsHaveFields
    <2>3. Shortcuts!NotLoaded.format = <<>>
      BY DEF Shortcuts!NotLoaded
    <2> QED  BY <2>2, <2>3, SMT
  <1> QED  BY <1>1

LEMMA LoadedIsALocale ==
    ASSUME PageIsTyped
    PROVE  /\ Shortcuts!Loaded <=> locale \in Locales
           /\ locale.first \in 0..6
           /\ Shortcuts!Loaded => locale.format \in Formats
  <1> QED  BY NotLoadedIsNone, LocalesAreTyped DEF PageIsTyped, Shortcuts!Loaded,
              Shortcuts!NotLoaded

LEMMA CalendarInit == Shortcuts!Init => CalendarInv
  <1> SUFFICES ASSUME Shortcuts!Init PROVE CalendarInv
    OBVIOUS
  <1>1. ~Shortcuts!Loaded
    BY DEF Shortcuts!Init, Shortcuts!Loaded
  <1>2. calendar \in [Calendars -> CalendarType]
    <2>1. Shortcuts!NoGrid \in GridType
      BY DEF Shortcuts!NoGrid, GridType
    <2> QED  BY <2>1 DEF Shortcuts!Init, CalendarType
  <1>3. <<>> \in Seq(Int)
    OBVIOUS
  <1> QED  BY <1>1, <1>2, <1>3, DatesAreTyped DEF Shortcuts!Init, CalendarInv, PageIsTyped,
              CalendarsAreDrawn

(* A month that is drawn anew, of what the calendar has selected or selects*)
LEMMA RedrawnIsSound ==
    ASSUME CalendarInv, Shortcuts!Loaded, NEW i \in Calendars, NEW month \in 1..12, NEW year \in Int,
           NEW date \in Nat \cup {Shortcuts!NaN}
    PROVE  IsDrawing(Shortcuts!DrawCurrent(month, year, date), month, year, locale.first, date)
  <1>1. locale.first \in 0..6 /\ local \in Int /\ date \in Int
    BY LoadedIsALocale DEF CalendarInv, PageIsTyped, Shortcuts!NaN
  <1> QED  BY <1>1, DrawsAGrid DEF Shortcuts!DrawCurrent

(* Each step keeps the calendars drawn of what they were opened on.        *)
LEMMA CalendarStep ==
    ASSUME CalendarInv, [Shortcuts!Next]_(Shortcuts!vars)
    PROVE  CalendarInv'
  <1>1. /\ PageIsTyped /\ CalendarsAreDrawn
        /\ Shortcuts!Loaded <=> locale \in Locales
        /\ Shortcuts!Loaded => locale.first \in 0..6 /\ locale.format \in Formats
    BY LoadedIsALocale DEF CalendarInv
  <1>2. ASSUME Shortcuts!Load  PROVE CalendarInv'
    <2>1. /\ locale' \in Locales /\ local' \in Todays /\ ~Shortcuts!Loaded
          /\ calendar' = [i \in Calendars |-> Shortcuts!NewCalendar(locale'.first, local')]
          /\ UNCHANGED <<dateValue, dateBoxes, listening, openedOn, turns, ticks>>
      BY <1>2, Zenon DEF Shortcuts!Load
    <2>2. PICK d \in Apart : server' = local' + d
      BY <1>2, Zenon DEF Shortcuts!Load
    <2>3. /\ local' \in Nat /\ server' \in Int /\ server' - local' \in -1..1
          /\ local' >= Shortcuts!DateUTC(1000, 0, 1)
      <3>1. local' \in Nat /\ local' >= Shortcuts!DateUTC(1000, 0, 1) /\ d \in -1..1
        BY <2>1, DatesAreTyped
      <3>2. server' \in Int /\ server' - local' \in -1..1
        <4> DEFINE l == local'
        <4>1. l \in Int /\ d \in -1..1 /\ server' = l + d
          BY <2>2, <3>1
        <4> HIDE DEF l
        <4>2. server' \in Int /\ server' - l \in -1..1
          BY <4>1, SMT
        <4> QED  BY <4>2 DEF l
      <3> QED  BY <3>1, <3>2
    <2>4. Shortcuts!GetFullYear(local') \in Int /\ Shortcuts!GetFullYear(local') >= 1000
          /\ Shortcuts!GetMonth(local') \in 1..12
      BY <2>3, LateYears, Months, SMT
    <2>5. locale'.first \in 0..6
      BY <2>1, LocalesAreTyped
    <2> DEFINE c == Shortcuts!NewCalendar(locale'.first, local')
    <2>6. /\ c \in CalendarType /\ c.selected = Shortcuts!NaN
          /\ IsGridOf(c.grid, locale'.first, c.selected)
          /\ 12 * c.grid.year + c.grid.month >= 12001
      <3> DEFINE g == Shortcuts!Draw(Shortcuts!GetMonth(local'), Shortcuts!GetFullYear(local'),
                                    locale'.first, local', Shortcuts!NaN)
      <3>1. Shortcuts!NaN \in Int /\ local' \in Int
        BY <2>3 DEF Shortcuts!NaN
      <3>2. /\ g \in GridType /\ IsGridOf(g, locale'.first, Shortcuts!NaN)
            /\ g.month = Shortcuts!GetMonth(local') /\ g.year = Shortcuts!GetFullYear(local')
        <4>1. IsDrawing(g, Shortcuts!GetMonth(local'), Shortcuts!GetFullYear(local'),
                        locale'.first, Shortcuts!NaN)
          BY <2>4, <2>5, <3>1, DrawsAGrid
        <4> QED  BY <4>1 DEF IsDrawing
      <3>3. c = [selected |-> Shortcuts!NaN, grid |-> g]
        BY DEF Shortcuts!NewCalendar
      <3> HIDE DEF g, c
      <3>4. c \in CalendarType /\ c.selected = Shortcuts!NaN /\ c.grid = g
        BY <3>2, <3>3 DEF CalendarType
      <3>5. 12 * g.year + g.month >= 12001
        BY <2>4, <3>2, SMT
      <3> QED  BY <3>2, <3>4, <3>5
    <2> HIDE DEF c
    <2>7. \A i \in Calendars : calendar'[i] = c
      BY <2>1 DEF c
    <2>8. calendar' \in [Calendars -> CalendarType]
      BY <2>1, <2>6 DEF c
    <2>9. \A i \in Calendars : ~Shortcuts!IsDrawn(openedOn[i])'
      BY <1>1, <2>1 DEF PageIsTyped, Shortcuts!IsDrawn
    <2>10. PageIsTyped'
      <3>1. Shortcuts!Loaded'
        BY <2>1, LocalesAreTyped, NotLoadedIsNone DEF Shortcuts!Loaded
      <3> QED  BY <1>1, <2>1, <2>3, <2>8, <3>1 DEF PageIsTyped
    <2>11. CalendarsAreDrawn'
      <3>1. turns' = turns /\ turns \in Nat
        BY <1>1, <2>1 DEF PageIsTyped
      <3>2. ASSUME NEW i \in Calendars
            PROVE  /\ IsGridOf(calendar'[i].grid, locale'.first, calendar'[i].selected)
                   /\ 12 * calendar'[i].grid.year + calendar'[i].grid.month >= 12001 - turns'
        <4>1. calendar'[i] = c /\ c.grid.year \in Int /\ c.grid.month \in Int
          BY <2>6, <2>7 DEF CalendarType, GridType
        <4> QED  BY <2>6, <3>1, <4>1
      <3> QED  BY <2>9, <3>2 DEF CalendarsAreDrawn, Shortcuts!IsDrawn
    <2> QED  BY <2>10, <2>11 DEF CalendarInv
  <1>3. ASSUME Shortcuts!Midnight  PROVE CalendarInv'
    <2>1. /\ Shortcuts!Loaded /\ ticks' = ticks + 1 /\ ticks < MaxTicks
          /\ UNCHANGED <<locale, dateValue, calendar, dateBoxes, listening, openedOn, turns>>
          /\ \/ local' = local + 1 /\ server' = server
             \/ server' = server + 1 /\ local' = local
          /\ server' - local' \in -1..1
      BY <1>3 DEF Shortcuts!Midnight
    <2>2. /\ local' \in Nat /\ local' >= local /\ server' \in Int /\ ticks' \in 0..MaxTicks
      BY <1>1, <2>1, DatesAreTyped DEF PageIsTyped
    <2>3. local' >= Shortcuts!DateUTC(1000, 0, 1)
      <3>1. Shortcuts!DateUTC(1000, 0, 1) \in Int
        BY SMT DEF Shortcuts!DateUTC, Shortcuts!BeforeYear, Shortcuts!BeforeMonth
      <3> QED  BY <1>1, <2>1, <2>2, <3>1 DEF PageIsTyped
    <2>4. PageIsTyped'
      BY <1>1, <2>1, <2>2, <2>3 DEF PageIsTyped, Shortcuts!Loaded
    <2>5. CalendarsAreDrawn'
      BY <1>1, <2>1 DEF CalendarsAreDrawn, Shortcuts!Loaded, Shortcuts!IsDrawn
    <2> QED  BY <2>4, <2>5 DEF CalendarInv
  (* Nothing but values, boxes and listeners changes. *)
  <1>4. ASSUME UNCHANGED <<locale, local, server, turns, ticks, calendar, openedOn>>,
               dateValue' \in [Calendars -> Seq(Int)],
               dateBoxes' \subseteq listening', listening' \subseteq Shortcuts!Boxes,
               Shortcuts!Loaded \/ dateBoxes' = {}
        PROVE  CalendarInv'
    <2>1. PageIsTyped'
      BY <1>1, <1>4 DEF PageIsTyped, Shortcuts!Loaded
    <2>2. CalendarsAreDrawn'
      BY <1>1, <1>4 DEF CalendarsAreDrawn, Shortcuts!Loaded, Shortcuts!IsDrawn
    <2> QED  BY <2>1, <2>2 DEF CalendarInv
  <1>5. ASSUME Shortcuts!ClickElsewhere  PROVE CalendarInv'
    BY <1>1, <1>4, <1>5
       DEF Shortcuts!ClickElsewhere, Shortcuts!ReachDocument, Shortcuts!Dismiss, Shortcuts!zone,
           PageIsTyped
  <1>6. ASSUME Shortcuts!Escape  PROVE CalendarInv'
    BY <1>1, <1>4, <1>6
       DEF Shortcuts!Escape, Shortcuts!Dismiss, Shortcuts!zone, PageIsTyped
  <1>7. ASSUME NEW box \in Shortcuts!Boxes, Shortcuts!Cancel(box)  PROVE CalendarInv'
    BY <1>1, <1>4, <1>7
       DEF Shortcuts!Cancel, Shortcuts!Dismiss, Shortcuts!zone, PageIsTyped
  <1>8. ASSUME NEW c \in Clocks, Shortcuts!OpenClock(c)  PROVE CalendarInv'
    <2>1. <<"clock", c>> \in Shortcuts!Boxes
      BY DEF Shortcuts!Boxes
    <2> QED  BY <1>1, <1>4, <1>8, <2>1
                DEF Shortcuts!OpenClock, Shortcuts!Show, Shortcuts!zone, PageIsTyped
  <1>9. ASSUME NEW c \in Clocks, Shortcuts!ClickNow(c)  PROVE CalendarInv'
    BY <1>1, <1>4, <1>9
       DEF Shortcuts!ClickNow, Shortcuts!HandleClockQuicklink, Shortcuts!Dismiss,
           Shortcuts!zone, PageIsTyped
  <1>10. ASSUME NEW c \in Clocks, Shortcuts!ClickTime(c)  PROVE CalendarInv'
    BY <1>1, <1>4, <1>10
       DEF Shortcuts!ClickTime, Shortcuts!HandleClockQuicklink, Shortcuts!Dismiss,
           Shortcuts!zone, PageIsTyped
  <1>11. ASSUME NEW i \in Calendars, Shortcuts!OpenCalendar(i)  PROVE CalendarInv'
    <2> DEFINE date == Shortcuts!Strptime(dateValue[i], locale.format)
               drawn == Shortcuts!IsDrawn(dateValue[i])
               c == IF drawn THEN Shortcuts!DrawDate(i, date) ELSE calendar[i]
    <2>1. /\ Shortcuts!Loaded
          /\ calendar' = [calendar EXCEPT ![i] = c]
          /\ openedOn' = [openedOn EXCEPT ![i] = dateValue[i]]
          /\ dateBoxes' = dateBoxes \cup {<<"calendar", i>>}
          /\ listening' = listening \cup {<<"calendar", i>>}
          /\ UNCHANGED <<locale, local, server, turns, ticks, dateValue>>
      BY <1>11 DEF Shortcuts!OpenCalendar, Shortcuts!Show, Shortcuts!zone
    <2>2. <<"calendar", i>> \in Shortcuts!Boxes
      BY DEF Shortcuts!Boxes
    <2>3. calendar[i] \in CalendarType /\ locale.format \in Formats /\ locale.first \in 0..6
          /\ dateValue[i] \in Seq(Int)
      BY <1>1, <2>1 DEF PageIsTyped
    <2>4. drawn => /\ date \in Nat
                   /\ Shortcuts!GetFullYear(date) \in Int
                   /\ Shortcuts!GetFullYear(date) >= 1000
                   /\ Shortcuts!GetMonth(date) \in 1..12
      <3>1. drawn => date \in Int /\ Shortcuts!GetFullYear(date) >= 1000 /\ date \in Nat
        BY <2>3, ParsedIsANumber DEF Shortcuts!IsDrawn
      <3> QED  BY <3>1, Months
    <2>5. turns \in Nat
      BY <1>1 DEF PageIsTyped
    <2>6. /\ c \in CalendarType /\ IsGridOf(c.grid, locale.first, c.selected)
          /\ 12 * c.grid.year + c.grid.month >= 12001 - turns
          /\ drawn => c.selected = date
      <3>1. CASE drawn
        <4> DEFINE g == Shortcuts!DrawCurrent(Shortcuts!GetMonth(date),
                                             Shortcuts!GetFullYear(date), date)
        <4>1. /\ g \in GridType /\ IsGridOf(g, locale.first, date)
              /\ g.month = Shortcuts!GetMonth(date) /\ g.year = Shortcuts!GetFullYear(date)
          <5> HIDE DEF date, drawn
          <5> QED  BY <2>1, <2>4, <3>1, RedrawnIsSound DEF IsDrawing
        <4>2. c = [calendar[i] EXCEPT !.selected = date, !.grid = g]
          BY <3>1 DEF Shortcuts!DrawDate
        <4> HIDE DEF g, date, drawn, c
        <4>3. c \in CalendarType /\ c.selected = date /\ c.grid = g
          BY <2>3, <2>4, <3>1, <4>1, <4>2 DEF CalendarType
        <4>4. 12 * g.year + g.month >= 12001 - turns
          BY <2>4, <2>5, <3>1, <4>1, SMT
        <4> QED  BY <4>1, <4>3, <4>4
      <3>2. CASE ~drawn
        <4>1. c = calendar[i]
          BY <3>2
        <4> HIDE DEF c, drawn
        <4> QED  BY <1>1, <2>1, <2>3, <3>2, <4>1 DEF CalendarsAreDrawn
      <3> HIDE DEF c, drawn
      <3> QED  BY <3>1, <3>2
    <2> HIDE DEF c
    <2>7. PageIsTyped'
      <3>1. calendar' \in [Calendars -> CalendarType]
        BY <1>1, <2>1, <2>6 DEF PageIsTyped
      <3>2. openedOn' \in [Calendars -> Seq(Int)]
        BY <1>1, <2>1, <2>3 DEF PageIsTyped
      <3>3. dateBoxes' \subseteq listening' /\ listening' \subseteq Shortcuts!Boxes
        BY <1>1, <2>1, <2>2 DEF PageIsTyped
      <3> QED  BY <1>1, <2>1, <3>1, <3>2, <3>3 DEF PageIsTyped, Shortcuts!Loaded
    <2>8. CalendarsAreDrawn'
      <3> SUFFICES ASSUME NEW j \in Calendars
                   PROVE  /\ IsGridOf(calendar[j].grid, locale.first, calendar[j].selected)'
                          /\ (12 * calendar[j].grid.year + calendar[j].grid.month >= 12001 - turns)'
                          /\ (Shortcuts!IsDrawn(openedOn[j]) => calendar[j].selected
                                  = Shortcuts!Strptime(openedOn[j], locale.format))'
        BY DEF CalendarsAreDrawn
      <3>1. CASE j = i
        <4>1. calendar'[j] = c /\ openedOn'[j] = dateValue[i]
          BY <1>1, <2>1, <3>1 DEF PageIsTyped
        <4> QED  BY <2>1, <2>6, <4>1 DEF Shortcuts!IsDrawn
      <3>2. CASE j # i
        <4>1. calendar'[j] = calendar[j] /\ openedOn'[j] = openedOn[j]
          BY <1>1, <2>1, <3>2 DEF PageIsTyped
        <4> QED  BY <1>1, <2>1, <4>1 DEF CalendarsAreDrawn, Shortcuts!IsDrawn
      <3> QED  BY <3>1, <3>2
    <2> QED  BY <2>7, <2>8 DEF CalendarInv
  <1>12. ASSUME NEW i \in Calendars, NEW month \in 1..12, NEW year \in Int,
                Shortcuts!Turn(i, month, year),
                12 * year + month >= 12 * calendar[i].grid.year + calendar[i].grid.month - 1
         PROVE  CalendarInv'
    <2> DEFINE g == Shortcuts!DrawCurrent(month, year, calendar[i].selected)
    <2>1. /\ turns' = turns + 1 /\ turns < MaxTurns
          /\ calendar' = [calendar EXCEPT ![i].grid = g]
          /\ UNCHANGED <<locale, local, server, ticks, dateValue, dateBoxes, listening, openedOn>>
          /\ Shortcuts!Loaded
      BY <1>1, <1>12 DEF Shortcuts!Turn, PageIsTyped
    <2>2. calendar[i] \in CalendarType
      BY <1>1 DEF PageIsTyped
    <2>3. /\ g \in GridType /\ IsGridOf(g, locale.first, calendar[i].selected)
          /\ g.month = month /\ g.year = year
      <3>1. calendar[i].selected \in Nat \cup {Shortcuts!NaN}
        BY <2>2 DEF CalendarType
      <3>2. IsDrawing(g, month, year, locale.first, calendar[i].selected)
        BY <2>1, <3>1, RedrawnIsSound
      <3> QED  BY <3>2 DEF IsDrawing
    <2> HIDE DEF g
    <2>4. turns \in Nat /\ turns' \in 0..MaxTurns
      <3>1. turns \in 0..MaxTurns /\ MaxTurns \in Nat /\ turns' = turns + 1 /\ turns < MaxTurns
        BY <1>1, <2>1, DatesAreTyped DEF PageIsTyped
      <3> QED  BY <3>1
    <2>5. calendar' \in [Calendars -> CalendarType]
      BY <1>1, <2>1, <2>2, <2>3 DEF PageIsTyped, CalendarType
    <2>6. PageIsTyped'
      BY <1>1, <2>1, <2>4, <2>5 DEF PageIsTyped, Shortcuts!Loaded
    <2>7. CalendarsAreDrawn'
      <3> SUFFICES ASSUME NEW j \in Calendars
                   PROVE  /\ IsGridOf(calendar[j].grid, locale.first, calendar[j].selected)'
                          /\ (12 * calendar[j].grid.year + calendar[j].grid.month >= 12001 - turns)'
                          /\ (Shortcuts!IsDrawn(openedOn[j]) => calendar[j].selected
                                  = Shortcuts!Strptime(openedOn[j], locale.format))'
        BY DEF CalendarsAreDrawn
      <3>1. /\ 12 * calendar[j].grid.year + calendar[j].grid.month >= 12001 - turns
            /\ IsGridOf(calendar[j].grid, locale.first, calendar[j].selected)
            /\ Shortcuts!IsDrawn(openedOn[j]) =>
                   calendar[j].selected = Shortcuts!Strptime(openedOn[j], locale.format)
            /\ calendar[j].grid.year \in Int /\ calendar[j].grid.month \in Int
        <4>1. calendar[j] \in CalendarType
          BY <1>1 DEF PageIsTyped
        <4>2. calendar[j].grid.year \in Int /\ calendar[j].grid.month \in Int
          BY <4>1 DEF CalendarType, GridType
        <4> QED  BY <1>1, <2>1, <4>2 DEF CalendarsAreDrawn
      <3>2. CASE j = i
        <4>1. calendar'[j].grid = g /\ calendar'[j].selected = calendar[j].selected
          BY <1>1, <2>1, <2>2, <3>2 DEF PageIsTyped, CalendarType
        <4>2. 12 * year + month >= 12001 - (turns + 1)
          BY <1>12, <2>4, <3>1, <3>2, SMT
        <4> QED  BY <2>1, <2>3, <3>1, <3>2, <4>1, <4>2 DEF Shortcuts!IsDrawn
      <3>3. CASE j # i
        <4>1. calendar'[j] = calendar[j]
          BY <1>1, <2>1, <3>3 DEF PageIsTyped
        <4>2. 12 * calendar[j].grid.year + calendar[j].grid.month >= 12001 - (turns + 1)
          BY <2>4, <3>1, SMT
        <4>3. Shortcuts!IsDrawn(openedOn[j])' <=> Shortcuts!IsDrawn(openedOn[j])
          BY <2>1 DEF Shortcuts!IsDrawn
        <4>4. /\ locale' = locale /\ turns' = turns + 1 /\ openedOn' = openedOn
          BY <2>1
        <4>5. (12 * calendar[j].grid.year + calendar[j].grid.month >= 12001 - turns)'
          BY <4>1, <4>2, <4>4
        <4> QED  BY <3>1, <4>1, <4>3, <4>4, <4>5
      <3> QED  BY <3>2, <3>3
    <2> QED  BY <2>6, <2>7 DEF CalendarInv
  <1>13. ASSUME NEW i \in Calendars,
                Shortcuts!DrawPreviousMonth(i) \/ Shortcuts!DrawNextMonth(i)
         PROVE  CalendarInv'
    <2> DEFINE g == calendar[i].grid
    <2>1. PICK month, year :
             /\ Shortcuts!Turn(i, month, year)
             /\ \/ g.month = 1 /\ month = 12 /\ year = g.year - 1
                \/ g.month # 1 /\ month = g.month - 1 /\ year = g.year
                \/ g.month = 12 /\ month = 1 /\ year = g.year + 1
                \/ g.month # 12 /\ month = g.month + 1 /\ year = g.year
      <3>1. CASE Shortcuts!DrawPreviousMonth(i)
        BY <3>1 DEF Shortcuts!DrawPreviousMonth
      <3>2. CASE Shortcuts!DrawNextMonth(i)
        BY <3>2 DEF Shortcuts!DrawNextMonth
      <3> QED  BY <1>13, <3>1, <3>2
    <2>2. Shortcuts!Loaded
      BY <1>1, <2>1 DEF Shortcuts!Turn, PageIsTyped
    <2>3. g.month \in 1..12 /\ g.year \in Int
      BY <1>1, <2>2 DEF PageIsTyped, CalendarsAreDrawn, IsGridOf, CalendarType, GridType
    <2> HIDE DEF g
    <2>4. month \in 1..12 /\ year \in Int /\ 12 * year + month >= 12 * g.year + g.month - 1
      BY <2>1, <2>3, SMT
    <2> QED  BY <1>12, <2>1, <2>4 DEF g
  <1>14. ASSUME NEW i \in Calendars, NEW text \in Typed, Shortcuts!Type(i, text)
         PROVE  CalendarInv'
    <2>1. text \in Seq(Int)
      <3>1. Nat \cup {Shortcuts!NaN} \subseteq Int
        BY DEF Shortcuts!NaN
      <3> QED  BY <3>1, DatesAreTyped
    <2> QED  BY <1>1, <1>4, <1>14, <2>1 DEF Shortcuts!Type, Shortcuts!zone, PageIsTyped
  <1>15. ASSUME NEW i \in Calendars, NEW day \in Clicked, Shortcuts!ClickDay(i, day)
         PROVE  CalendarInv'
    <2> DEFINE date == Shortcuts!DateUTC(calendar[i].grid.year, calendar[i].grid.month - 1, day)
               text == Shortcuts!Strftime(date, locale.format)
    <2>1. /\ <<"calendar", i>> \in dateBoxes /\ day \in 1..calendar[i].grid.days
          /\ dateValue' = [dateValue EXCEPT ![i] = text]
          /\ dateBoxes' = dateBoxes \ {<<"calendar", i>>} /\ listening' = listening
          /\ UNCHANGED <<locale, local, server, turns, ticks, calendar, openedOn>>
      BY <1>15 DEF Shortcuts!ClickDay, Shortcuts!HideBox, Shortcuts!zone
    <2>2. Shortcuts!Loaded
      BY <1>1, <2>1 DEF PageIsTyped
    <2>3. text \in Seq(Int)
      <3>1. calendar[i].grid.year \in Int /\ calendar[i].grid.month \in Int /\ day \in Int
        <4>1. calendar[i] \in CalendarType /\ day \in Int
          BY <1>1, <2>1 DEF PageIsTyped
        <4> QED  BY <4>1 DEF CalendarType, GridType
      <3>2. date \in Int
        <4>1. calendar[i].grid.month - 1 \in Int
          BY <3>1
        <4> QED  BY <3>1, <4>1, DatesAreNumbers
      <3> QED  BY <1>1, <2>2, <3>2, WrittenIsAText
    <2> HIDE DEF text
    <2> QED  BY <1>1, <1>4, <2>1, <2>2, <2>3 DEF PageIsTyped
  <1>16. ASSUME NEW i \in Calendars, NEW offset \in -1..1, NEW reached \in SUBSET listening,
                Shortcuts!HandleCalendarQuickLink(i, offset, reached), Shortcuts!Loaded
         PROVE  CalendarInv'
    <2> DEFINE text == Shortcuts!Strftime(server + offset, locale.format)
    <2>1. /\ dateValue' = [dateValue EXCEPT ![i] = text]
          /\ dateBoxes' = dateBoxes \ ({<<"calendar", i>>} \cup reached)
          /\ listening' = listening \ ({<<"calendar", i>>} \cup reached)
          /\ UNCHANGED <<locale, local, server, turns, ticks, calendar, openedOn>>
      BY <1>16 DEF Shortcuts!HandleCalendarQuickLink, Shortcuts!Dismiss, Shortcuts!Now,
         Shortcuts!zone
    <2>2. text \in Seq(Int)
      <3>1. server + offset \in Int
        BY <1>1 DEF PageIsTyped
      <3> QED  BY <1>1, <1>16, <3>1, WrittenIsAText
    <2> HIDE DEF text
    <2> QED  BY <1>1, <1>4, <1>16, <2>1, <2>2 DEF PageIsTyped
  <1>17. ASSUME NEW i \in Calendars, Shortcuts!ClickToday(i)  PROVE CalendarInv'
    BY <1>16, <1>17 DEF Shortcuts!ClickToday
  <1>18. ASSUME NEW i \in Calendars, NEW offset \in -1..1, Shortcuts!ClickShortcut(i, offset)
         PROVE  CalendarInv'
    BY <1>1, <1>16, <1>18 DEF Shortcuts!ClickShortcut, PageIsTyped
  <1>19. ASSUME UNCHANGED Shortcuts!vars  PROVE CalendarInv'
    BY <1>1, <1>4, <1>19 DEF Shortcuts!vars, PageIsTyped
  <1> QED
    BY <1>2, <1>3, <1>5, <1>6, <1>7, <1>8, <1>9, <1>10, <1>11, <1>13, <1>14, <1>15, <1>17,
       <1>18, <1>19 DEF Shortcuts!Next

LEMMA TypedCalendars == CalendarInv => Shortcuts!TypeOK
  <1> SUFFICES ASSUME CalendarInv  PROVE Shortcuts!TypeOK
    OBVIOUS
  <1>1. \A i \in Calendars : /\ calendar[i].selected \in Nat \cup {Shortcuts!NaN}
                             /\ DOMAIN calendar[i].grid = DOMAIN Shortcuts!NoGrid
    BY DEF CalendarInv, PageIsTyped, CalendarType, GridType, Shortcuts!NoGrid
  <1>2. {dateValue, openedOn} \subseteq [Calendars -> Seq(Int)]
    BY DEF CalendarInv, PageIsTyped
  <1> QED  BY <1>1, <1>2 DEF CalendarInv, PageIsTyped, Shortcuts!TypeOK

(* So the days of each month are under their days of the week, and the day *)
(* that is marked is that of the value the calendar was opened on.         *)
LEMMA MarkedRight == CalendarInv => OpenBoxIsRight
  <1> SUFFICES ASSUME CalendarInv  PROVE OpenBoxIsRight
    OBVIOUS
  <1>1. dateBoxes \subseteq listening
    BY DEF CalendarInv, PageIsTyped
  <1>2. ASSUME NEW i \in Calendars, Shortcuts!Loaded
        PROVE  Shortcuts!DrawnRight(i)
    <2> DEFINE g == calendar[i].grid
               start == Shortcuts!DateUTC(g.year, g.month - 1, 1)
               before == Shortcuts!GetDay(Shortcuts!DateUTC(g.year, g.month - 1, 1 - locale.first))
    <2>1. /\ g.month \in 1..12 /\ g.start = before
          /\ g.days = Shortcuts!GetDaysInMonth(g.month, g.year)
          /\ g.year \in Int /\ 12 * g.year + g.month >= 12001 - turns /\ turns \in 0..MaxTurns
          /\ g.days \in 0..31
      BY <1>2 DEF CalendarInv, PageIsTyped, CalendarsAreDrawn, IsGridOf, CalendarType, GridType
    <2>2. g.year >= 100
      <3> HIDE DEF g
      <3> QED  BY <2>1, DatesAreTyped, SMT
    <2>3. locale.first \in 0..6
      BY LoadedIsALocale DEF CalendarInv
    <2>4. /\ Shortcuts!GetDaysInMonth(g.month, g.year) = Shortcuts!DateUTC(g.year, g.month, 1) - start
          /\ \A d \in 1..31 :
                Shortcuts!GetDay(start + d - 1) = (((before + d - 1) % 7) + locale.first) % 7
      <3> HIDE DEF g
      <3> QED  BY <2>1, <2>2, <2>3, MonthIsRight
    <2>5. \A d \in 1..g.days : d \in 1..31
      <3> HIDE DEF g
      <3> QED  BY <2>1, SMT
    <2>6. \A d \in 1..g.days : Shortcuts!GetDay(start + d - 1) = Shortcuts!Header(g, locale.first, d)
      <3> HIDE DEF g, start, before
      <3> QED  BY <2>1, <2>4, <2>5 DEF Shortcuts!Header
    <2>7. g.days = Shortcuts!DateUTC(g.year, g.month, 1) - start
      <3> HIDE DEF g, start
      <3> QED  BY <2>1, <2>4
    <2> QED  BY <2>6, <2>7, Zenon DEF Shortcuts!DrawnRight
  <1>3. ASSUME NEW i \in Calendars, <<"calendar", i>> \in dateBoxes, Shortcuts!IsDrawn(openedOn[i])
        PROVE  LET date == Shortcuts!Strptime(openedOn[i], locale.format)
                   g == calendar[i].grid
               IN  g.selected = IF /\ g.year = Shortcuts!GetFullYear(date)
                                   /\ g.month = Shortcuts!GetMonth(date)
                                THEN Shortcuts!GetDate(date) ELSE 0
    <2>1. Shortcuts!Loaded
      BY <1>3 DEF CalendarInv, PageIsTyped
    <2>2. /\ calendar[i].selected = Shortcuts!Strptime(openedOn[i], locale.format)
          /\ IsGridOf(calendar[i].grid, locale.first, calendar[i].selected)
      BY <1>3, <2>1 DEF CalendarInv, CalendarsAreDrawn
    <2>3. calendar[i].selected # Shortcuts!NaN
      BY <1>3, <2>2 DEF Shortcuts!IsDrawn
    <2> QED  BY <2>2, <2>3 DEF IsGridOf
  <1> QED  BY <1>1, <1>2, <1>3 DEF OpenBoxIsRight, Shortcuts!OpenBoxIsRight

(* OpenBoxIsRight: for any dates, locales and texts typed, and however the *)
(* months are turned over back to the year 100, the calendar shows what it *)
(* is a calendar of, and every box closes by a click elsewhere.            *)
THEOREM CalendarsAreRight == Shortcuts!Spec => []OpenBoxIsRight
  BY CalendarInit, CalendarStep, MarkedRight, PTL DEF Shortcuts!Spec

(* What is clicked is a date that can be read back, ...                    *)
LEMMA ClickedIsLate ==
    ASSUME NEW year \in Int, year >= 100, NEW month \in 1..12, NEW day \in 1..31
    PROVE  /\ Shortcuts!DateUTC(year, month - 1, day) \in Int
           /\ Shortcuts!GetFullYear(Shortcuts!DateUTC(year, month - 1, day)) >= 100
  <1> DEFINE date == Shortcuts!DateUTC(year, month - 1, day)
             first == Shortcuts!DateUTC(year, 0, 1)
  <1>1. (month - 1) \div 12 = 0 /\ (month - 1) % 12 = month - 1 /\ year \notin 0..99
    BY SMT
  <1>2. date \in Int /\ first \in Int
    BY SMT DEF Shortcuts!DateUTC, Shortcuts!BeforeYear, Shortcuts!BeforeMonth
  <1>3. date >= first
    BY <1>1, SMTT(60) DEF Shortcuts!DateUTC, Shortcuts!BeforeYear, Shortcuts!BeforeMonth
  <1> HIDE DEF date
  <1>4. Shortcuts!GetFullYear(date) >= year
    BY <1>2, <1>3, LateYears
  <1>5. Shortcuts!GetFullYear(date) \in Int
    BY <1>2, Months
  <1>6. Shortcuts!GetFullYear(date) >= 100
    BY <1>4, <1>5, SMT
  <1> QED  BY <1>2, <1>6 DEF date

(* ... in the format it was written in.                                    *)
LEMMA WrittenIsRead ==
    ASSUME CalendarInv, Shortcuts!Loaded, NEW i \in Calendars, NEW date \in Int,
           Shortcuts!GetFullYear(date) >= 100,
           dateValue' = [dateValue EXCEPT ![i] = Shortcuts!Strftime(date, locale.format)],
           Shortcuts!CanSay(date)
    PROVE  Shortcuts!Strptime(dateValue'[i], locale.format) = date
  <1>1. locale.format \in Formats
    BY LoadedIsALocale DEF CalendarInv
  <1>2. dateValue'[i] = Shortcuts!Strftime(date, locale.format)
    BY DEF CalendarInv, PageIsTyped
  <1>3. (\E k \in DOMAIN locale.format : locale.format[k] = "y")
           => Shortcuts!GetFullYear(date) \in 1969..2068
    BY DEF Shortcuts!CanSay
  <1> QED  BY <1>1, <1>2, <1>3, ReadsBack

LEMMA ServerIsLate ==
    ASSUME CalendarInv, Shortcuts!Loaded, NEW offset \in -1..1
    PROVE  server + offset \in Int /\ Shortcuts!GetFullYear(server + offset) >= 100
  <1> DEFINE a == Shortcuts!DateUTC(1000, 0, 1)
             b == Shortcuts!DateUTC(999, 0, 1)
  <1>1. a \in Int /\ b \in Int /\ a >= b + 2
    BY SMT DEF Shortcuts!DateUTC, Shortcuts!BeforeYear, Shortcuts!BeforeMonth
  <1>2. local \in Int /\ local >= a /\ server \in Int /\ server - local \in -1..1
    BY DEF CalendarInv, PageIsTyped
  <1> HIDE DEF a, b
  <1>3. server + offset \in Int /\ server + offset >= b
    BY <1>1, <1>2, SMT
  <1>4. Shortcuts!GetFullYear(server + offset) >= 999 /\ Shortcuts!GetFullYear(server + offset) \in Int
    BY <1>3, LateYears, Months DEF b
  <1> QED  BY <1>3, <1>4, SMT

(* ReadsWhatItWrote: for any locale with a day, a month and a year in its  *)
(* format, and any zones, the date written by a click is the one read.     *)
THEOREM WhatIsClickedIsRead == Shortcuts!Spec => ReadsWhatItWrote
  <1> DEFINE g(i) == calendar[i].grid
  <1>1. ASSUME CalendarInv, NEW i \in Calendars, NEW day \in Clicked, Shortcuts!ClickDay(i, day),
               Shortcuts!CanSay(Shortcuts!DateUTC(g(i).year, g(i).month - 1, day))
        PROVE  Shortcuts!Strptime(dateValue'[i], locale.format)
                   = Shortcuts!DateUTC(g(i).year, g(i).month - 1, day)
    <2>1. /\ <<"calendar", i>> \in dateBoxes /\ day \in 1..g(i).days
          /\ dateValue' = [dateValue EXCEPT ![i] =
                 Shortcuts!Strftime(Shortcuts!DateUTC(g(i).year, g(i).month - 1, day), locale.format)]
      BY <1>1 DEF Shortcuts!ClickDay
    <2>2. Shortcuts!Loaded
      BY <1>1, <2>1 DEF CalendarInv, PageIsTyped
    <2>3. /\ g(i).month \in 1..12 /\ g(i).year \in Int /\ g(i).days \in 0..31
          /\ 12 * g(i).year + g(i).month >= 12001 - turns /\ turns \in 0..MaxTurns
      BY <1>1, <2>2 DEF CalendarInv, PageIsTyped, CalendarsAreDrawn, IsGridOf, CalendarType,
         GridType
    <2> HIDE DEF g
    <2>4. g(i).year >= 100
      BY <2>3, DatesAreTyped, SMT
    <2>5. day \in 1..31
      BY <2>1, <2>3, SMT
    <2>6. /\ Shortcuts!DateUTC(g(i).year, g(i).month - 1, day) \in Int
          /\ Shortcuts!GetFullYear(Shortcuts!DateUTC(g(i).year, g(i).month - 1, day)) >= 100
      <3>1. g(i).month \in 1..12 /\ g(i).year \in Int
        BY <2>3
      <3> QED  BY <2>4, <2>5, <3>1, ClickedIsLate
    <2> QED  BY <1>1, <2>1, <2>2, <2>6, WrittenIsRead
  <1>2. ASSUME CalendarInv, NEW i \in Calendars, NEW offset \in -1..1, NEW reached,
               Shortcuts!HandleCalendarQuickLink(i, offset, reached), Shortcuts!Loaded,
               Shortcuts!CanSay(server + offset)
        PROVE  Shortcuts!Strptime(dateValue'[i], locale.format) = server + offset
    <2>1. dateValue' = [dateValue EXCEPT ![i] = Shortcuts!Strftime(server + offset, locale.format)]
      BY <1>2 DEF Shortcuts!HandleCalendarQuickLink, Shortcuts!Now
    <2> QED  BY <1>2, <2>1, ServerIsLate, WrittenIsRead
  <1> DEFINE Written(i, date) ==
                Shortcuts!CanSay(date) => Shortcuts!Strptime(dateValue'[i], locale.format) = date
             Read ==
                \A i \in Calendars :
                    /\ \A day \in Clicked :
                          Shortcuts!ClickDay(i, day) =>
                              Written(i, Shortcuts!DateUTC(g(i).year, g(i).month - 1, day))
                    /\ Shortcuts!ClickToday(i) => Written(i, server)
                    /\ \A offset \in -1..1 :
                          Shortcuts!ClickShortcut(i, offset) => Written(i, server + offset)
  <1>3. CalendarInv => Read
    <2> SUFFICES ASSUME CalendarInv, NEW i \in Calendars
                 PROVE  /\ \A day \in Clicked :
                              Shortcuts!ClickDay(i, day) =>
                                  Written(i, Shortcuts!DateUTC(g(i).year, g(i).month - 1, day))
                        /\ Shortcuts!ClickToday(i) => Written(i, server)
                        /\ \A offset \in -1..1 :
                              Shortcuts!ClickShortcut(i, offset) => Written(i, server + offset)
      OBVIOUS
    <2>1. \A day \in Clicked :
             Shortcuts!ClickDay(i, day) =>
                 Written(i, Shortcuts!DateUTC(g(i).year, g(i).month - 1, day))
      BY <1>1
    <2>2. ASSUME Shortcuts!ClickToday(i)  PROVE Written(i, server)
      <3>1. Shortcuts!Loaded /\ Shortcuts!HandleCalendarQuickLink(i, 0, listening)
        BY <2>2 DEF Shortcuts!ClickToday
      <3>2. server + 0 = server /\ 0 \in -1..1
        BY DEF CalendarInv, PageIsTyped
      <3>3. Written(i, server + 0)
        BY <1>2, <3>1, <3>2
      <3> QED  BY <3>2, <3>3
    <2>3. ASSUME NEW offset \in -1..1, Shortcuts!ClickShortcut(i, offset)
          PROVE  Written(i, server + offset)
      <3>1. /\ <<"calendar", i>> \in dateBoxes
            /\ Shortcuts!HandleCalendarQuickLink(i, offset, {})
        BY <2>3 DEF Shortcuts!ClickShortcut
      <3>2. Shortcuts!Loaded
        BY <3>1 DEF CalendarInv, PageIsTyped
      <3> QED  BY <1>2, <3>1, <3>2
    <2> QED  BY <2>1, <2>2, <2>3
  <1> HIDE DEF Read
  <1>4. Shortcuts!Spec => [][Read]_(Shortcuts!vars)
    BY CalendarInit, CalendarStep, <1>3, PTL DEF Shortcuts!Spec
  <1> QED  BY <1>4 DEF Read, ReadsWhatItWrote, Shortcuts!ReadsWhatItWrote

-----------------------------------------------------------------------------
(* The types of all, for any values of the constants. Most are in the      *)
(* invariants above; here is what no other property needed.                *)

(* The two lists: a filter is one of the texts, and only options appear.   *)
ChooserTypes ==
    /\ searches \in [Groups!Lists -> FilterTexts] /\ enabled \subseteq Groups!Buttons
    /\ known \subseteq Options /\ submitted \subseteq Options /\ warning \in Nat

LEMMA ChooserCounts ==
    ASSUME NEW some \in SUBSET Options PROVE Groups!Cardinality(some) \in Nat
  <1>1. IsFiniteSet(some)
    BY OptionsAreFinite, FS_Subset
  <1>2. Groups!Cardinality(some) = Cardinality(some)
    BY DEF Groups!Cardinality, Cardinality
  <1> QED  BY <1>1, <1>2, FS_CardinalityType

LEMMA ChooserTypesStep ==
    ASSUME ChooserInv, ChooserInv', ChooserTypes, [Groups!Next]_(Groups!vars)
    PROVE  ChooserTypes'
  <1> DEFINE Fit ==
                 /\ searches' \in [Groups!Lists -> FilterTexts] /\ enabled' \subseteq Groups!Buttons
                 /\ known' \subseteq Options /\ submitted' \subseteq Options
             Counted == warning' \in {warning, Groups!Cardinality(hidden'["to"])}
  <1>1. \A shown, chosen : Groups!RefreshIcons(shown, chosen) => enabled' \subseteq Groups!Buttons
    BY DEF Groups!RefreshIcons
  <1>2. ASSUME UNCHANGED <<searches, known, submitted>>,
               enabled' = enabled \/ \E shown, chosen : Groups!RefreshIcons(shown, chosen)
        PROVE  Fit
    BY <1>1, <1>2 DEF ChooserTypes
  <1>3. Fit /\ Counted
    <2>1. CASE Groups!Load
      BY <1>2, <2>1 DEF Groups!Load
    <2>2. CASE Groups!ClearFilter
      <3>1. searches' = [searches EXCEPT !["to"] = Everything]
            /\ UNCHANGED <<known, submitted>> /\ Counted
            /\ \E shown, chosen : Groups!RefreshIcons(shown, chosen)
        BY <2>2 DEF Groups!ClearFilter, Groups!FormUnchanged, Groups!RefreshFilteredWarning
      <3>2. searches' \in [Groups!Lists -> FilterTexts]
        BY <3>1, OptionsAreFinite DEF ChooserTypes
      <3> QED  BY <1>1, <3>1, <3>2 DEF ChooserTypes
    <2>3. CASE Groups!Submit
      <3>1. submitted' = cache["to"] \ {} /\ UNCHANGED <<searches, enabled, known, warning>>
        BY <2>3 DEF Groups!Submit, Groups!SubmitWith, ChooserInv, ListsAreSound, Groups!Lists
      <3>2. cache["to"] \subseteq Options
        BY DEF ChooserInv, ChooserTypes
      <3> QED  BY <3>1, <3>2 DEF ChooserTypes
    <2>4. ASSUME NEW side \in Groups!Lists, NEW moving, NEW button,
                 Groups!MoveSelection(button, side, moving)
          PROVE  Fit /\ Counted
      BY <1>2, <2>4 DEF Groups!MoveSelection, Groups!FormUnchanged, Groups!RefreshFilteredWarning
    <2>5. ASSUME NEW side \in Groups!Lists, Groups!FilterKeyUp(side) PROVE Fit /\ Counted
      BY <1>2, <2>5 DEF Groups!FilterKeyUp, Groups!FormUnchanged, Groups!RefreshFilteredWarning
    <2>6. ASSUME NEW side \in Groups!Lists, Groups!FilterKeyPress(side) PROVE Fit /\ Counted
      BY <1>2, <2>6 DEF Groups!FilterKeyPress, Groups!FormUnchanged
    <2>7. ASSUME NEW side \in Groups!Lists, Groups!ArrowAcross(side) PROVE Fit /\ Counted
      BY <1>2, <2>7 DEF Groups!ArrowAcross, Groups!FormUnchanged, Groups!RefreshFilteredWarning
    <2>8. ASSUME NEW side \in Groups!Lists, Groups!ArrowAlong(side) PROVE Fit /\ Counted
      BY <1>2, <2>8 DEF Groups!ArrowAlong, Groups!FormUnchanged
    <2>9. ASSUME NEW side \in Groups!Lists, NEW options, Groups!Select(side, options)
          PROVE  Fit /\ Counted
      BY <1>2, <2>9 DEF Groups!Select, Groups!FormUnchanged
    <2>10. ASSUME NEW side \in Groups!Lists, NEW text \in FilterTexts, Groups!Type(side, text)
           PROVE  Fit /\ Counted
      BY <2>10 DEF Groups!Type, Groups!FormUnchanged, ChooserTypes
    <2>11. ASSUME NEW side \in Groups!Lists, NEW option, Groups!DoubleClick(side, option)
           PROVE  Fit /\ Counted
      BY <1>2, <2>11 DEF Groups!DoubleClick, Groups!FormUnchanged
    <2>12. ASSUME NEW option \in Options, Groups!AddRelated(option) PROVE Fit /\ Counted
      BY <2>12 DEF Groups!AddRelated, ChooserTypes
    <2>13. CASE UNCHANGED Groups!vars
      BY <1>2, <2>13 DEF Groups!vars
    <2> HIDE DEF Fit, Counted
    <2> QED
      BY <2>1, <2>2, <2>3, <2>4, <2>5, <2>6, <2>7, <2>8, <2>9, <2>10, <2>11, <2>12, <2>13
         DEF Groups!Next, Groups!Choose, Groups!ChooseAll
  <1>4. hidden'["to"] \subseteq Options
    BY <1>3 DEF ChooserInv, ListsAreSound, Groups!Lists
  <1>5. warning' \in Nat
    BY <1>3, <1>4, ChooserCounts DEF ChooserTypes
  <1> QED  BY <1>3, <1>5 DEF ChooserTypes

LEMMA ChooserTyped == Groups!Spec => []Groups!TypeOK
  <1>1. Groups!Init => ChooserTypes
    BY OptionsAreFinite DEF Groups!Init, ChooserTypes, Groups!Lists
  <1>2. ChooserInv /\ ChooserTypes => Groups!TypeOK
    <2> SUFFICES ASSUME ChooserInv, ChooserTypes PROVE Groups!TypeOK
      OBVIOUS
    <2>1. \A side \in Groups!Lists : cache[side] \subseteq Options
      BY DEF ChooserInv, ChooserTypes, Groups!Lists
    <2>2. cache \in [Groups!Lists -> SUBSET Options]
      BY <2>1 DEF ChooserInv, ListsAreSound
    <2> QED  BY <2>2 DEF ChooserInv, ListsAreSound, ChooserTypes, Groups!TypeOK
  <1> QED
    BY <1>1, <1>2, ChooserInit, ChooserStep, ChooserTypesStep, PTL DEF Groups!Spec

(* Forms inside a form: the layout is one the server has.                  *)
LEMMA FormsetTyped == Formsets!Spec => []Formsets!TypeOK
  <1> DEFINE Known == layout \in Layouts \cup {Formsets!NoPage}
  <1>1. Formsets!Init => Known
    BY DEF Formsets!Init
  <1>2. Known /\ [Formsets!Next]_(Formsets!vars) => Known'
    BY DEF Formsets!Next, Formsets!vars, Formsets!Load, Formsets!Formset, Formsets!FormsetWith,
       Formsets!AddInline, Formsets!Submit, Formsets!DeleteInline
  <1>3. FormsetInv /\ Known => Formsets!TypeOK
    BY DEF FormsetInv, Forms, Formsets!TypeOK
  <1> HIDE DEF Known
  <1>4. FormsetInv /\ [Formsets!Next]_(Formsets!vars) => FormsetInv'
    BY FormsetStep
  <1> QED  BY <1>1, <1>2, <1>3, <1>4, FormsetInit, PTL DEF Formsets!Spec

(* The windows: an object was created, and a list names windows.           *)
LEMMA WindowsTyped == Windows!Spec => []Windows!TypeOK
  <1>1. OpenersInv => Windows!TypeOK
    BY DEF OpenersInv, LinksInv, ListsTheNext, SoundFields, FieldType, WindowType, Windows!TypeOK
  <1>2. OpenersInv /\ [Windows!Next]_(Windows!vars) => OpenersInv'
    BY OpenersStep
  <1> QED  BY <1>1, <1>2, OpenersInit, PTL DEF Windows!Spec

(* What pages remember.                                                    *)
LEMMA MemoryTyped == Memory!Spec => []Memory!TypeOK
  <1> DEFINE Counted == acts \in 0..MaxActs
  <1>1. Memory!Init => Counted
    BY ClicksAreCounted DEF Memory!Init
  <1>2. Counted /\ [Memory!Next]_(Memory!vars) => Counted'
    <2> SUFFICES ASSUME Counted, [Memory!Next]_(Memory!vars) PROVE Counted'
      OBVIOUS
    <2>1. Memory!Act \/ acts' = acts
      BY DEF Memory!Next, Memory!vars, Memory!Load, Memory!OpenTab, Memory!Back,
         Memory!CycleTheme, Memory!ToggleNavSidebar, Memory!Type, Memory!Escape,
         Memory!ToggleFilter, Memory!ClickForm
    <2> QED  BY <2>1, ClicksAreCounted DEF Memory!Act
  <1>3. MemoryInv /\ Counted => Memory!TypeOK
    <2> SUFFICES ASSUME MemoryInv, Counted PROVE Memory!TypeOK
      OBVIOUS
    <2>1. \A tab \in Tabs : page[tab] \in PageType /\ page[tab].view \in Indexes \cup {"api", "closed"}
      BY KindsOfPages DEF MemoryInv
    <2>2. ASSUME NEW tab \in Memory!Admin
          PROVE  /\ page[tab].theme \in Memory!Modes
                 /\ page[tab].filters \in [Memory!Filters -> Memory!States]
                 /\ page[tab].open \subseteq FiltersOf(page[tab].view)
      <3>1. page[tab] \in AdminPages /\ page[tab] \in AdminType
        BY <2>1, KindsOfPages DEF Memory!Admin
      <3> QED  BY <3>1 DEF AdminPages, AdminType, Memory!InitFilters
    <2>3. session \in [Tabs -> [filter : Lowered, filters : [Memory!Filters -> Memory!States]]]
      BY DEF MemoryInv, Storages
    <2> QED  BY <2>1, <2>2, <2>3 DEF MemoryInv, KeptType, Lowered, Memory!TypeOK
  <1> HIDE DEF Counted
  <1>4. MemoryInv /\ [Memory!Next]_(Memory!vars) => MemoryInv'
    BY MemoryStep
  <1> QED  BY <1>1, <1>2, <1>3, <1>4, MemoryInit, PTL DEF Memory!Spec

(* The API's pages: a token is of a login that was, and the secret grows.  *)
Bounded(rs) ==
    \A i \in DOMAIN rs : /\ rs[i].token \in 0..MaxLogins \cup {-1}
                         /\ rs[i].given \in 0..secret
ApiBounds ==
    /\ secret \in 0..MaxLogins /\ csrftoken \in 0..secret
    /\ Bounded(requests)
    /\ clicks \in 0..MaxClicks /\ losses \in 0..MaxLosses

LEMMA AbandonedAreBounded ==
    ASSUME NEW rs \in Seq(Requests), NEW which, Bounded(rs)
    PROVE  Bounded(Api!Abandoned(rs, which)) /\ Api!Abandoned(rs, which) \in Seq(Requests)
  <1> DEFINE left(i) == IF i \in which THEN [rs[i] EXCEPT !.awaited = FALSE] ELSE rs[i]
  <1>1. Api!Abandoned(rs, which) = [i \in DOMAIN rs |-> left(i)]
    BY DEF Api!Abandoned
  <1>2. ASSUME NEW i \in DOMAIN rs PROVE left(i).token = rs[i].token /\ left(i).given = rs[i].given
    <2>1. rs[i] \in RequestType
      BY DEF Requests
    <2> QED  BY <2>1 DEF RequestType
  <1> HIDE DEF left
  <1> QED  BY <1>1, <1>2, AbandonedAreFewer DEF Bounded, Fewer

LEMMA FinishedAreBounded ==
    ASSUME NEW rs \in Seq(Requests), NEW i \in DOMAIN rs, Bounded(rs)
    PROVE  Bounded(Api!Finished(rs, i)) /\ Api!Finished(rs, i) \in Seq(Requests)
  <1> DEFINE done == [rs[i] EXCEPT !.awaited = FALSE,
                                   !.state = IF rs[i].state = "served" THEN "over" ELSE rs[i].state]
  <1>1. rs[i] \in RequestType
    BY DEF Requests
  <1>2. done.token = rs[i].token /\ done.given = rs[i].given
    BY <1>1 DEF RequestType
  <1>3. Api!Finished(rs, i) = [rs EXCEPT ![i] = done]
    BY <1>1 DEF Api!Finished, RequestType
  <1> HIDE DEF done
  <1>4. \A j \in DOMAIN rs : [rs EXCEPT ![i] = done][j] = IF j = i THEN done ELSE rs[j]
    OBVIOUS
  <1> QED  BY <1>2, <1>3, <1>4, FinishedAreFewer DEF Bounded, Fewer

(* What is sent has the token of the page, or none.                        *)
LEMMA SentAreBounded ==
    ASSUME ApiBounds, NEW rs \in Seq(Requests), Bounded(rs),
           NEW method, NEW place, NEW email, NEW ajax,
           Api!Send(rs, Api!Request(method, place, email, ajax)), UNCHANGED secret
    PROVE  Bounded(requests)'
  <1> DEFINE request == Api!Request(method, place, email, ajax)
             before == IF request.ajax THEN rs ELSE Api!Abandoned(rs, Api!Loading(rs))
  <1>1. request.token \in 0..MaxLogins \cup {-1} /\ request.given \in 0..secret
    <2>1. request.token \in {-1, csrftoken} /\ request.given = 0
      BY DEF Api!Request
    <2> HIDE DEF request
    <2> QED  BY <2>1, ClicksAreCounted DEF ApiBounds
  <1>2. requests' = Append(before, request)
    BY DEF Api!Send
  <1>3. Bounded(before) /\ before \in Seq(Requests)
    BY AbandonedAreBounded
  <1> HIDE DEF request, before
  <1>4. /\ DOMAIN requests' = 1..Len(before) + 1 /\ requests'[Len(before) + 1] = request
        /\ \A i \in 1..Len(before) : requests'[i] = before[i]
    BY <1>2, <1>3 DEF request
  <1>5. Len(before) \in Nat /\ DOMAIN before = 1..Len(before)
    BY <1>3
  <1>6. ASSUME NEW i \in 1..Len(before) + 1
        PROVE  requests'[i].token \in 0..MaxLogins \cup {-1} /\ requests'[i].given \in 0..secret
    <2>1. CASE i \in 1..Len(before)
      BY <1>3, <1>4, <1>5, <2>1 DEF Bounded
    <2>2. CASE i = Len(before) + 1
      BY <1>1, <1>4, <2>2
    <2> QED  BY <1>5, <2>1, <2>2
  <1> QED  BY <1>4, <1>6 DEF Bounded

(* The server gives the secret that is, and changes no token.              *)
LEMMA ServedAreBounded ==
    ASSUME ApiInv, ApiBounds, NEW i \in DOMAIN requests, Api!Serve(i)
    PROVE  ApiBounds'
  <1>0. UNCHANGED <<secret, csrftoken, clicks, losses>>
    BY DEF Api!Serve
  <1>1. PICK kind, emails : Answers(i, kind, emails)
    <2> DEFINE request == requests[i]
    <2>1. \/ \E kind \in {"refused", "gone", "invalid", "options"} : Answers(i, kind, {})
          \/ Answers(i, Api!Get(request.address).kind, Api!Get(request.address).emails)
          \/ \E kind \in {"row", "made"} : Answers(i, kind, {request.email})
      BY DEF Api!Serve, Answers
    <2> HIDE DEF request
    <2> QED  BY <2>1
  <1> DEFINE answered == [requests[i] EXCEPT !.state = "served", !.given = secret,
                                             !.answer = Api!Document(kind, emails)]
  <1>2. requests[i] \in RequestType
    BY DEF ApiInv, Requests
  <1>3. requests' = [requests EXCEPT ![i] = answered]
    BY <1>1, <1>2 DEF RequestType, Answers
  <1>4. answered.token = requests[i].token /\ answered.given = secret
    BY <1>2 DEF RequestType
  <1>5. secret \in 0..secret
    BY DEF ApiBounds
  <1> HIDE DEF answered
  <1>6. /\ DOMAIN requests' = DOMAIN requests
        /\ \A j \in DOMAIN requests : requests'[j] = IF j = i THEN answered ELSE requests[j]
    BY <1>3
  <1>7. Bounded(requests)'
    BY <1>0, <1>4, <1>5, <1>6 DEF Bounded, ApiBounds
  <1> QED  BY <1>0, <1>7 DEF ApiBounds

LEMMA ApiBoundsStep ==
    ASSUME ApiInv, ApiBounds, [Api!Next]_(Api!vars) PROVE ApiBounds'
  <1>0. /\ requests \in Seq(Requests) /\ Bounded(requests)
        /\ secret \in 0..MaxLogins /\ csrftoken \in 0..secret
        /\ clicks \in 0..MaxClicks /\ losses \in 0..MaxLosses
        /\ MaxClicks \in Nat /\ MaxLosses \in Nat /\ MaxLogins \in Nat
        /\ \A i \in DOMAIN requests : requests[i] \in RequestType
    BY ClicksAreCounted DEF ApiInv, ApiBounds, Requests
  <1>1. ASSUME NEW button \in Api!Forms(address), NEW email \in Emails \cup {Api!None},
               Api!DoAjaxSubmit(button, email)
        PROVE  ApiBounds'
    <2>1. /\ clicks' \in 0..MaxClicks /\ UNCHANGED <<secret, csrftoken, losses>>
          /\ Api!Send(requests, Api!Request(Api!Method(button), address, email,
                                            ~Api!SubmitsItself(button)))
      BY <1>0, <1>1 DEF Api!DoAjaxSubmit
    <2>2. Bounded(requests)'
      BY <1>0, <2>1, SentAreBounded
    <2> QED  BY <1>0, <2>1, <2>2 DEF ApiBounds
  <1>2. ASSUME NEW place \in Api!Addresses, Api!Follow(place) PROVE ApiBounds'
    <2>1. /\ clicks < MaxClicks /\ clicks' = clicks + 1
          /\ UNCHANGED <<secret, csrftoken, losses>>
          /\ Api!Send(requests, Api!Request("GET", place, Api!None, FALSE))
      BY <1>2 DEF Api!Follow
    <2>0. clicks' \in 0..MaxClicks
      BY <1>0, <2>1
    <2>2. Bounded(requests)'
      BY <1>0, <2>1, SentAreBounded
    <2> QED  BY <1>0, <2>0, <2>1, <2>2 DEF ApiBounds
  <1>3. ASSUME NEW i \in DOMAIN requests, Api!Lose(i) PROVE ApiBounds'
    <2> DEFINE gone == [requests[i] EXCEPT !.lost = TRUE]
    <2>1. /\ requests' = [requests EXCEPT ![i] = gone] /\ losses' \in 0..MaxLosses
          /\ UNCHANGED <<secret, csrftoken, clicks>>
      BY <1>0, <1>3 DEF Api!Lose
    <2>2. gone.token = requests[i].token /\ gone.given = requests[i].given
      BY <1>0 DEF RequestType
    <2> HIDE DEF gone
    <2>3. /\ DOMAIN requests' = DOMAIN requests
          /\ \A j \in DOMAIN requests : requests'[j] = IF j = i THEN gone ELSE requests[j]
      BY <2>1
    <2>4. Bounded(requests)'
      BY <1>0, <2>1, <2>2, <2>3 DEF Bounded
    <2> QED  BY <1>0, <2>1, <2>4 DEF ApiBounds
  <1>4. ASSUME NEW i \in DOMAIN requests, Api!Always(i) PROVE ApiBounds'
    <2> DEFINE rs == Api!Finished(requests, i)
    <2>1. Bounded(rs) /\ rs \in Seq(Requests) /\ UNCHANGED <<secret, losses>>
      BY <1>0, <1>4, FinishedAreBounded DEF Api!Always
    <2>2. CASE Api!Redirect(i)
      <3>1. /\ Api!Send(rs, Api!Request("GET", requests[i].address, Api!None, FALSE))
            /\ UNCHANGED <<csrftoken, clicks>>
        BY <2>2 DEF Api!Redirect
      <3>2. Bounded(requests)'
        BY <2>1, <3>1, SentAreBounded
      <3> QED  BY <1>0, <2>1, <3>1, <3>2 DEF ApiBounds
    <2>3. CASE Api!ReplaceDocument(i)
      <3>1. /\ requests' \in {rs, Api!Abandoned(rs, Api!Awaited(rs))}
            /\ csrftoken' = requests[i].given /\ UNCHANGED clicks
        BY <2>3 DEF Api!ReplaceDocument, Api!Show
      <3> HIDE DEF rs
      <3>2. Bounded(requests')
        BY <2>1, <3>1, AbandonedAreBounded
      <3>3. Bounded(requests)' /\ csrftoken' \in 0..secret
        BY <1>0, <2>1, <3>1, <3>2 DEF Bounded
      <3> QED  BY <1>0, <2>1, <3>1, <3>3 DEF ApiBounds
    <2> QED  BY <1>4, <2>2, <2>3 DEF Api!Always
  <1>5. ASSUME NEW i \in DOMAIN requests, Api!Loaded(i) PROVE ApiBounds'
    <2> DEFINE rs == Api!Abandoned(requests, Api!Awaited(requests))
    <2>1. /\ requests' = Api!Finished(rs, i) /\ UNCHANGED <<secret, clicks, losses>>
          /\ csrftoken' \in {0, requests[i].given}
      BY <1>5 DEF Api!Loaded, Api!Show
    <2>2. Bounded(rs) /\ rs \in Seq(Requests) /\ DOMAIN rs = DOMAIN requests
      BY <1>0, AbandonedAreBounded DEF Api!Abandoned
    <2> HIDE DEF rs
    <2>3. Bounded(requests')
      BY <2>1, <2>2, FinishedAreBounded
    <2>4. Bounded(requests)' /\ csrftoken' \in 0..secret
      BY <1>0, <2>1, <2>3 DEF Bounded
    <2> QED  BY <1>0, <2>1, <2>4 DEF ApiBounds
  <1>6. CASE Api!Login
    BY <1>0, <1>6 DEF Api!Login, ApiBounds, Bounded
  <1>7. CASE UNCHANGED Api!vars
    BY <1>7 DEF Api!vars, ApiBounds, Bounded
  <1> QED  BY <1>1, <1>2, <1>3, <1>4, <1>5, <1>6, <1>7, ServedAreBounded DEF Api!Next

LEMMA ApiTyped == Api!Spec => []Api!TypeOK
  <1>1. Api!Init => ApiBounds
    BY ClicksAreCounted DEF Api!Init, ApiBounds, Bounded
  <1>2. ApiInv /\ ApiBounds => Api!TypeOK
    <2> SUFFICES ASSUME ApiInv, ApiBounds PROVE Api!TypeOK
      OBVIOUS
    <2> DEFINE Typical ==
          [method : {"GET", "POST", "PUT", "PATCH", "DELETE", "OPTIONS"},
           address : Api!Addresses, email : Emails \cup {Api!None},
           token : 0..MaxLogins \cup {-1}, ajax : BOOLEAN,
           state : {"sent", "served", "over"}, awaited : BOOLEAN, lost : BOOLEAN,
           answer : [kind : Api!Kinds, emails : SUBSET Emails], given : 0..MaxLogins]
    <2>1. ASSUME NEW i \in DOMAIN requests PROVE requests[i] \in Typical
      <3>1. requests[i] \in RequestType
        BY DEF ApiInv, Requests
      <3>2. requests[i].token \in 0..MaxLogins \cup {-1} /\ requests[i].given \in 0..MaxLogins
        BY ClicksAreCounted DEF ApiBounds, Bounded
      <3> QED  BY <3>1, <3>2 DEF RequestType, Documents
    <2> HIDE DEF Typical
    <2>2. requests \in Seq(Typical)
      BY <2>1 DEF ApiInv
    <2> QED  BY <2>2 DEF ApiInv, ApiTypes, ApiBounds, Documents, Typical, Api!TypeOK
  <1>3. ApiInv /\ [Api!Next]_(Api!vars) => ApiInv'
    BY ApiStep
  <1> QED  BY <1>1, <1>2, <1>3, ApiInit, ApiBoundsStep, PTL DEF Api!Spec

-----------------------------------------------------------------------------
(* TypesOK: in every one of these programs each variable has its type, for *)
(* any rows, options, forms, windows, calendars, tabs and requests.        *)
THEOREM TypesAreRight ==
    /\ Signup!Spec /\ Actions!Spec /\ Groups!Spec /\ Windows!Spec
    /\ Shortcuts!Spec /\ Formsets!Spec /\ Memory!Spec /\ Api!Spec
    => []TypesOK
  <1>1. Actions!Spec => []Actions!TypeOK
    BY NamesWhatItRunsOn, PTL
  <1>2. Shortcuts!Spec => []Shortcuts!TypeOK
    BY CalendarInit, CalendarStep, TypedCalendars, PTL DEF Shortcuts!Spec
  <1>3. /\ Signup!TypeOK /\ Actions!TypeOK /\ Groups!TypeOK /\ Windows!TypeOK
        /\ Shortcuts!TypeOK /\ Formsets!TypeOK /\ Memory!TypeOK /\ Api!TypeOK
        => TypesOK
    BY DEF TypesOK
  <1> QED
    BY <1>1, <1>2, <1>3, TypeCorrect, ChooserTyped, WindowsTyped, FormsetTyped, MemoryTyped,
       ApiTyped, PTL
=============================================================================
