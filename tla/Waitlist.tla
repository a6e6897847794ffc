------------------------------ MODULE Waitlist ------------------------------
(***************************************************************************)
(* The waitlist of koded-cli/web: the page (frontend/src: App, the form,   *)
(* the modal, services/api.js) in several browsers, and the Django service *)
(* behind it (backend/waitlist), which serves requests side by side.       *)
(*                                                                         *)
(* A request to join goes through three queries that others may come       *)
(* between: is the email there, what is the largest position, insert. Any  *)
(* fetch may fail in the browser, before or after the service has done its *)
(* work. A row may be deleted or edited meanwhile, by an administrator or  *)
(* through the API, which allows both to anyone.                           *)
(*                                                                         *)
(* Of the form the email and the name are kept; the source and the tick    *)
(* for news change nothing here. checkEmail, getStats and getUsers have no *)
(* caller in the page and change no row.                                   *)
(***************************************************************************)
EXTENDS Integers, FiniteSets, Sequences

CONSTANTS
    Browsers,        (* browsers with the page                              *)
    Emails,          (* addresses                                           *)
    Earlier,         (* the email of the row that is there at the beginning *)
    Forms,           (* what may be typed: [email, name]                    *)
    MaxSubmissions,  (* bound: requests to join                             *)
    MaxLoads,        (* bound: times the page is loaded                     *)
    MaxEdits         (* bound: rows deleted or edited                       *)

VARIABLES
    rows,      (* the table of WaitlistUser                                 *)
    requests,  (* requests to join that the service has not finished        *)
    page,      (* each browser: the state of App and of WaitlistForm        *)
    awaited,   (* each browser: the request whose answer App awaits, or 0   *)
    totals,    (* each browser: fetches of the total, answered or not       *)
    editing,   (* rows that an update has read and not yet saved            *)
    mine,      (* history: the request the modal of a browser is about      *)
    stored,    (* history: the position each request was stored with, or 0  *)
    loads, edits, submissions                                   (* counters *)

vars == <<rows, requests, page, awaited, totals, editing, mine, stored, loads, edits,
          submissions>>

Names == {"", "blank", "name"}    (* of the field Full Name *)
Fallback == 2100                  (* "Fallback to static number" *)
Unknown == -1                     (* no answer yet *)
Missing == 0                      (* response.position of an answer without one *)

(* What an instance has to be: the bounds are numbers, and what may be     *)
(* typed is a form.                                                        *)
Bounds == MaxSubmissions \in Nat /\ MaxLoads \in Nat /\ MaxEdits \in Nat
Typing == Forms \subseteq [email : Emails \cup {""}, name : Names]
Instance == Bounds /\ Typing /\ Earlier \in Emails

EmptyForm == [email |-> "", name |-> ""]

(* A page that is closed, or just mounted. *)
NewPage(up) ==
    [up |-> up, form |-> EmptyForm, loading |-> FALSE, error |-> FALSE,
     isModalOpen |-> FALSE, position |-> Missing, total |-> 0]

Ended == {"created", "refused", "failed"}
Ids == 0..MaxSubmissions    (* a row has the number of its submission *)
Row == [id : Ids, email : Emails, position : Nat, saw : SUBSET Ids]
Request == [id : Ids, email : Emails, name : Names \ {""},
            stage : {"sent", "valid", "numbered"} \cup Ended,
            position : Nat, saw : SUBSET Ids]
State == [up : BOOLEAN, form : {EmptyForm} \cup Forms, loading : BOOLEAN, error : BOOLEAN,
          isModalOpen : BOOLEAN, position : Nat, total : Nat]

Init ==
    /\ rows = {[id |-> 0, email |-> Earlier, position |-> 1, saw |-> {}]}
    /\ requests = {}
    /\ page = [b \in Browsers |-> NewPage(FALSE)]
    /\ awaited = [b \in Browsers |-> 0]
    /\ totals = [b \in Browsers |-> <<>>]
    /\ editing = {} /\ mine = [b \in Browsers |-> 0]
    /\ stored = [id \in Ids |-> 0]
    /\ loads = 0 /\ edits = 0 /\ submissions = 0

tables == <<rows, stored, editing, edits>>

-----------------------------------------------------------------------------
(* The page.                                                               *)

(* The page is loaded, or loaded anew: what it awaited it will not hear,   *)
(* and App fetches the total on mount.                                     *)
Load(b) ==
    /\ loads < MaxLoads
    /\ loads' = loads + 1
    /\ page' = [page EXCEPT ![b] = NewPage(TRUE)]
    /\ awaited' = [awaited EXCEPT ![b] = 0]
    /\ totals' = [totals EXCEPT ![b] = <<Unknown>>]
    /\ mine' = [mine EXCEPT ![b] = 0]
    /\ UNCHANGED <<tables, requests, submissions>>

(* The fields are disabled while a submission runs, and so is the button;  *)
(* required fields hold the browser back, blanks do not.                   *)
Editable(b) == page[b].up /\ ~page[b].loading
CanSubmit(b) == Editable(b) /\ page[b].form.email # "" /\ page[b].form.name # ""

HandleChange(b, form) ==
    /\ Editable(b) /\ page[b].form # form
    /\ page' = [page EXCEPT ![b].form = form]
    /\ UNCHANGED <<tables, requests, awaited, totals, mine, loads, submissions>>

HandleFormSubmit(b) ==
    LET form == page[b].form
        id == submissions + 1
    IN  /\ CanSubmit(b)
        /\ id <= MaxSubmissions /\ submissions' = id
        /\ page' = [page EXCEPT ![b].loading = TRUE, ![b].error = FALSE]
        /\ awaited' = [awaited EXCEPT ![b] = id]
        /\ requests' = requests \cup
               {[id |-> id, email |-> form.email, name |-> form.name,
                 stage |-> "sent", position |-> Missing, saw |-> {}]}
        /\ UNCHANGED <<tables, totals, mine, loads>>

(* handleSubmit after onSubmit: the form is emptied, also when it failed,  *)
(* as the loading that is looked at is that of the submit event, FALSE.    *)
HandleSubmit(p) == [p EXCEPT !.form = EmptyForm]

(* joinWaitlist returned: the modal opens with the position, and the total *)
(* is fetched again.                                                       *)
Joined(b, position) ==
    /\ page' = [page EXCEPT ![b] = HandleSubmit(
           [@ EXCEPT !.position = position, !.isModalOpen = TRUE, !.loading = FALSE])]
    /\ totals' = [totals EXCEPT ![b] = Append(@, Unknown)]
    /\ mine' = [mine EXCEPT ![b] = awaited[b]]
    /\ awaited' = [awaited EXCEPT ![b] = 0]

(* Mutant: setLoading(false) is not in the finally but behind the answer. *)
NotJoinedLoading(b) ==
    /\ page' = [page EXCEPT ![b] = HandleSubmit([@ EXCEPT !.error = TRUE])]
    /\ awaited' = [awaited EXCEPT ![b] = 0]
    /\ UNCHANGED <<totals, mine>>

(* joinWaitlist threw, and handleFormSubmit keeps the error to itself.     *)
NotJoined(b) ==
    /\ page' = [page EXCEPT ![b] =
           HandleSubmit([@ EXCEPT !.error = TRUE, !.loading = FALSE])]
    /\ awaited' = [awaited EXCEPT ![b] = 0]
    /\ UNCHANGED <<totals, mine>>

(* Mutant: fetchAPI does not look at response.ok. *)
TakeAnswerUnread(b, r) == Joined(b, r.position)

(* fetchAPI: an answer that is not ok throws, whatever is in it. *)
TakeAnswer(b, r) == IF r.stage = "created" THEN Joined(b, r.position) ELSE NotJoined(b)

Receive(b) ==
    \E r \in requests :
        /\ r.id = awaited[b] /\ r.stage \in Ended
        /\ TakeAnswer(b, r)
        /\ requests' = requests \ {r}
        /\ UNCHANGED <<tables, loads, submissions>>

(* fetch rejects. The service may be anywhere with the request. *)
FetchFails(b) ==
    /\ awaited[b] # 0
    /\ NotJoined(b)
    /\ requests' = {r \in requests : r.id # awaited[b] \/ r.stage \notin Ended}
    /\ UNCHANGED <<tables, loads, submissions>>

(* Modal: the position as an identifier, and a number if there is none. *)
SystemId(b) == IF page[b].position = Missing THEN 1337 ELSE page[b].position

CloseModal(b) ==
    /\ page[b].isModalOpen
    /\ page' = [page EXCEPT ![b].isModalOpen = FALSE]
    /\ UNCHANGED <<tables, requests, awaited, totals, mine, loads, submissions>>

(* fetchTotalUsers, whichever of them is answered first. *)
ReceiveTotal(b, i) ==
    /\ \E total \in ({totals[b][i]} \ {Unknown}) \cup {Fallback} :
           page' = [page EXCEPT ![b].total = total]
    /\ totals' = [totals EXCEPT ![b] = SubSeq(@, 1, i - 1) \o SubSeq(@, i + 1, Len(@))]
    /\ UNCHANGED <<tables, requests, awaited, mine, loads, submissions>>
-----------------------------------------------------------------------------
(* The service.                                                            *)

Known(email) == \E row \in rows : row.email = email
Max(S) == CHOOSE n \in S \cup {0} : \A m \in S : m <= n

(* A request on its way is served further; rows is what it does to the     *)
(* table.                                                                  *)
Serve(r, next, after) ==
    /\ requests' = (requests \ {r}) \cup {next}
    /\ rows' = after
    /\ stored' = [stored EXCEPT ![r.id] = IF next.stage = "created" THEN r.position ELSE @]
    /\ UNCHANGED <<page, awaited, totals, editing, mine, loads, edits, submissions>>

(* is_valid: validate_email and validate_name. *)
Validate(r) ==
    /\ r.stage = "sent"
    /\ LET valid == ~Known(r.email) /\ r.name # "blank"
       IN  Serve(r, [r EXCEPT !.stage = IF valid THEN "valid" ELSE "refused"], rows)

NextPosition == Max({row.position : row \in rows}) + 1

(* save: the next position, ... *)
Number(r, position) ==
    /\ r.stage = "valid"
    /\ Serve(r, [r EXCEPT !.stage = "numbered", !.position = position,
                          !.saw = {row.id : row \in rows}], rows)

(* Mutant: the position is the number of rows. *)
AssignPositionByCount(r) == Number(r, Cardinality(rows) + 1)
AssignPosition(r) == Number(r, NextPosition)

(* ... and the insert, which the unique email may refuse: a 500. *)
Insert(r) ==
    /\ r.stage = "numbered"
    /\ IF Known(r.email)
       THEN Serve(r, [r EXCEPT !.stage = "failed"], rows)
       ELSE Serve(r, [r EXCEPT !.stage = "created"],
                  rows \cup {[id |-> r.id, email |-> r.email,
                              position |-> r.position, saw |-> r.saw]})

(* TotalUsersView. *)
CountUsers(b, i) ==
    /\ totals[b][i] = Unknown
    /\ totals' = [totals EXCEPT ![b][i] = Cardinality(rows)]
    /\ UNCHANGED <<tables, requests, page, awaited, mine, loads, submissions>>

Edit(after, read) ==
    /\ edits < MaxEdits /\ edits' = edits + 1
    /\ rows' = after /\ editing' = read
    /\ UNCHANGED <<requests, page, awaited, totals, mine, stored, loads, submissions>>

Destroy(row) == Edit(rows \ {row}, editing)

(* update: get_object, and later save, which stores every column, and      *)
(* inserts the row again if it is gone.                                    *)
GetObject(row) == row \notin editing /\ Edit(rows, editing \cup {row})

SaveObject(row, email) ==
    LET others == {other \in rows : other.id # row.id}
        taken == \E other \in others : other.email = email
    IN  /\ rows' = IF taken THEN rows ELSE others \cup {[row EXCEPT !.email = email]}
        /\ editing' = editing \ {row}
        /\ UNCHANGED <<requests, page, awaited, totals, mine, stored, loads, edits,
                       submissions>>

-----------------------------------------------------------------------------

EndFetch(b) == Receive(b) \/ FetchFails(b)

Next ==
    \/ \E b \in Browsers :
           \/ Load(b) \/ HandleFormSubmit(b) \/ EndFetch(b) \/ CloseModal(b)
           \/ \E form \in Forms : HandleChange(b, form)
           \/ \E i \in DOMAIN totals[b] : CountUsers(b, i) \/ ReceiveTotal(b, i)
    \/ \E r \in requests : Validate(r) \/ AssignPosition(r) \/ Insert(r)
    \/ \E row \in rows : Destroy(row) \/ GetObject(row)
    \/ \E row \in editing, email \in Emails : SaveObject(row, email)

Spec == Init /\ [][Next]_vars

(* A browser gives a fetch up some time, if nothing comes of it. *)
Fairness == \A b \in Browsers : WF_vars(EndFetch(b))

-----------------------------------------------------------------------------

TypeOK ==
    /\ rows \subseteq Row /\ editing \subseteq Row /\ requests \subseteq Request
    /\ page \in [Browsers -> State]
    /\ awaited \in [Browsers -> Ids] /\ mine \in [Browsers -> Ids]
    /\ stored \in [Ids -> Nat]
    /\ totals \in [Browsers -> Seq(Nat \cup {Unknown})]
    /\ loads \in 0..MaxLoads /\ edits \in 0..MaxEdits /\ submissions \in Ids
    /\ \A b \in Browsers : page[b].loading <=> awaited[b] # 0

(* An email has one row, also when two requests found it missing; and who  *)
(* joined when another was in the list is behind that one, also after rows *)
(* were deleted, edited, or stored again by an update that had read them.  *)
OnePlaceInOrder ==
    \A x, y \in rows :
        /\ x.email = y.email => x = y
        /\ x.id \in y.saw => x.position < y.position

(* "You're on the waitlist!" is shown for a row that was stored for this   *)
(* very submission, and with its position: whoever is still waiting for an *)
(* answer, got a 400 or a 500, or has lost the connection does not see it. *)
ShowsItsPosition ==
    \A b \in Browsers : page[b].isModalOpen =>
        /\ mine[b] # 0 /\ stored[mine[b]] = SystemId(b)
        /\ \A row \in rows : row.id = mine[b] => row.position = SystemId(b)

(* The button does not stay at "Processing...".                            *)
EverySubmissionEnds == \A b \in Browsers : page[b].loading ~> ~page[b].loading
=============================================================================
