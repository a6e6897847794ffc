------------------------------ MODULE ApiForm ------------------------------
(***************************************************************************)
(* The forms in the API's pages: rest_framework/js/ajax-form.js, which     *)
(* sends what a form of HTML cannot (PUT, PATCH, DELETE, a body of another *)
(* content type) and writes the page it gets as answer over this one, and  *)
(* csrf.js. The API has a list of sign-ups and a page for each, here one.  *)
(*                                                                         *)
(* The page stays alive while a request is under way: a second button may  *)
(* be used, a link followed. A connection may break before the server has  *)
(* the request, while it has it or after. A request nobody waits for any   *)
(* more may still be served, however late, or never. A sign-up is its      *)
(* email, and how a body is encoded is left out.                           *)
(***************************************************************************)
EXTENDS Integers, Sequences

CONSTANTS
    Emails,
    MaxClicks,    (* bound: buttons and links                               *)
    MaxLosses,    (* bound: requests and answers lost                       *)
    MaxLogins     (* bound: logins in another tab, each with a new secret   *)

VARIABLES
    row,          (* the sign-up with a page of its own, or None            *)
    others,       (* the emails of the others                               *)
    secret,       (* of the session; 0: not logged in, nothing is checked   *)
    shown,        (* the document, as a kind of page and emails             *)
    address,      (* its address, "list" or "row"                           *)
    csrftoken,    (* the token in it                                        *)
    requests,
    clicks, losses,
    overlapped,   (* history: the last request did not have to wait         *)
    late          (* history: a change no page waited for has come since    *)

vars == <<row, others, secret, shown, address, csrftoken, requests, clicks, losses,
          overlapped, late>>

None == "none"
Addresses == {"list", "row"}
Document(kind, emails) == [kind |-> kind, emails |-> emails]
Error == Document("error", {})
Kinds == {"list", "row", "made", "gone", "options", "invalid", "refused", "error"}

TypeOK ==
    /\ row \in Emails \cup {None} /\ others \subseteq Emails
    /\ secret \in 0..MaxLogins /\ csrftoken \in 0..secret
    /\ shown \in [kind : Kinds, emails : SUBSET Emails] /\ address \in Addresses
    /\ requests \in Seq([method : {"GET", "POST", "PUT", "PATCH", "DELETE", "OPTIONS"},
                         address : Addresses, email : Emails \cup {None},
                         token : 0..MaxLogins \cup {-1}, ajax : BOOLEAN,
                         state : {"sent", "served", "over"}, awaited : BOOLEAN, lost : BOOLEAN,
                         answer : [kind : Kinds, emails : SUBSET Emails], given : 0..MaxLogins])
    /\ clicks \in 0..MaxClicks /\ losses \in 0..MaxLosses

-----------------------------------------------------------------------------
(* The server, as far as the pages tell.                                   *)

Get(place) ==
    IF place = "list" THEN Document("list", others \cup ({row} \ {None}))
    ELSE IF row = None THEN Document("gone", {}) ELSE Document("row", {row})

csrfSafeMethod == {"GET", "HEAD", "OPTIONS", "TRACE"}
Refused(request) ==
    secret # 0 /\ request.method \notin csrfSafeMethod /\ request.token # secret

(* What is refused, is not there or is taken changes nothing.              *)
Missing(request) == request.method \in {"PUT", "PATCH", "DELETE"} /\ row = None
Taken(request) ==
    \/ request.method \in {"POST", "PUT", "PATCH"} /\ request.email \in others
    \/ request.method = "POST" /\ request.email = row

Serve(i) ==
    LET request == requests[i]
        Answer(kind, emails) ==
            requests' = [requests EXCEPT ![i].state = "served", ![i].given = secret,
                                         ![i].answer = Document(kind, emails)]
        Same(kind) == Answer(kind, {}) /\ UNCHANGED <<row, others>>
        Done ==
            \/ request.method = "OPTIONS" /\ Same("options")
            \/ /\ request.method = "GET"
               /\ Answer(Get(request.address).kind, Get(request.address).emails)
               /\ UNCHANGED <<row, others>>
            \/ /\ request.method = "DELETE"
               /\ Answer("gone", {}) /\ row' = None /\ UNCHANGED others
            \/ /\ request.method \in {"PUT", "PATCH"}
               /\ Answer("row", {request.email}) /\ row' = request.email /\ UNCHANGED others
            \/ /\ request.method = "POST"
               /\ Answer("made", {request.email}) /\ others' = others \cup {request.email}
               /\ UNCHANGED row
    IN
    /\ request.state = "sent"
    /\ \/ Refused(request) /\ Same("refused")
       \/ ~Refused(request) /\ Missing(request) /\ Same("gone")
       \/ ~Refused(request) /\ ~Missing(request) /\ Taken(request) /\ Same("invalid")
       \/ ~Refused(request) /\ ~Missing(request) /\ ~Taken(request) /\ Done
    /\ late' = IF request.awaited /\ ~request.lost THEN FALSE
               ELSE late \/ <<row, others>>' # <<row, others>>
    /\ UNCHANGED <<secret, shown, address, csrftoken, clicks, losses, overlapped>>

(* The connection breaks: the page gets no answer, whatever the server     *)
(* does with the request.                                                  *)
Lose(i) ==
    /\ losses < MaxLosses /\ losses' = losses + 1
    /\ requests[i].awaited /\ ~requests[i].lost
    /\ requests' = [requests EXCEPT ![i].lost = TRUE]
    /\ UNCHANGED <<row, others, secret, shown, address, csrftoken, clicks, overlapped, late>>

(* A login in another tab: the tokens of the pages already open are old.   *)
Login ==
    /\ secret < MaxLogins /\ secret' = secret + 1
    /\ UNCHANGED <<row, others, shown, address, csrftoken, requests, clicks, losses,
                   overlapped, late>>

-----------------------------------------------------------------------------
(* The forms of a page. A button may have a method, and so may its form;   *)
(* attr is the method a form of HTML has. A raw form overrides the type of *)
(* the content.                                                            *)
Form(button, form, attr, override) ==
    [button |-> button, form |-> form, attr |-> attr, override |-> override]
Forms(place) ==
    {Form("", "OPTIONS", "", FALSE)} \cup
    IF place = "list"
    THEN {Form("", "", "POST", FALSE), Form("", "", "POST", TRUE)}
    ELSE {Form("PUT", "", "POST", FALSE), Form("PUT", "", "POST", TRUE),
          Form("PATCH", "", "POST", TRUE), Form("", "DELETE", "", FALSE)}

Method(form) ==
    CASE form.button # ""                     -> form.button
      [] form.button = "" /\ form.form # ""   -> form.form
      [] OTHER                                -> form.attr
SubmitsItself(form) ==
    Method(form) = "GET" \/ (Method(form) = "POST" /\ ~form.override)

Awaited(rs) == {i \in DOMAIN rs : rs[i].awaited}
Loading(rs) == {i \in Awaited(rs) : ~rs[i].ajax}

(* The page is left: nothing waits for these requests any more.            *)
Abandoned(rs, which) ==
    [i \in DOMAIN rs |-> IF i \in which THEN [rs[i] EXCEPT !.awaited = FALSE] ELSE rs[i]]
Finished(rs, i) ==
    [rs EXCEPT ![i].awaited = FALSE, ![i].state = IF @ = "served" THEN "over" ELSE @]

(* beforeSend: the token goes with what may change something.              *)
Request(method, place, email, ajax) ==
    [method |-> method, address |-> place, email |-> email, ajax |-> ajax,
     token |-> IF method \in csrfSafeMethod THEN -1 ELSE csrftoken,
     state |-> "sent", awaited |-> TRUE, lost |-> FALSE, answer |-> Error, given |-> 0]

(* A page that is loaded takes the place of one still loading.             *)
Send(rs, request) ==
    /\ requests' = Append(IF request.ajax THEN rs ELSE Abandoned(rs, Loading(rs)), request)
    /\ overlapped' = (Awaited(rs) # {})

(* doAjaxSubmit, with the button of this click.                            *)
DoAjaxSubmit(form, email) ==
    /\ clicks < MaxClicks /\ clicks' = clicks + 1
    /\ shown.kind # "error"
    /\ form \in Forms(address)
    /\ email \in IF Method(form) \in {"OPTIONS", "DELETE"} THEN {None} ELSE Emails
    /\ Send(requests, Request(Method(form), address, email, ~SubmitsItself(form)))
    /\ UNCHANGED <<row, others, secret, shown, address, csrftoken, losses, late>>

(* A link to one of the two addresses, also in the bar of the browser.     *)
Follow(place) ==
    /\ clicks < MaxClicks /\ clicks' = clicks + 1
    /\ Send(requests, Request("GET", place, None, FALSE))
    /\ UNCHANGED <<row, others, secret, shown, address, csrftoken, losses, late>>

Show(document, place, token) == shown' = document /\ address' = place /\ csrftoken' = token

(* replaceDocument, replaceState: the answer is the page. Writing it ends  *)
(* a load, and with the load whatever else the page waits for.             *)
ReplaceDocument(i) ==
    LET request == requests[i]
        rs == Finished(requests, i)
    IN
    /\ Show(request.answer, request.address, request.given)
    /\ requests' = IF Loading(rs) = {} THEN rs ELSE Abandoned(rs, Awaited(rs))
    /\ UNCHANGED <<clicks, overlapped>>

(* No HTML came, or nothing: the address of the form is loaded.            *)
Redirect(i) ==
    /\ Send(Finished(requests, i), Request("GET", requests[i].address, None, FALSE))
    /\ UNCHANGED <<shown, address, csrftoken, clicks>>

(* A plausible bug: only an answer is handled.                             *)
AlwaysOnSuccess(i) ==
    /\ requests[i].ajax /\ requests[i].awaited
    /\ \/ ~requests[i].lost /\ requests[i].state = "served" /\ ReplaceDocument(i)
       \/ /\ requests[i].lost
          /\ requests' = Finished(requests, i)
          /\ UNCHANGED <<shown, address, csrftoken, clicks, overlapped>>
    /\ UNCHANGED <<row, others, secret, losses, late>>

(* always: with an answer of HTML, and without.                           *)
Always(i) ==
    /\ requests[i].ajax /\ requests[i].awaited
    /\ \/ ~requests[i].lost /\ requests[i].state = "served" /\ ReplaceDocument(i)
       \/ requests[i].lost /\ Redirect(i)
    /\ UNCHANGED <<row, others, secret, losses, late>>

(* A load comes to its end, if only with the browser's own page.           *)
Loaded(i) ==
    LET request == requests[i] IN
    /\ i \in Loading(requests) /\ (request.lost \/ request.state = "served")
    /\ requests' = Finished(Abandoned(requests, Awaited(requests)), i)
    /\ IF request.lost THEN Show(Error, request.address, 0)
       ELSE Show(request.answer, request.address, request.given)
    /\ UNCHANGED <<row, others, secret, clicks, losses, overlapped, late>>

-----------------------------------------------------------------------------
Init ==
    /\ row \in Emails /\ others = {} /\ secret = 0
    /\ address \in Addresses /\ shown = Get(address) /\ csrftoken = 0
    /\ requests = <<>> /\ clicks = 0 /\ losses = 0
    /\ overlapped = FALSE /\ late = FALSE

Next ==
    \/ \E form \in Forms(address), email \in Emails \cup {None} : DoAjaxSubmit(form, email)
    \/ \E place \in Addresses : Follow(place)
    \/ \E i \in DOMAIN requests : Serve(i) \/ Lose(i) \/ Always(i) \/ Loaded(i)
    \/ Login

Spec == Init /\ [][Next]_vars

-----------------------------------------------------------------------------
(* A page that waits for nothing shows the database as it is, and under    *)
(* the address it belongs to: whichever of its requests or answers were    *)
(* lost, refused or overtaken by a link. Excepted are the changes that no  *)
(* page waits for, and a page that sent a request before the last one had  *)
(* its answer, which shows the answer that came last.                      *)
ShowsTheDatabase ==
    Awaited(requests) = {} /\ ~overlapped /\ ~late =>
        /\ shown.kind \in {"list", "row"} => shown = Get(address)
        /\ shown.kind = "made" => address = "list" /\ shown.emails \subseteq others
        /\ shown.kind = "gone" => row = None /\ address = "row"
=============================================================================
