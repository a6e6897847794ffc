---------------------------- MODULE MCInterfaces ----------------------------
(* The machines a person sits in front of: the shell of koded-cli, the     *)
(* text the parser reads, the waitlist's page with its service, and the    *)
(* scripts of the administration and of the API's pages. They do not meet: *)
(* each behaviour is one of one machine, app, and the others stay in their *)
(* initial states, one of them where there are several.                    *)
EXTENDS Repl, Site

CONSTANT MaxLength    (* bound: words of the text                          *)

Machines == {"shell", "text", "waitlist", "changelist", "chooser", "popups",
             "dates", "inlines", "memory", "api"}

VARIABLES
    app,            (* the machine                                          *)
    sentence        (* the text that is parsed                              *)

waitlist == <<joined, joins, site, awaited, totals, editing, mine, storedAt, loads,
              edits, submissions>>
chooser == <<cache, hidden, selected, searches, enabled, warning, known, choosing,
             submitted>>
popups == <<win, related, form, objects, created, opened, cut>>
dates == <<locale, dateValue, calendar, dateBoxes, listening, local, server, openedOn, turns,
           ticks>>
inlineForms == <<layout, rows, totalForms, nextIndex, addShown, deleteShown, filling, submits>>
memory == <<kept, session, page, previous, current, acts>>
apiForm == <<row, others, secret, displayed, address, csrftoken, requests, clicks, losses,
             overlapped, late>>

-----------------------------------------------------------------------------
(* The shell, and a text that grows by any word until the parser has       *)
(* stopped in it.                                                          *)

MCLines ==
    {<<"DROP", "TABLE", "name", ";">>, <<"DROP", "TABLE">>, <<"name", ";">>}

Stopped ==
    \/ Comments(sentence) # {}
    \/ sentence # <<>> /\ Points(sentence)[Len(sentence)] = "stuck"

(* Behind the place where the parser stopped, one semicolon.               *)
NextWords == IF Stopped THEN {";"} \ {sentence[Len(sentence)]} ELSE Words
Lengthen ==
    /\ Len(sentence) < MaxLength
    /\ \E word \in NextWords : sentence' = Append(sentence, word)

-----------------------------------------------------------------------------
(* One browser: a form that is sent again when the answer was lost, so that *)
(* two requests for one email are served side by side, and a blank name.   *)
MCForms ==
    {[email |-> "new", name |-> "name"], [email |-> "known", name |-> "blank"]}

(* A filter that shows two of the options, and one that shows two others.  *)
MCFound(words) ==
    CASE words = "" -> {"a", "ab", "b"} [] words = "a" -> {"a", "ab"} [] words = "b" -> {"b"}

(* The last day of a century's last year but one, and the end of February  *)
(* in a year that is no leap year; an ISO and a short German format.       *)
MCLocales ==
    {[first |-> 0, format |-> <<"Y", "m", "d">>], [first |-> 1, format |-> <<"d", "m", "y">>]}
Days == INSTANCE Dates
MCTodays == {Days!DateUTC(1999, 11, 31), Days!DateUTC(2100, 1, 28)}
MCTyped == {<<2024, Days!NaN>>, <<31, 1, 99>>, <<2023, 2, 30>>}

MCLayouts ==
    [stacked : BOOLEAN, original : {0, 2}, extra : {0, 1}, min : {0, 1}, max : {-1, 3}]

(* Two lists with a filter each, and a text that has to be made lower case *)
(* to leave one row of the sidebar.                                        *)
MCFiltersOf(view) == IF view = "waitlist" THEN {"source"} ELSE {"staff"}
MCLower(text) == IF text = "Us" THEN "us" ELSE text
MCMatches(text) == IF text = "us" THEN {"users"} ELSE {}

-----------------------------------------------------------------------------
MCInit ==
    /\ app \in Machines
    /\ Init /\ sentence = <<>>
    /\ Signup!Init /\ Actions!Init /\ Groups!Init /\ Windows!Init
    /\ Shortcuts!Init /\ Formsets!Init /\ Memory!Init /\ Api!Init
    /\ app # "memory" => kept.theme = "unset"
    /\ app # "api" => row = "a" /\ address = "list"

MCNext ==
    /\ UNCHANGED app
    /\ \/ app = "shell" /\ Next
       \/ app # "shell" /\ UNCHANGED vars
    /\ \/ app = "text" /\ Lengthen
       \/ app # "text" /\ UNCHANGED sentence
    /\ \/ app = "waitlist" /\ Signup!Next
       \/ app # "waitlist" /\ UNCHANGED waitlist
    /\ \/ app = "changelist" /\ Actions!Next
       \/ app # "changelist" /\ UNCHANGED changes
    /\ \/ app = "chooser" /\ Groups!Next
       \/ app # "chooser" /\ UNCHANGED chooser
    /\ \/ app = "popups" /\ Windows!Next
       \/ app # "popups" /\ UNCHANGED popups
    /\ \/ app = "dates" /\ Shortcuts!Next
       \/ app # "dates" /\ UNCHANGED dates
    /\ \/ app = "inlines" /\ Formsets!Next
       \/ app # "inlines" /\ UNCHANGED inlineForms
    /\ \/ app = "memory" /\ Memory!Next
       \/ app # "memory" /\ UNCHANGED memory
    /\ \/ app = "api" /\ Api!Next
       \/ app # "api" /\ UNCHANGED apiForm

MCVars == <<app, vars, sentence, waitlist, changes, chooser, popups, dates, inlineForms,
            memory, apiForm>>
MCSpec ==
    /\ MCInit /\ [][MCNext]_MCVars
    /\ WF_vars(app = "shell" /\ Wait) /\ Signup!Fairness

-----------------------------------------------------------------------------
(* What the parser makes a statement of is a statement of SQL as its       *)
(* comments have it, also when the text goes on behind it; it refuses no   *)
(* such statement, and does not stop in one.                               *)
TakesTheSentences ==
    app = "text" =>
        /\ Accepted(sentence) => Statement(sentence) \in Texts
        /\ sentence \in Beginnings => Points(sentence)[Len(sentence)] # "stuck"
        /\ sentence \in Texts => Accepted(sentence)

(* sendQueryWithTimeout: the shell answers whatever is asked of it.        *)
(* handleFormSubmit: the button does not stay at "Processing...".          *)
NobodyWaitsForEver == EveryQuestionEnds /\ Signup!EverySubmissionEnds
=============================================================================
