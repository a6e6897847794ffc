-------------------------------- MODULE Repl --------------------------------
(***************************************************************************)
(* The SQL shell of koded-cli (cmd/db.go, "koded db") and the connections  *)
(* it has to a KodedDB server (api/server.go).                             *)
(*                                                                         *)
(* The shell collects lines until one ends with a semicolon, sends the     *)
(* text, and reads one answer for it. When none comes, because the         *)
(* connection is gone or 30 seconds have passed, it connects anew and      *)
(* sends the text once more. The old connection is not closed, and the     *)
(* server goes on with what it has read from it.                           *)
(*                                                                         *)
(* A statement is its number; what the server makes of its text is         *)
(* decided by SQLText. Commands (.tables, .ping, .stats, .flush) have the  *)
(* number 0. What a statement does to the tables is SQLServer's.           *)
(***************************************************************************)
EXTENDS SQLText, FiniteSets

CONSTANTS
    Lines,           (* lines that are typed, as words                      *)
    MaxWords,        (* bound: words of a statement                         *)
    MaxStatements,   (* bound: statements                                   *)
    MaxCommands,     (* bound: commands                                     *)
    MaxConnections   (* bound: connections                                  *)

ASSUME LinesAreTexts == Lines \subseteq Seq(Words) \ {<<>>}
ASSUME Bounds ==
    /\ {MaxWords, MaxStatements, MaxCommands} \subseteq Nat
    /\ MaxConnections \in Nat \ {0}

Statements == 1..MaxStatements
Connections == 1..MaxConnections

VARIABLES
    phase,      (* what the shell is doing                                  *)
    typed,      (* multiLine: the words typed, and sql until it is answered *)
    statement,  (* the number of the last statement                         *)
    commands,   (* commands so far                                          *)
    offline,    (* the shell has no server                                  *)
    conn,       (* the connection in use, 0 for none                        *)
    dialled,    (* connections so far                                       *)
    reads,      (* its scanner has not met an error yet                     *)
    link,       (* each connection: is it up, what is on its way            *)
    serving,    (* the server is up                                         *)
    ran,        (* history: the connections each statement was executed for *)
    repeated,   (* history: the statements sent twice                       *)
    shown       (* the last answer shown, and what it was shown for         *)

shell == <<phase, typed, statement, commands, offline, conn, dialled, reads>>
vars == <<shell, link, serving, ran, repeated, shown>>

NoLink == [up |-> FALSE, requests |-> <<>>, answers |-> <<>>]

Init ==
    /\ phase = "starting" /\ typed = <<>>
    /\ statement = 0 /\ commands = 0
    /\ offline = FALSE /\ conn = 0 /\ dialled = 0 /\ reads = FALSE
    /\ link = [c \in Connections |-> NoLink]
    /\ serving = TRUE
    /\ ran = [s \in Statements |-> {}] /\ repeated = {}
    /\ shown = [asked |-> 0, answered |-> 0, ok |-> TRUE]

-----------------------------------------------------------------------------
(* Connections. *)

(* dialDB. That the banner did not come is not looked at, but a scanner    *)
(* that met the deadline reads nothing any more.                           *)
Dial(requests) ==
    /\ serving /\ dialled < MaxConnections
    /\ dialled' = dialled + 1 /\ conn' = dialled + 1
    /\ link' = [link EXCEPT ![dialled + 1] =
                    [up |-> TRUE, requests |-> requests, answers |-> <<>>]]
    /\ reads' \in BOOLEAN
    /\ UNCHANGED offline

(* The server is down, out of reach or slow: there is no way back. *)
DialFails ==
    /\ offline' = TRUE /\ conn' = 0 /\ reads' = FALSE
    /\ UNCHANGED <<dialled, link>>

Start ==
    /\ phase = "starting"
    /\ phase' = "typing"
    /\ Dial(<<>>) \/ DialFails
    /\ UNCHANGED <<typed, statement, commands, serving, ran, repeated, shown>>

(* A request is written even if its answer cannot be read any more.        *)
Send(request) ==
    link' = IF link[conn].up
            THEN [link EXCEPT ![conn].requests = Append(@, request)]
            ELSE link

-----------------------------------------------------------------------------
(* Typing. *)

Complete == phase = "typing" /\ typed # <<>> /\ typed[Len(typed)] = ";"

(* A line; the loop adds it to what is there (and a space, not a newline). *)
Type(line) ==
    /\ phase = "typing" /\ statement < MaxStatements /\ ~Complete
    /\ Len(typed) + Len(line) <= MaxWords
    /\ typed' = typed \o line
    /\ UNCHANGED <<phase, statement, commands, offline, conn, dialled, reads>>
    /\ UNCHANGED <<link, serving, ran, repeated, shown>>

Request(s) == [statement |-> s, accepted |-> Accepted(typed)]

(* A line ended with a semicolon. *)
Ask ==
    /\ Complete /\ typed # <<";">> /\ ~offline
    /\ Send(Request(statement + 1))
    /\ phase' = "waiting" /\ statement' = statement + 1
    /\ UNCHANGED <<typed, commands, offline, conn, dialled, reads>>
    /\ UNCHANGED <<serving, ran, repeated, shown>>

(* A lone semicolon, or no server to ask. *)
Forget ==
    /\ Complete /\ (typed = <<";">> \/ offline)
    /\ typed' = <<>>
    /\ UNCHANGED <<phase, statement, commands, offline, conn, dialled, reads>>
    /\ UNCHANGED <<link, serving, ran, repeated, shown>>

(* handleMeta. The words typed so far stay. *)
Command ==
    /\ phase = "typing" /\ ~Complete /\ ~offline /\ commands < MaxCommands
    /\ Send([statement |-> 0, accepted |-> TRUE])
    /\ phase' = "commanding" /\ commands' = commands + 1
    /\ UNCHANGED <<typed, statement, offline, conn, dialled, reads>>
    /\ UNCHANGED <<serving, ran, repeated, shown>>

Exit ==
    /\ phase = "typing" /\ ~Complete
    /\ phase' = "ended"
    /\ UNCHANGED <<typed, statement, commands, offline, conn, dialled, reads>>
    /\ UNCHANGED <<link, serving, ran, repeated, shown>>

-----------------------------------------------------------------------------
(* Waiting for an answer. *)

Asking == phase \in {"commanding", "waiting", "again"}
Asked == IF phase = "commanding" THEN 0 ELSE statement

Show(ok) ==
    /\ shown' = [asked |-> Asked, answered |-> Head(link[conn].answers).statement,
                 ok |-> ok]
    /\ link' = [link EXCEPT ![conn].answers = Tail(@)]
    /\ typed' = IF phase = "commanding" THEN typed ELSE <<>>
    /\ phase' = "typing"
    /\ UNCHANGED <<statement, commands, offline, conn, dialled>>
    /\ UNCHANGED <<serving, ran, repeated>>

ReadAnswer ==
    /\ Asking /\ reads /\ link[conn].answers # <<>>
    /\ Show(Head(link[conn].answers).ok)
    /\ UNCHANGED reads

(* The deadline passes, or the connection breaks, in the middle of an      *)
(* answer: the part that is there is taken for a line, does not parse, and *)
(* is shown as a failure without a reason.                                 *)
ReadPart ==
    /\ Asking /\ reads /\ link[conn].answers # <<>>
    /\ Show(FALSE)
    /\ reads' = FALSE

(* No answer: the connection is gone, the deadline has passed, the answer  *)
(* is longer than a scanner takes, or the scanner met an error before. A   *)
(* command reports it. A statement is sent again, and the second time      *)
(* there is no answer to render and the shell dies.                        *)
GiveUpWith(scanner) ==
    /\ Asking
    /\ reads' = scanner
    /\ phase' = CASE phase = "commanding" -> "typing"
                  [] phase = "waiting" -> "redialling"
                  [] phase = "again" -> "died"
    /\ UNCHANGED <<typed, statement, commands, offline, conn, dialled>>
    /\ UNCHANGED <<link, serving, ran, repeated, shown>>

(* Mutants: a new scanner for each answer; no deadline. *)
GiveUpWithNewScanner == GiveUpWith(TRUE)
GiveUpWhenClosed == Asking /\ ~link[conn].up /\ GiveUpWith(FALSE)
GiveUp == GiveUpWith(FALSE)

RedialThen(next) ==
    /\ phase = "redialling"
    /\ Dial(<<Request(statement)>>)
    /\ phase' = next
    /\ repeated' = repeated \cup {statement}
    /\ UNCHANGED <<typed, statement, commands, serving, ran, shown>>

(* Mutant: it reconnects until there is an answer. *)
RedialAgain == RedialThen("waiting")
Redial == RedialThen("again")

RedialFails ==
    /\ phase = "redialling"
    /\ DialFails
    /\ phase' = "typing" /\ typed' = <<>>
    /\ UNCHANGED <<statement, commands, serving, ran, repeated, shown>>

-----------------------------------------------------------------------------
(* The server: handleConn of one connection, one request at a time. It     *)
(* goes on with what it has read when the client is gone. A statement that *)
(* parses may still fail.                                                  *)
Serve(c) ==
    /\ serving /\ link[c].requests # <<>>
    /\ LET r == Head(link[c].requests)
       IN \E ok \in {r.accepted, FALSE} :
           /\ ran' = [s \in Statements |->
                        IF s = r.statement /\ r.accepted THEN ran[s] \cup {c} ELSE ran[s]]
           /\ link' = [link EXCEPT
                        ![c].requests = Tail(@),
                        ![c].answers =
                            IF link[c].up
                            THEN Append(@, [statement |-> r.statement, ok |-> ok])
                            ELSE @]
    /\ UNCHANGED <<shell, serving, repeated, shown>>

(* A connection breaks: what is on its way is lost, all or in part.        *)
Broken(l, requests) ==
    {[up |-> FALSE, requests |-> r, answers |-> a] :
        r \in requests, a \in {l.answers, <<>>}}

Break(c) ==
    /\ link[c].up
    /\ \E l \in Broken(link[c], {link[c].requests, <<>>}) : link' = [link EXCEPT ![c] = l]
    /\ UNCHANGED <<shell, serving, ran, repeated, shown>>

(* The server dies, and its connections with it. *)
Crash ==
    /\ serving
    /\ serving' = FALSE
    /\ link' \in [Connections -> UNION {Broken(link[c], {<<>>}) : c \in Connections}]
    /\ \A c \in Connections : link'[c] \in Broken(link[c], {<<>>})
    /\ UNCHANGED <<shell, ran, repeated, shown>>

Restart ==
    /\ ~serving
    /\ serving' = TRUE
    /\ UNCHANGED <<shell, link, ran, repeated, shown>>

-----------------------------------------------------------------------------
Wait == ReadAnswer \/ ReadPart \/ GiveUp \/ Redial \/ RedialFails

Next ==
    \/ Start \/ Ask \/ Forget \/ Command \/ Exit
    \/ \E line \in Lines : Type(line)
    \/ Wait
    \/ \E c \in Connections : Serve(c) \/ Break(c)
    \/ Crash \/ Restart

Spec == Init /\ [][Next]_vars

(* Reads have a deadline; of the server nothing is assumed.                *)
FairSpec == Spec /\ WF_vars(Wait)

-----------------------------------------------------------------------------
Requests == [statement : 0..MaxStatements, accepted : BOOLEAN]
Answers == [statement : 0..MaxStatements, ok : BOOLEAN]
Links == [up : BOOLEAN, requests : Seq(Requests), answers : Seq(Answers)]

TypeOK ==
    /\ phase \in {"starting", "typing", "commanding", "waiting", "redialling",
                  "again", "ended", "died"}
    /\ typed \in Seq(Words)
    /\ statement \in 0..MaxStatements /\ commands \in 0..MaxCommands
    /\ offline \in BOOLEAN /\ reads \in BOOLEAN /\ serving \in BOOLEAN
    /\ conn \in 0..dialled /\ dialled \in 0..MaxConnections
    /\ link \in [Connections -> Links]
    /\ ran \in [Statements -> SUBSET Connections]
    /\ repeated \subseteq Statements
    /\ shown \in [asked : 0..MaxStatements, answered : 0..MaxStatements, ok : BOOLEAN]

(* What is shown as the answer to a statement is the server's answer to    *)
(* that statement, and not a late one to another: after an error the       *)
(* scanner of a connection is never read again (db.go, send and runDB).    *)
(* A statement shown as done was executed.                                 *)
ShowsItsAnswer ==
    /\ shown.asked = shown.answered
    /\ shown.asked # 0 /\ shown.ok => ran[shown.asked] # {}

(* No statement is executed more than twice, and twice only if the shell   *)
(* had given it up and sent it again on a new connection. Statements are   *)
(* executed in the order they were typed in, except for those sent twice,  *)
(* whose first copy may still come late.                                   *)
RunsAsTyped ==
    [][\A s \in Statements : ran'[s] # ran[s] =>
         /\ Cardinality(ran'[s]) <= IF s \in repeated THEN 2 ELSE 1
         /\ s \notin repeated =>
                \A later \in Statements : later > s => ran[later] = {}]_vars

(* The shell does not hang on a server that does not answer.               *)
EveryQuestionEnds == Asking \/ phase = "redialling" ~> phase \in {"typing", "died"}
=============================================================================
