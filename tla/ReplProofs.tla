----------------------------- MODULE ReplProofs -----------------------------
(***************************************************************************)
(* What holds of the shell for any number of statements, commands and      *)
(* connections, and whatever is typed: an answer is never taken for one to *)
(* another question.                                                       *)
(***************************************************************************)
EXTENDS Repl, SequenceTheorems, FiniteSetTheorems, TLAPS

(* A shell that is not offline has a connection once it has started, ...   *)
Connected ==
    /\ phase # "starting" /\ ~offline => conn \in Connections
    /\ phase = "starting" => ~reads
    /\ reads => conn \in Connections
    /\ phase \in {"commanding", "waiting", "again"} => conn \in Connections
    /\ phase = "redialling" => ~reads /\ statement \in Statements
    /\ phase \in {"waiting", "again"} => statement \in Statements

(* ... what is typed is for a further statement, ...                       *)
ForTheNext ==
    phase \in {"starting", "typing", "commanding"} /\ typed # <<>> => statement < MaxStatements

(* ... and while its scanner reads, nothing is on its way but the question *)
(* asked, or the answer to it.                                             *)
Quiet(l) == l.requests = <<>> /\ l.answers = <<>>
OnlyOn(l, number) ==
    \/ Quiet(l)
    \/ l.answers = <<>> /\ \E r \in Requests : r.statement = number /\ l.requests = <<r>>
    \/ l.requests = <<>> /\ \E a \in Answers : a.statement = number /\ l.answers = <<a>>
OneAtATime == reads => IF Asking THEN OnlyOn(link[conn], Asked) ELSE Quiet(link[conn])

(* An answer that says so is one to a statement that was executed.         *)
AllTrue(answers, done) ==
    \A i \in DOMAIN answers :
        answers[i].ok /\ answers[i].statement # 0 => done[answers[i].statement] # {}
Truthful == \A c \in Connections : AllTrue(link[c].answers, ran)

IInv == TypeOK /\ Connected /\ ForTheNext /\ OneAtATime /\ Truthful /\ ShowsItsAnswer

-----------------------------------------------------------------------------
(* Types.                                                                  *)

LEMMA Numbers ==
    /\ MaxWords \in Nat /\ MaxStatements \in Nat /\ MaxCommands \in Nat
    /\ MaxConnections \in Nat /\ MaxConnections # 0
  BY Bounds

LEMMA InitTypes == Init => TypeOK
  <1> SUFFICES ASSUME Init PROVE TypeOK
    OBVIOUS
  <1>1. NoLink \in Links
    BY DEF NoLink, Links
  <1>2. ran \in [Statements -> SUBSET Connections]
    BY DEF Init
  <1>3. /\ 0 \in 0..MaxStatements /\ 0 \in 0..MaxCommands /\ 0 \in 0..MaxConnections
        /\ 0 \in 0..0
    BY Numbers
  <1>4. [asked |-> 0, answered |-> 0, ok |-> TRUE] \in
            [asked : 0..MaxStatements, answered : 0..MaxStatements, ok : BOOLEAN]
    BY <1>3
  <1>5. typed \in Seq(Words)
    BY DEF Init
  <1> QED  BY <1>1, <1>2, <1>3, <1>4, <1>5 DEF Init, TypeOK

(* A new connection, with the requests that are sent at once.              *)
LEMMA DialTypes ==
    ASSUME TypeOK, NEW requests \in Seq(Requests), Dial(requests) \/ DialFails
    PROVE  /\ link' \in [Connections -> Links]
           /\ conn' \in 0..dialled' /\ dialled' \in 0..MaxConnections
           /\ offline' \in BOOLEAN /\ reads' \in BOOLEAN
  <1>1. CASE Dial(requests)
    <2>1. dialled + 1 \in Connections /\ dialled' = dialled + 1 /\ conn' = dialled + 1
      BY <1>1, Numbers DEF Dial, TypeOK, Connections
    <2>2. [up |-> TRUE, requests |-> requests, answers |-> <<>>] \in Links
      BY DEF Links
    <2>3. link' \in [Connections -> Links]
      BY <1>1, <2>2 DEF Dial, TypeOK
    <2> QED  BY <1>1, <2>1, <2>3, Numbers DEF Dial, TypeOK, Connections
  <1>2. CASE DialFails
    <2>1. /\ offline' = TRUE /\ conn' = 0 /\ reads' = FALSE
          /\ dialled' = dialled /\ link' = link
      BY <1>2 DEF DialFails
    <2>2. dialled \in 0..MaxConnections /\ 0 \in 0..dialled
      BY Numbers DEF TypeOK
    <2> QED  BY <2>1, <2>2 DEF TypeOK
  <1> QED  BY <1>1, <1>2

LEMMA SendTypes ==
    ASSUME TypeOK, conn \in Connections, NEW request \in Requests, Send(request)
    PROVE  link' \in [Connections -> Links]
  <1>1. link[conn] \in Links /\ link \in [Connections -> Links]
    BY DEF TypeOK
  <1>2. Append(link[conn].requests, request) \in Seq(Requests)
    BY <1>1 DEF Links
  <1>3. [link[conn] EXCEPT !.requests = Append(@, request)] \in Links
    BY <1>1, <1>2 DEF Links
  <1>4. link' \in {link, [link EXCEPT ![conn] =
                             [link[conn] EXCEPT !.requests = Append(@, request)]]}
    BY DEF Send
  <1> QED  BY <1>1, <1>3, <1>4

LEMMA RequestTypes == ASSUME NEW s \in Statements PROVE Request(s) \in Requests
  <1>1. Accepted(typed) \in BOOLEAN
    BY DEF Accepted
  <1>2. s \in 0..MaxStatements
    BY Numbers DEF Statements
  <1> QED  BY <1>1, <1>2 DEF Request, Requests

(* What breaks, all or in part, is what was there.                         *)
LEMMA BrokenTypes ==
    ASSUME NEW l \in Links, NEW broken \in Broken(l, {l.requests, <<>>}) \cup Broken(l, {<<>>})
    PROVE  /\ broken \in Links
           /\ broken.requests \in {l.requests, <<>>} /\ broken.answers \in {l.answers, <<>>}
  <1>1. PICK r \in {l.requests, <<>>}, a \in {l.answers, <<>>} :
            broken = [up |-> FALSE, requests |-> r, answers |-> a]
    BY DEF Broken
  <1>2. r \in Seq(Requests) /\ a \in Seq(Answers)
    <2>1. l.requests \in Seq(Requests) /\ l.answers \in Seq(Answers)
      BY DEF Links
    <2>2. <<>> \in Seq(Requests) /\ <<>> \in Seq(Answers)
      OBVIOUS
    <2> QED  BY <2>1, <2>2
  <1>3. broken.requests = r /\ broken.answers = a
    BY <1>1
  <1> QED  BY <1>1, <1>2, <1>3 DEF Links

LEMMA ServeLink ==
    ASSUME TypeOK, NEW c \in Connections, Serve(c)
    PROVE  LET r == Head(link[c].requests)
           IN  /\ r \in Requests
               /\ \A d \in Connections \ {c} : link'[d] = link[d]
               /\ link' \in [Connections -> Links]
               /\ link'[c].requests = Tail(link[c].requests)
               /\ \E ok \in {r.accepted, FALSE} :
                      link'[c].answers \in
                          {link[c].answers,
                           Append(link[c].answers, [statement |-> r.statement, ok |-> ok])}
               /\ ran' = [s \in Statements |->
                    IF s = r.statement /\ r.accepted THEN ran[s] \cup {c} ELSE ran[s]]
  <1> DEFINE r == Head(link[c].requests)
  <1>1. link[c] \in Links /\ link \in [Connections -> Links]
    BY DEF TypeOK
  <1>2. link[c].requests \in Seq(Requests) /\ link[c].requests # <<>>
    BY <1>1 DEF Links, Serve
  <1>3. r \in Requests /\ Tail(link[c].requests) \in Seq(Requests)
    BY <1>2
  <1>4. PICK ok \in {r.accepted, FALSE} :
            /\ ran' = [s \in Statements |->
                    IF s = r.statement /\ r.accepted THEN ran[s] \cup {c} ELSE ran[s]]
            /\ link' = [link EXCEPT
                    ![c].requests = Tail(@),
                    ![c].answers =
                        IF link[c].up
                        THEN Append(@, [statement |-> r.statement, ok |-> ok])
                        ELSE @]
    BY DEF Serve
  <1>5. [statement |-> r.statement, ok |-> ok] \in Answers
    BY <1>3 DEF Requests, Answers
  <1> DEFINE answers == IF link[c].up
                        THEN Append(link[c].answers, [statement |-> r.statement, ok |-> ok])
                        ELSE link[c].answers
  <1>6. answers \in Seq(Answers)
    BY <1>1, <1>5 DEF Links
  <1> DEFINE served == [link[c] EXCEPT !.requests = Tail(link[c].requests), !.answers = answers]
  <1>7. link' = [link EXCEPT ![c] = served]
    BY <1>1, <1>4 DEF Links
  <1> HIDE DEF answers
  <1>8. served \in Links /\ served.requests = Tail(link[c].requests) /\ served.answers = answers
    BY <1>1, <1>3, <1>6 DEF Links
  <1> HIDE DEF served, r
  <1>9. link' \in [Connections -> Links] /\ link'[c] = served
        /\ \A d \in Connections \ {c} : link'[d] = link[d]
    BY <1>1, <1>7, <1>8
  <1> QED  BY <1>3, <1>4, <1>8, <1>9 DEF answers, r

-----------------------------------------------------------------------------
(* Answers stay true: others come or go, and what was executed stays so.   *)

LEMMA AppendedIsTrue ==
    ASSUME NEW answers \in Seq(Answers), NEW done, AllTrue(answers, done),
           NEW answer \in Answers, answer.ok /\ answer.statement # 0 => done[answer.statement] # {}
    PROVE  AllTrue(Append(answers, answer), done)
  BY DEF AllTrue

LEMMA RestIsTrue ==
    ASSUME NEW answers \in Seq(Answers), answers # <<>>, NEW done, AllTrue(answers, done)
    PROVE  AllTrue(Tail(answers), done)
  <1>1. Tail(answers) \in Seq(Answers) /\ Len(Tail(answers)) = Len(answers) - 1
        /\ \A i \in 1..Len(Tail(answers)) : Tail(answers)[i] = answers[i + 1]
    BY HeadTailProperties
  <1>2. DOMAIN Tail(answers) = 1..Len(Tail(answers)) /\ DOMAIN answers = 1..Len(answers)
        /\ Len(answers) \in Nat
    BY <1>1, LenProperties
  <1> HIDE DEF AllTrue
  <1>3. \A i \in DOMAIN Tail(answers) : i + 1 \in DOMAIN answers
                                        /\ Tail(answers)[i] = answers[i + 1]
    BY <1>1, <1>2
  <1> QED  BY <1>3 DEF AllTrue

LEMMA LaterIsTrue ==
    ASSUME TypeOK, NEW answers \in Seq(Answers), AllTrue(answers, ran),
           \A s \in Statements : ran[s] \subseteq ran'[s]
    PROVE  AllTrue(answers, ran')
  <1>1. ASSUME NEW i \in DOMAIN answers, answers[i].ok, answers[i].statement # 0
        PROVE  ran'[answers[i].statement] # {}
    <2>1. answers[i] \in Answers
      BY ElementOfSeq, LenProperties
    <2>2. answers[i].statement \in Statements
      BY <2>1, <1>1, Numbers DEF Answers, Statements
    <2>3. ran[answers[i].statement] # {}
      BY <1>1 DEF AllTrue
    <2> QED  BY <2>2, <2>3
  <1> QED  BY <1>1 DEF AllTrue

(* The link of the connection in use may change, with answers that are     *)
(* true, and the others have no new answers.                               *)
LEMMA LinksStayTrue ==
    ASSUME Truthful, NEW c \in Connections, AllTrue(link'[c].answers, ran), ran' = ran,
           \A d \in Connections \ {c} : link'[d].answers = link[d].answers
    PROVE  Truthful'
  BY DEF Truthful

-----------------------------------------------------------------------------
LEMMA InitInv == Init => IInv
  <1> SUFFICES ASSUME Init PROVE IInv
    OBVIOUS
  <1>1. TypeOK
    BY InitTypes
  <1>2. Connected /\ ForTheNext /\ OneAtATime
    BY DEF Init, Connected, ForTheNext, OneAtATime
  <1>3. Truthful
    BY DEF Init, NoLink, Truthful, AllTrue
  <1>4. ShowsItsAnswer
    BY DEF Init, ShowsItsAnswer
  <1> QED  BY <1>1, <1>2, <1>3, <1>4 DEF IInv

(* A new connection carries what is sent at once, and no answer.           *)
LEMMA DialKeeps ==
    ASSUME TypeOK, Truthful, NEW requests \in Seq(Requests), Dial(requests) \/ DialFails,
           UNCHANGED <<ran, shown>>
    PROVE  /\ Truthful'
           /\ reads' => /\ conn' \in Connections
                        /\ link'[conn'].requests = requests /\ link'[conn'].answers = <<>>
           /\ ~offline' => conn' \in Connections
  <1>1. CASE Dial(requests)
    <2>1. dialled + 1 \in Connections /\ conn' = dialled + 1 /\ offline' = offline
      BY <1>1, Numbers DEF Dial, TypeOK, Connections
    <2>2. link' = [link EXCEPT ![dialled + 1] =
                     [up |-> TRUE, requests |-> requests, answers |-> <<>>]]
      BY <1>1 DEF Dial
    <2> DEFINE c == dialled + 1
    <2>3. link'[c].requests = requests /\ link'[c].answers = <<>>
      BY <2>1, <2>2 DEF TypeOK
    <2>4. \A d \in Connections \ {c} : link'[d] = link[d]
      BY <2>1, <2>2 DEF TypeOK
    <2>5. AllTrue(link'[c].answers, ran)
      BY <2>3 DEF AllTrue
    <2> HIDE DEF c
    <2>6. Truthful'
      BY <2>1, <2>4, <2>5, LinksStayTrue DEF c
    <2> QED  BY <2>1, <2>3, <2>6 DEF c
  <1>2. CASE DialFails
    BY <1>2 DEF DialFails, Truthful
  <1> QED  BY <1>1, <1>2

(* A question is sent on a connection that is quiet if it is read.         *)
LEMMA SendKeeps ==
    ASSUME IInv, conn \in Connections, NEW request \in Requests, Send(request),
           UNCHANGED <<ran, conn>>, ~Asking
    PROVE  /\ Truthful'
           /\ reads => OnlyOn(link'[conn'], request.statement)
  <1> DEFINE sent == [link[conn] EXCEPT !.requests = Append(link[conn].requests, request)]
  <1>1. link[conn] \in Links /\ link \in [Connections -> Links]
    BY DEF IInv, TypeOK
  <1>2. link' = link \/ link' = [link EXCEPT ![conn] = sent]
    BY DEF Send
  <1>3. /\ sent.answers = link[conn].answers
        /\ sent.requests = Append(link[conn].requests, request)
    BY <1>1 DEF Links
  <1> HIDE DEF sent
  <1>4. /\ link'[conn] = link[conn] \/ link'[conn] = sent
        /\ \A d \in Connections \ {conn} : link'[d].answers = link[d].answers
    BY <1>1, <1>2
  <1>5. Truthful'
    BY <1>3, <1>4, LinksStayTrue DEF IInv, Truthful
  <1>6. ASSUME reads PROVE OnlyOn(link'[conn], request.statement)
    <2>1. Quiet(link[conn])
      BY <1>6 DEF IInv, OneAtATime
    <2>2. CASE link'[conn] = link[conn]
      BY <2>1, <2>2 DEF OnlyOn
    <2>3. CASE link'[conn] = sent
      <3>1. sent.requests = <<request>> /\ sent.answers = <<>>
        BY <2>1, <1>3 DEF Quiet
      <3> QED  BY <2>3, <3>1 DEF OnlyOn
    <2> QED  BY <2>2, <2>3, <1>4
  <1> QED  BY <1>5, <1>6

-----------------------------------------------------------------------------
(* The steps of the shell.                                                 *)

LEMMA StartKeeps == ASSUME IInv, Start PROVE IInv'
  <1>1. <<>> \in Seq(Requests) /\ (Dial(<<>>) \/ DialFails)
    BY DEF Start
  <1>2. /\ phase = "starting" /\ phase' = "typing"
        /\ UNCHANGED <<typed, statement, commands, serving, ran, repeated, shown>>
    BY DEF Start
  <1>3. TypeOK'
    BY <1>1, <1>2, DialTypes DEF IInv, TypeOK
  <1>4. /\ Truthful' /\ (~offline' => conn' \in Connections)
        /\ reads' => conn' \in Connections /\ Quiet(link'[conn'])
    BY <1>1, <1>2, DialKeeps DEF IInv, Quiet
  <1>5. Connected' /\ OneAtATime'
    BY <1>2, <1>4 DEF Connected, OneAtATime, Asking
  <1>6. ForTheNext'
    BY <1>2 DEF IInv, ForTheNext
  <1> QED  BY <1>2, <1>3, <1>4, <1>5, <1>6 DEF IInv, ShowsItsAnswer

LEMMA TypeKeeps == ASSUME IInv, NEW line \in Lines, Type(line) PROVE IInv'
  <1>1. /\ UNCHANGED <<phase, statement, commands, offline, conn, dialled, reads>>
        /\ UNCHANGED <<link, serving, ran, repeated, shown>>
        /\ statement < MaxStatements /\ typed' = typed \o line
    BY DEF Type
  <1>2. typed' \in Seq(Words)
    <2>1. line \in Seq(Words) /\ typed \in Seq(Words)
      BY LinesAreTexts DEF IInv, TypeOK
    <2> QED  BY <1>1, <2>1, ConcatProperties
  <1>3. TypeOK'
    BY <1>1, <1>2 DEF IInv, TypeOK
  <1>4. Connected' /\ ForTheNext' /\ OneAtATime'
    BY <1>1 DEF IInv, Connected, ForTheNext, OneAtATime, Asking, Asked
  <1> QED  BY <1>1, <1>3, <1>4 DEF IInv, Truthful, ShowsItsAnswer

LEMMA ForgetKeeps == ASSUME IInv, Forget \/ Exit PROVE IInv'
  <1>1. /\ UNCHANGED <<statement, commands, offline, conn, dialled, reads>>
        /\ UNCHANGED <<link, serving, ran, repeated, shown>>
        /\ phase = "typing" /\ phase' \in {"typing", "ended"} /\ typed' \in {typed, <<>>}
    BY DEF Forget, Exit, Complete
  <1>2. typed' \in Seq(Words)
    <2>1. typed \in Seq(Words) /\ <<>> \in Seq(Words)
      BY DEF IInv, TypeOK
    <2> QED  BY <1>1, <2>1
  <1>3. TypeOK'
    BY <1>1, <1>2 DEF IInv, TypeOK
  <1>4. Connected' /\ ForTheNext' /\ OneAtATime'
    BY <1>1 DEF IInv, Connected, ForTheNext, OneAtATime, Asking
  <1> QED  BY <1>1, <1>3, <1>4 DEF IInv, Truthful, ShowsItsAnswer

LEMMA AskKeeps == ASSUME IInv, Ask PROVE IInv'
  <1>1. /\ Send(Request(statement + 1)) /\ phase = "typing" /\ ~offline /\ typed # <<>>
        /\ phase' = "waiting" /\ statement' = statement + 1
        /\ UNCHANGED <<typed, commands, offline, conn, dialled, reads>>
        /\ UNCHANGED <<serving, ran, repeated, shown>>
    BY DEF Ask, Complete
  <1>2. conn \in Connections /\ ~Asking
    BY <1>1 DEF IInv, Connected, Asking
  <1>3. statement + 1 \in Statements /\ statement + 1 \in 0..MaxStatements
    BY <1>1, Numbers DEF IInv, TypeOK, ForTheNext, Statements
  <1>4. Request(statement + 1) \in Requests /\ Request(statement + 1).statement = statement + 1
    BY <1>3, RequestTypes DEF Request
  <1>5. link' \in [Connections -> Links]
    BY <1>1, <1>2, <1>4, SendTypes DEF IInv
  <1>6. TypeOK'
    BY <1>1, <1>3, <1>5 DEF IInv, TypeOK
  <1>7. Truthful' /\ (reads => OnlyOn(link'[conn'], statement'))
    BY <1>1, <1>2, <1>4, SendKeeps
  <1>8. Connected' /\ ForTheNext' /\ OneAtATime'
    BY <1>1, <1>2, <1>3, <1>7 DEF IInv, Connected, ForTheNext, OneAtATime, Asking, Asked
  <1> QED  BY <1>1, <1>6, <1>7, <1>8 DEF IInv, ShowsItsAnswer

LEMMA CommandKeeps == ASSUME IInv, Command PROVE IInv'
  <1> DEFINE request == [statement |-> 0, accepted |-> TRUE]
  <1>1. /\ Send(request) /\ phase = "typing" /\ ~offline
        /\ phase' = "commanding" /\ commands < MaxCommands /\ commands' = commands + 1
        /\ UNCHANGED <<typed, statement, offline, conn, dialled, reads>>
        /\ UNCHANGED <<serving, ran, repeated, shown>>
    BY DEF Command
  <1>2. conn \in Connections /\ ~Asking
    BY <1>1 DEF IInv, Connected, Asking
  <1>3. request \in Requests /\ request.statement = 0
    BY Numbers DEF Requests
  <1> HIDE DEF request
  <1>4. link' \in [Connections -> Links]
    BY <1>1, <1>2, <1>3, SendTypes DEF IInv
  <1>5. commands' \in 0..MaxCommands
    BY <1>1, Numbers DEF IInv, TypeOK
  <1>6. TypeOK'
    BY <1>1, <1>4, <1>5 DEF IInv, TypeOK
  <1>7. Truthful' /\ (reads => OnlyOn(link'[conn'], 0))
    BY <1>1, <1>2, <1>3, SendKeeps
  <1>8. Connected' /\ ForTheNext' /\ OneAtATime'
    BY <1>1, <1>2, <1>7 DEF IInv, Connected, ForTheNext, OneAtATime, Asking, Asked
  <1> QED  BY <1>1, <1>6, <1>7, <1>8 DEF IInv, ShowsItsAnswer

(* The only answer there is, is to the question asked.                     *)
LEMMA ShowKeeps ==
    ASSUME IInv, Asking, reads, link[conn].answers # <<>>, NEW ok \in BOOLEAN, Show(ok),
           ok => Head(link[conn].answers).ok, reads' \in BOOLEAN
    PROVE  IInv'
  <1> DEFINE answer == Head(link[conn].answers)
             read == [link[conn] EXCEPT !.answers = Tail(@)]
  <1>1. /\ shown' = [asked |-> Asked, answered |-> answer.statement, ok |-> ok]
        /\ link' = [link EXCEPT ![conn] = read]
        /\ typed' = IF phase = "commanding" THEN typed ELSE <<>>
        /\ phase' = "typing"
        /\ UNCHANGED <<statement, commands, offline, conn, dialled>>
        /\ UNCHANGED <<serving, ran, repeated>>
    BY DEF Show
  <1>2. conn \in Connections /\ link \in [Connections -> Links] /\ link[conn] \in Links
    BY DEF IInv, TypeOK, Connected
  <1>3. PICK a \in Answers : a.statement = Asked /\ link[conn].answers = <<a>>
                             /\ link[conn].requests = <<>>
    BY DEF IInv, OneAtATime, OnlyOn, Quiet
  <1>4. answer = a /\ Tail(link[conn].answers) = <<>>
    BY <1>3
  <1>5. read.requests = <<>> /\ read.answers = <<>> /\ read \in Links
    BY <1>2, <1>3, <1>4 DEF Links
  <1> HIDE DEF answer, read
  <1>6. /\ link'[conn] = read /\ link' \in [Connections -> Links]
        /\ \A d \in Connections \ {conn} : link'[d].answers = link[d].answers
    BY <1>1, <1>2, <1>5
  <1>7. a.ok /\ a.statement # 0 => ran[a.statement] # {}
    <2>1. 1 \in DOMAIN link[conn].answers /\ link[conn].answers[1] = a
      BY <1>3
    <2> QED  BY <1>2, <2>1 DEF IInv, Truthful, AllTrue
  <1>8. ShowsItsAnswer'
    BY <1>1, <1>3, <1>4, <1>7 DEF ShowsItsAnswer, answer
  <1>9. TypeOK'
    <2>1. typed' \in Seq(Words)
      BY <1>1 DEF IInv, TypeOK
    <2>2. Asked \in 0..MaxStatements /\ a.statement \in 0..MaxStatements
      BY <1>3 DEF Answers
    <2>3. shown' \in [asked : 0..MaxStatements, answered : 0..MaxStatements, ok : BOOLEAN]
      BY <1>1, <1>4, <2>2
    <2> QED  BY <1>1, <1>6, <2>1, <2>3 DEF IInv, TypeOK
  <1>10. Truthful'
    <2>1. AllTrue(link'[conn].answers, ran)
      BY <1>5, <1>6 DEF AllTrue
    <2> QED  BY <1>1, <1>2, <1>6, <2>1, LinksStayTrue DEF IInv
  <1>11. Connected' /\ OneAtATime'
    BY <1>1, <1>2, <1>5, <1>6 DEF IInv, Connected, OneAtATime, Asking, Quiet
  <1>12. ForTheNext'
    BY <1>1 DEF IInv, ForTheNext, Asking
  <1> QED  BY <1>8, <1>9, <1>10, <1>11, <1>12 DEF IInv

LEMMA ReadKeeps == ASSUME IInv, ReadAnswer \/ ReadPart PROVE IInv'
  <1>1. Asking /\ reads /\ link[conn].answers # <<>>
    BY DEF ReadAnswer, ReadPart
  <1>2. Head(link[conn].answers) \in Answers
    <2>1. link[conn].answers \in Seq(Answers)
      BY <1>1 DEF IInv, TypeOK, Connected, Links
    <2> QED  BY <1>1, <2>1, HeadTailProperties
  <1>3. Head(link[conn].answers).ok \in BOOLEAN
    BY <1>2 DEF Answers
  <1>4. CASE ReadAnswer
    BY <1>1, <1>3, <1>4, ShowKeeps DEF ReadAnswer, IInv, TypeOK
  <1>5. CASE ReadPart
    BY <1>1, <1>5, ShowKeeps DEF ReadPart
  <1> QED  BY <1>4, <1>5

LEMMA GiveUpKeeps == ASSUME IInv, GiveUp PROVE IInv'
  <1>1. /\ Asking /\ reads' = FALSE
        /\ phase' \in {"typing", "redialling", "died"}
        /\ phase' = "typing" => phase = "commanding"
        /\ phase' = "redialling" => phase = "waiting"
        /\ UNCHANGED <<typed, statement, commands, offline, conn, dialled>>
        /\ UNCHANGED <<link, serving, ran, repeated, shown>>
    BY DEF GiveUp, GiveUpWith, Asking
  <1>2. TypeOK'
    BY <1>1 DEF IInv, TypeOK
  <1>3. Connected' /\ ForTheNext' /\ OneAtATime'
    BY <1>1 DEF IInv, Connected, ForTheNext, OneAtATime, Asking
  <1> QED  BY <1>1, <1>2, <1>3 DEF IInv, Truthful, ShowsItsAnswer

LEMMA RedialKeeps == ASSUME IInv, Redial PROVE IInv'
  <1>1. /\ phase = "redialling" /\ phase' = "again" /\ Dial(<<Request(statement)>>)
        /\ repeated' = repeated \cup {statement}
        /\ UNCHANGED <<typed, statement, commands, serving, ran, shown>>
    BY DEF Redial, RedialThen
  <1>2. statement \in Statements
    BY <1>1 DEF IInv, Connected
  <1>3. Request(statement) \in Requests /\ Request(statement).statement = statement
    BY <1>2, RequestTypes DEF Request
  <1>4. <<Request(statement)>> \in Seq(Requests)
    BY <1>3
  <1>5. TypeOK'
    BY <1>1, <1>2, <1>4, DialTypes DEF IInv, TypeOK
  <1>6. /\ Truthful'
        /\ reads' => /\ link'[conn'].requests = <<Request(statement)>>
                     /\ link'[conn'].answers = <<>>
    BY <1>1, <1>4, DialKeeps DEF IInv
  <1>7. conn' \in Connections
    BY <1>1, Numbers DEF Dial, IInv, TypeOK, Connections
  <1>8. OneAtATime'
    BY <1>1, <1>3, <1>6 DEF OneAtATime, OnlyOn, Asking, Asked
  <1>9. Connected' /\ ForTheNext'
    BY <1>1, <1>2, <1>7 DEF Connected, ForTheNext
  <1> QED  BY <1>1, <1>5, <1>6, <1>8, <1>9 DEF IInv, ShowsItsAnswer

LEMMA RedialFailsKeeps == ASSUME IInv, RedialFails PROVE IInv'
  <1>1. /\ DialFails /\ phase' = "typing" /\ typed' = <<>>
        /\ offline' /\ reads' = FALSE /\ link' = link
        /\ UNCHANGED <<statement, commands, serving, ran, repeated, shown>>
    BY DEF RedialFails, DialFails
  <1>2. <<>> \in Seq(Requests) /\ <<>> \in Seq(Words)
    OBVIOUS
  <1>3. TypeOK'
    BY <1>1, <1>2, DialTypes DEF IInv, TypeOK
  <1>4. Connected' /\ ForTheNext' /\ OneAtATime'
    BY <1>1 DEF Connected, ForTheNext, OneAtATime
  <1> QED  BY <1>1, <1>3, <1>4 DEF IInv, Truthful, ShowsItsAnswer

-----------------------------------------------------------------------------
(* The steps of the server and of the network.                             *)

LEMMA ServeKeeps == ASSUME IInv, NEW c \in Connections, Serve(c) PROVE IInv'
  <1> DEFINE r == Head(link[c].requests)
  <1>1. /\ r \in Requests
        /\ \A d \in Connections \ {c} : link'[d] = link[d]
        /\ link' \in [Connections -> Links]
        /\ link'[c].requests = Tail(link[c].requests)
        /\ ran' = [s \in Statements |->
                    IF s = r.statement /\ r.accepted THEN ran[s] \cup {c} ELSE ran[s]]
    BY ServeLink DEF IInv
  <1>2. PICK ok \in {r.accepted, FALSE} :
            link'[c].answers \in {link[c].answers,
                                  Append(link[c].answers, [statement |-> r.statement, ok |-> ok])}
    BY ServeLink DEF IInv
  <1>3. UNCHANGED <<shell, serving, repeated, shown>> /\ link[c].requests # <<>>
    BY DEF Serve
  <1> DEFINE answer == [statement |-> r.statement, ok |-> ok]
  <1>4. answer \in Answers /\ answer.statement = r.statement /\ answer.ok = ok
    BY <1>1 DEF Requests, Answers
  <1>5. link[c] \in Links /\ link[c].answers \in Seq(Answers)
    BY DEF IInv, TypeOK, Links
  <1>6. ran' \in [Statements -> SUBSET Connections] /\ \A s \in Statements : ran[s] \subseteq ran'[s]
    BY <1>1 DEF IInv, TypeOK
  <1>7. TypeOK'
    BY <1>1, <1>3, <1>6 DEF IInv, TypeOK, shell
  <1>8. answer.ok /\ answer.statement # 0 => ran'[answer.statement] # {}
    <2>1. r.statement \in 0..MaxStatements
      BY <1>1 DEF Requests
    <2>2. r.statement # 0 => r.statement \in Statements
      BY <2>1, Numbers DEF Statements
    <2>3. answer.ok => r.accepted
      BY <1>4
    <2> HIDE DEF r, answer
    <2> QED  BY <1>1, <1>4, <2>2, <2>3
  <1> HIDE DEF r, answer
  <1>9. Truthful'
    <2>1. ASSUME NEW d \in Connections PROVE AllTrue(link[d].answers, ran')
      BY <1>6, LaterIsTrue DEF IInv, Truthful, TypeOK, Links
    <2>2. AllTrue(link'[c].answers, ran')
      BY <1>2, <1>4, <1>5, <1>8, <2>1, AppendedIsTrue DEF answer
    <2> QED  BY <1>1, <2>1, <2>2 DEF Truthful
  <1>10. ShowsItsAnswer'
    <2>1. shown.asked # 0 => shown.asked \in Statements
      BY Numbers DEF IInv, TypeOK, Statements
    <2> QED  BY <1>3, <1>6, <2>1 DEF IInv, ShowsItsAnswer
  <1>11. OneAtATime'
    <2>1. CASE ~reads
      BY <1>3, <2>1 DEF OneAtATime, shell
    <2>2. CASE reads /\ c # conn
      <3>1. conn \in Connections
        BY <2>2 DEF IInv, Connected
      <3> QED  BY <1>1, <1>3, <2>2, <3>1 DEF IInv, OneAtATime, Asking, Asked, shell
    <2>3. CASE reads /\ c = conn
      <3>1. /\ Asking /\ link[c].answers = <<>>
            /\ \E q \in Requests : q.statement = Asked /\ link[c].requests = <<q>>
        BY <1>3, <2>3 DEF IInv, OneAtATime, OnlyOn, Quiet
      <3>2. r.statement = Asked /\ Tail(link[c].requests) = <<>>
        BY <3>1 DEF r
      <3>3. link'[c].requests = <<>>
            /\ (link'[c].answers = <<>> \/ link'[c].answers = <<answer>>)
        BY <1>1, <1>2, <3>1, <3>2 DEF answer
      <3>4. OnlyOn(link'[c], Asked)
        BY <1>4, <3>2, <3>3 DEF OnlyOn, Quiet
      <3> QED  BY <1>3, <2>3, <3>1, <3>4 DEF OneAtATime, Asking, Asked, shell
    <2> QED  BY <2>1, <2>2, <2>3
  <1>12. Connected' /\ ForTheNext'
    BY <1>3 DEF IInv, Connected, ForTheNext, shell
  <1> QED  BY <1>7, <1>9, <1>10, <1>11, <1>12 DEF IInv

(* A connection that breaks loses what was on it, and may lose all.        *)
LEMMA BreakKeeps ==
    ASSUME IInv, UNCHANGED <<shell, ran, repeated, shown>>, serving' \in BOOLEAN,
           link' \in [Connections -> Links],
           \A c \in Connections : /\ link'[c].requests \in {link[c].requests, <<>>}
                                  /\ link'[c].answers \in {link[c].answers, <<>>}
    PROVE  IInv'
  <1>1. TypeOK'
    BY DEF IInv, TypeOK, shell
  <1>2. Truthful'
    <2>1. AllTrue(<<>>, ran)
      BY DEF AllTrue
    <2> QED  BY <2>1 DEF IInv, Truthful
  <1>3. OneAtATime'
    <2>1. ASSUME reads
          PROVE  IF Asking THEN OnlyOn(link'[conn], Asked) ELSE Quiet(link'[conn])
      <3>1. conn \in Connections
        BY <2>1 DEF IInv, Connected
      <3>2. /\ link'[conn].requests \in {link[conn].requests, <<>>}
            /\ link'[conn].answers \in {link[conn].answers, <<>>}
        BY <3>1
      <3> QED  BY <2>1, <3>2 DEF IInv, OneAtATime, OnlyOn, Quiet
    <2> QED  BY <2>1 DEF OneAtATime, Asking, Asked, shell
  <1>4. Connected' /\ ForTheNext' /\ ShowsItsAnswer'
    BY DEF IInv, Connected, ForTheNext, ShowsItsAnswer, shell
  <1> QED  BY <1>1, <1>2, <1>3, <1>4 DEF IInv

LEMMA NetworkKeeps ==
    ASSUME IInv, (\E c \in Connections : Break(c)) \/ Crash \/ Restart
    PROVE  IInv'
  <1>0. link \in [Connections -> Links] /\ serving \in BOOLEAN
    BY DEF IInv, TypeOK
  <1>1. ASSUME NEW c \in Connections, Break(c) PROVE IInv'
    <2>1. PICK l \in Broken(link[c], {link[c].requests, <<>>}) : link' = [link EXCEPT ![c] = l]
      BY <1>1 DEF Break
    <2>2. l \in Links /\ l.requests \in {link[c].requests, <<>>}
          /\ l.answers \in {link[c].answers, <<>>}
      BY <1>0, <2>1, BrokenTypes
    <2>3. UNCHANGED <<shell, serving, ran, repeated, shown>>
      BY <1>1 DEF Break
    <2> QED  BY <1>0, <2>1, <2>2, <2>3, BreakKeeps
  <1>2. CASE Crash
    <2>1. /\ \A c \in Connections : link'[c] \in Broken(link[c], {<<>>})
          /\ link' \in [Connections -> UNION {Broken(link[c], {<<>>}) : c \in Connections}]
          /\ serving' = FALSE /\ UNCHANGED <<shell, ran, repeated, shown>>
      BY <1>2 DEF Crash
    <2>2. ASSUME NEW c \in Connections
          PROVE  /\ link'[c] \in Links
                 /\ link'[c].requests \in {link[c].requests, <<>>}
                 /\ link'[c].answers \in {link[c].answers, <<>>}
      BY <1>0, <2>1, BrokenTypes
    <2>3. link' \in [Connections -> Links]
      BY <2>1, <2>2
    <2> QED  BY <2>1, <2>2, <2>3, BreakKeeps
  <1>3. CASE Restart
    BY <1>0, <1>3, BreakKeeps DEF Restart
  <1> QED  BY <1>1, <1>2, <1>3

-----------------------------------------------------------------------------
LEMMA Inductive == IInv /\ [Next]_vars => IInv'
  <1>1. IInv /\ UNCHANGED vars => IInv'
    BY DEF vars, shell, IInv, TypeOK, Connected, ForTheNext, OneAtATime, Truthful, ShowsItsAnswer,
       Asking, Asked
  <1> QED
    BY <1>1, StartKeeps, TypeKeeps, ForgetKeeps, AskKeeps, CommandKeeps, ReadKeeps, GiveUpKeeps,
       RedialKeeps, RedialFailsKeeps, ServeKeeps, NetworkKeeps DEF Next, Wait

(* The types, for any lines and bounds.                                    *)
THEOREM TypeCorrect == Spec => []TypeOK
  <1>1. IInv => TypeOK
    BY DEF IInv
  <1> QED  BY <1>1, InitInv, Inductive, PTL DEF Spec

(* What is shown as the answer to a statement is the answer to it, and a   *)
(* statement shown as done was executed.                                   *)
THEOREM AnswerBelongs == Spec => []ShowsItsAnswer
  <1>1. IInv => ShowsItsAnswer
    BY DEF IInv
  <1> QED  BY <1>1, InitInv, Inductive, PTL DEF Spec
-----------------------------------------------------------------------------
(* How often a statement is executed, and when.                            *)

(* A statement is on its way on c, or was executed for it.                 *)
Waits(s, c) == \E i \in DOMAIN link[c].requests : link[c].requests[i].statement = s
Copied(s) == {c \in Connections : Waits(s, c) \/ c \in ran[s]}

(* There are two copies of a statement at most, one if it was not sent     *)
(* again, ...                                                              *)
Twice ==
    \A s \in Statements :
        /\ s \notin repeated => \E c \in Connections : Copied(s) \subseteq {c}
        /\ \E c, d \in Connections : Copied(s) \subseteq {c, d}

(* ... none of one that was not asked yet, ...                             *)
Fresh == \A s \in Statements : s > statement => Copied(s) = {}

(* ... the only copy of one is on its way while the shell waits for it, or *)
(* is about to send it again, or has no server any more, ...               *)
Pending(c) == (phase = "waiting" /\ c = conn) \/ phase = "redialling" \/ offline
Settled ==
    \A s \in Statements \ repeated, c \in Connections :
        Waits(s, c) => s = statement /\ Pending(c)

(* ... and a statement is sent again once.                                 *)
Repeats ==
    /\ phase \in {"waiting", "redialling"} => statement \notin repeated
    /\ phase = "again" => statement \in repeated
    /\ \A s \in repeated : s <= statement

RunInv == Twice /\ Fresh /\ Settled /\ Repeats

LEMMA InitRuns == Init => RunInv
  <1> SUFFICES ASSUME Init PROVE RunInv
    OBVIOUS
  <1>1. ASSUME NEW s \in Statements, NEW c \in Connections PROVE ~Waits(s, c) /\ ran[s] = {}
    BY DEF Init, NoLink, Waits
  <1>2. \A s \in Statements : Copied(s) = {}
    BY <1>1 DEF Copied
  <1>3. 1 \in Connections
    BY Numbers DEF Connections
  <1>4. Twice
    BY <1>2, <1>3 DEF Twice
  <1>5. Settled
    BY <1>1 DEF Settled
  <1> QED  BY <1>2, <1>4, <1>5 DEF RunInv, Fresh, Repeats, Init

(* Most steps ask nothing: requests are only lost or executed.             *)
LoseOnly ==
    \A s \in Statements, c \in Connections :
        /\ Waits(s, c)' => Waits(s, c)
        /\ c \in ran'[s] => c \in ran[s] \/ Waits(s, c)

(* The shell stops waiting for a question that is still on its way only to *)
(* send it again or because there is no server.                            *)
StillPending ==
    /\ offline => offline'
    /\ phase = "redialling" => phase' = "redialling" \/ offline'
    /\ phase = "waiting" => \/ phase' = "waiting" /\ conn' = conn
                            \/ phase' = "redialling" \/ offline'
                            \/ link[conn].requests = <<>>
    /\ phase' \in {"waiting", "redialling"} => phase \in {"waiting", "redialling"}
    /\ phase' = "again" => phase = "again"

LEMMA LosingKeeps ==
    ASSUME RunInv, LoseOnly, StillPending, UNCHANGED <<statement, repeated>>
    PROVE  RunInv'
  <1>1. \A s \in Statements : Copied(s)' \subseteq Copied(s)
    BY DEF LoseOnly, Copied
  <1>2. Twice'
    <2>1. ASSUME NEW s \in Statements
          PROVE  /\ s \notin repeated => \E c \in Connections : Copied(s)' \subseteq {c}
                 /\ \E c, d \in Connections : Copied(s)' \subseteq {c, d}
      BY <1>1 DEF RunInv, Twice
    <2> QED  BY <2>1 DEF Twice
  <1>3. Fresh'
    <2>1. ASSUME NEW s \in Statements, s > statement PROVE Copied(s)' = {}
      <3>1. Copied(s) = {}
        BY <2>1 DEF RunInv, Fresh
      <3> QED  BY <1>1, <3>1
    <2> QED  BY <2>1 DEF Fresh
  <1>4. Settled'
    <2>1. ASSUME NEW s \in Statements \ repeated, NEW c \in Connections, Waits(s, c)'
          PROVE  s = statement /\ Pending(c)'
      <3>1. Waits(s, c)
        BY <2>1 DEF LoseOnly
      <3>2. s = statement /\ Pending(c)
        BY <3>1 DEF RunInv, Settled
      <3>3. link[c].requests # <<>>
        BY <3>1 DEF Waits
      <3> QED  BY <3>2, <3>3 DEF Pending, StillPending
    <2> QED  BY <2>1 DEF Settled
  <1>5. Repeats'
    BY DEF RunInv, Repeats, StillPending
  <1> QED  BY <1>2, <1>3, <1>4, <1>5 DEF RunInv

-----------------------------------------------------------------------------
(* The steps that ask nothing.                                             *)

(* A connection's requests are as before.                                  *)
LEMMA SameRequests ==
    ASSUME \A c \in Connections : link'[c].requests \in {link[c].requests, <<>>}, ran' = ran
    PROVE  LoseOnly
  <1>1. ASSUME NEW s \in Statements, NEW c \in Connections, Waits(s, c)'
        PROVE  Waits(s, c)
    <2>1. link'[c].requests # <<>>
      BY <1>1 DEF Waits
    <2>2. link'[c].requests = link[c].requests
      BY <2>1
    <2> QED  BY <1>1, <2>2 DEF Waits
  <1> QED  BY <1>1 DEF LoseOnly

LEMMA StartRuns == ASSUME IInv, RunInv, Start PROVE RunInv'
  <1>1. /\ phase = "starting" /\ phase' = "typing" /\ (Dial(<<>>) \/ DialFails)
        /\ UNCHANGED <<typed, statement, commands, serving, ran, repeated, shown>>
    BY DEF Start
  <1>2. StillPending
    BY <1>1 DEF StillPending, Dial, DialFails
  <1>3. \A c \in Connections : link'[c].requests \in {link[c].requests, <<>>}
    BY <1>1 DEF Dial, DialFails, IInv, TypeOK
  <1> QED  BY <1>1, <1>2, <1>3, SameRequests, LosingKeeps

LEMMA TypingRuns ==
    ASSUME IInv, RunInv, (\E line \in Lines : Type(line)) \/ Forget \/ Exit \/ GiveUp
    PROVE  RunInv'
  <1>1. /\ UNCHANGED <<statement, offline, conn, link, ran, repeated>>
        /\ \/ phase' = phase
           \/ phase = "typing" /\ phase' = "ended"
           \/ phase = "commanding" /\ phase' = "typing"
           \/ phase = "waiting" /\ phase' = "redialling"
           \/ phase = "again" /\ phase' = "died"
    BY DEF Type, Forget, Exit, GiveUp, GiveUpWith, Asking
  <1>2. StillPending
    BY <1>1 DEF StillPending
  <1> QED  BY <1>1, <1>2, SameRequests, LosingKeeps

(* When there is an answer to show, no question is on its way.             *)
LEMMA ReadRuns == ASSUME IInv, RunInv, ReadAnswer \/ ReadPart PROVE RunInv'
  <1>1. /\ Asking /\ reads /\ link[conn].answers # <<>> /\ phase' = "typing"
        /\ link' = [link EXCEPT ![conn].answers = Tail(@)]
        /\ UNCHANGED <<statement, offline, conn, ran, repeated>>
    BY DEF ReadAnswer, ReadPart, Show
  <1>2. conn \in Connections /\ link \in [Connections -> Links] /\ link[conn] \in Links
    BY <1>1 DEF IInv, TypeOK, Connected
  <1>3. link[conn].requests = <<>>
    BY <1>1 DEF IInv, OneAtATime, OnlyOn, Quiet
  <1>4. \A c \in Connections : link'[c].requests = link[c].requests
    BY <1>1, <1>2 DEF Links
  <1>5. StillPending
    BY <1>1, <1>3 DEF StillPending, Asking
  <1> QED  BY <1>1, <1>4, <1>5, SameRequests, LosingKeeps

LEMMA RedialFailsRuns == ASSUME IInv, RunInv, RedialFails PROVE RunInv'
  <1>1. /\ phase' = "typing" /\ offline' = TRUE /\ link' = link
        /\ UNCHANGED <<statement, ran, repeated>>
    BY DEF RedialFails, DialFails
  <1>2. StillPending
    BY <1>1 DEF StillPending
  <1> QED  BY <1>1, <1>2, SameRequests, LosingKeeps

LEMMA CommandRuns == ASSUME IInv, RunInv, Command PROVE RunInv'
  <1> DEFINE request == [statement |-> 0, accepted |-> TRUE]
  <1>1. /\ Send(request) /\ phase = "typing" /\ ~offline /\ phase' = "commanding"
        /\ UNCHANGED <<statement, offline, conn, ran, repeated>>
    BY DEF Command
  <1>2. conn \in Connections /\ link \in [Connections -> Links] /\ link[conn] \in Links
    BY <1>1 DEF IInv, TypeOK, Connected
  <1>3. link[conn].requests \in Seq(Requests) /\ request \in Requests
    BY <1>2, Numbers DEF Links, Requests
  <1>4. ASSUME NEW s \in Statements, NEW c \in Connections, Waits(s, c)' PROVE Waits(s, c)
    <2>1. CASE link'[c].requests = link[c].requests
      BY <1>4, <2>1 DEF Waits
    <2>2. CASE c = conn /\ link'[c].requests = Append(link[c].requests, request)
      <3>1. PICK i \in DOMAIN link'[c].requests : link'[c].requests[i].statement = s
        BY <1>4 DEF Waits
      <3>2. s # 0
        BY DEF Statements
      <3>3. i \in DOMAIN link[c].requests /\ link'[c].requests[i] = link[c].requests[i]
        BY <1>3, <2>2, <3>1, <3>2, AppendProperties
      <3> QED  BY <3>1, <3>3 DEF Waits
    <2> QED  BY <1>1, <1>2, <2>1, <2>2 DEF Send, Links
  <1>5. StillPending
    BY <1>1 DEF StillPending
  <1>6. LoseOnly
    BY <1>1, <1>4 DEF LoseOnly
  <1> QED  BY <1>1, <1>5, <1>6, LosingKeeps

(* What is executed for c was on its way on c.                             *)
LEMMA ServeLoses == ASSUME TypeOK, NEW c \in Connections, Serve(c) PROVE LoseOnly
  <1> DEFINE r == Head(link[c].requests)
  <1>1. /\ \A d \in Connections \ {c} : link'[d] = link[d]
        /\ link'[c].requests = Tail(link[c].requests)
        /\ ran' = [s \in Statements |->
                    IF s = r.statement /\ r.accepted THEN ran[s] \cup {c} ELSE ran[s]]
    BY ServeLink
  <1>2. link[c].requests \in Seq(Requests) /\ link[c].requests # <<>>
    BY DEF TypeOK, Links, Serve
  <1>3. r = link[c].requests[1] /\ 1 \in DOMAIN link[c].requests
    BY <1>2
  <1> HIDE DEF r
  <1>4. \A s \in Statements, d \in Connections :
            d \in ran'[s] => d \in ran[s] \/ (d = c /\ s = r.statement)
    BY <1>1
  <1>5. Waits(r.statement, c)
    BY <1>3 DEF Waits
  <1>6. ASSUME NEW s \in Statements, NEW d \in Connections, Waits(s, d)' PROVE Waits(s, d)
    <2>1. CASE d # c
      BY <1>1, <1>6, <2>1 DEF Waits
    <2>2. CASE d = c
      <3>1. PICK i \in DOMAIN Tail(link[c].requests) : Tail(link[c].requests)[i].statement = s
        BY <1>1, <1>6, <2>2 DEF Waits
      <3>2. i + 1 \in DOMAIN link[c].requests /\ Tail(link[c].requests)[i] = link[c].requests[i + 1]
        BY <1>2, <3>1, HeadTailProperties, LenProperties
      <3> QED  BY <2>2, <3>1, <3>2 DEF Waits
    <2> QED  BY <2>1, <2>2
  <1> QED  BY <1>4, <1>5, <1>6 DEF LoseOnly

LEMMA ServerRuns ==
    ASSUME IInv, RunInv,
           (\E c \in Connections : Serve(c) \/ Break(c)) \/ Crash \/ Restart
    PROVE  RunInv'
  <1>1. UNCHANGED <<shell, repeated>>
    BY DEF Serve, Break, Crash, Restart
  <1>2. LoseOnly
    <2>1. ASSUME NEW c \in Connections, Serve(c) PROVE LoseOnly
      BY <2>1, ServeLoses DEF IInv
    <2>2. ASSUME NEW c \in Connections, Break(c) PROVE LoseOnly
      <3>1. PICK l \in Broken(link[c], {link[c].requests, <<>>}) : link' = [link EXCEPT ![c] = l]
        BY <2>2 DEF Break
      <3>2. link \in [Connections -> Links] /\ l.requests \in {link[c].requests, <<>>}
        BY <3>1, BrokenTypes DEF IInv, TypeOK
      <3>3. \A d \in Connections : link'[d].requests \in {link[d].requests, <<>>}
        BY <3>1, <3>2
      <3> QED  BY <2>2, <3>3, SameRequests DEF Break
    <2>3. CASE Crash
      <3>1. ASSUME NEW c \in Connections PROVE link'[c].requests = <<>>
        <4>1. link'[c] \in Broken(link[c], {<<>>})
          BY <2>3 DEF Crash
        <4> QED  BY <4>1 DEF Broken
      <3> QED  BY <2>3, <3>1, SameRequests DEF Crash
    <2>4. CASE Restart
      BY <2>4, SameRequests DEF Restart
    <2> QED  BY <2>1, <2>2, <2>3, <2>4
  <1>3. StillPending
    BY <1>1 DEF StillPending, shell
  <1> QED  BY <1>1, <1>2, <1>3, LosingKeeps DEF shell

-----------------------------------------------------------------------------
(* The steps that ask: one more copy, of the statement they are about.     *)

LEMMA AskRuns == ASSUME IInv, RunInv, Ask PROVE RunInv'
  <1> DEFINE new == statement + 1
             request == Request(new)
  <1>1. /\ Send(request) /\ phase = "typing" /\ ~offline /\ typed # <<>>
        /\ phase' = "waiting" /\ statement' = new
        /\ UNCHANGED <<offline, conn, ran, repeated>>
    BY DEF Ask, Complete
  <1>2. conn \in Connections /\ link \in [Connections -> Links] /\ link[conn] \in Links
    BY <1>1 DEF IInv, TypeOK, Connected
  <1>3. new \in Statements /\ statement \in Nat /\ new > statement
        /\ \A s \in Statements : s \in Nat
    BY <1>1, Numbers DEF IInv, TypeOK, ForTheNext, Statements
  <1>4. request \in Requests /\ request.statement = new
    BY <1>3, RequestTypes DEF Request
  <1>5. link[conn].requests \in Seq(Requests)
    BY <1>2 DEF Links
  <1> HIDE DEF request
  <1>6. ASSUME NEW s \in Statements, NEW c \in Connections, Waits(s, c)'
        PROVE  Waits(s, c) \/ (s = new /\ c = conn)
    <2>1. CASE link'[c].requests = link[c].requests
      BY <1>6, <2>1 DEF Waits
    <2>2. CASE c = conn /\ link'[c].requests = Append(link[c].requests, request)
      <3>1. PICK i \in DOMAIN link'[c].requests : link'[c].requests[i].statement = s
        BY <1>6 DEF Waits
      <3>2. CASE s = new
        BY <2>2, <3>2
      <3>3. CASE s # new
        <4>1. i \in DOMAIN link[c].requests /\ link'[c].requests[i] = link[c].requests[i]
          BY <1>4, <1>5, <2>2, <3>1, <3>3, AppendProperties
        <4> QED  BY <3>1, <4>1 DEF Waits
      <3> QED  BY <3>2, <3>3
    <2> QED  BY <1>1, <1>2, <2>1, <2>2 DEF Send, Links
  <1>7. \A s \in Statements :
            Copied(s)' \subseteq Copied(s) \cup (IF s = new THEN {conn} ELSE {})
    BY <1>1, <1>6 DEF Copied
  <1>8. Copied(new) = {} /\ new \notin repeated
    BY <1>3 DEF RunInv, Fresh, Repeats, IInv, TypeOK, Statements
  <1> HIDE DEF new
  <1>9. Twice'
    <2>1. ASSUME NEW s \in Statements
          PROVE  /\ s \notin repeated => \E c \in Connections : Copied(s)' \subseteq {c}
                 /\ \E c, d \in Connections : Copied(s)' \subseteq {c, d}
      <3>1. CASE s = new
        <4>1. Copied(s)' \subseteq {conn}
          BY <1>7, <1>8, <3>1
        <4> QED  BY <1>2, <4>1
      <3>2. CASE s # new
        BY <1>7, <3>2 DEF RunInv, Twice
      <3> QED  BY <3>1, <3>2
    <2> QED  BY <1>1, <2>1 DEF Twice
  <1>10. Fresh'
    <2>1. ASSUME NEW s \in Statements, s > new PROVE Copied(s)' = {}
      <3>1. s > statement /\ s # new
        BY <1>3, <2>1 DEF new
      <3> QED  BY <1>7, <3>1 DEF RunInv, Fresh
    <2> QED  BY <1>1, <2>1 DEF Fresh
  <1>11. Settled'
    <2>1. ASSUME NEW s \in Statements \ repeated, NEW c \in Connections, Waits(s, c)'
          PROVE  s = new /\ c = conn
      <3>1. ~Waits(s, c)
        BY <1>1 DEF RunInv, Settled, Pending
      <3> QED  BY <1>6, <2>1, <3>1
    <2> QED  BY <1>1, <2>1 DEF Settled, Pending
  <1>12. Repeats'
    <2>1. \A s \in repeated : s \in Statements /\ s <= statement
      BY DEF RunInv, Repeats, IInv, TypeOK
    <2>2. \A s \in repeated : s <= new
      BY <1>3, <2>1
    <2> QED  BY <1>1, <1>8, <2>2 DEF Repeats
  <1> QED  BY <1>9, <1>10, <1>11, <1>12 DEF RunInv

LEMMA RedialRuns == ASSUME IInv, RunInv, Redial PROVE RunInv'
  <1> DEFINE new == dialled + 1
             request == Request(statement)
  <1>1. /\ phase = "redialling" /\ phase' = "again" /\ Dial(<<request>>)
        /\ repeated' = repeated \cup {statement}
        /\ UNCHANGED <<statement, offline, ran>>
    BY DEF Redial, RedialThen, Dial
  <1>2. new \in Connections /\ link \in [Connections -> Links]
        /\ link' = [link EXCEPT ![new] =
                        [up |-> TRUE, requests |-> <<request>>, answers |-> <<>>]]
    BY <1>1, Numbers DEF Dial, IInv, TypeOK, Connections
  <1>3. request.statement = statement /\ statement \in Statements /\ statement \notin repeated
    BY <1>1 DEF Request, IInv, Connected, RunInv, Repeats
  <1> HIDE DEF new, request
  <1>4. ASSUME NEW s \in Statements, NEW c \in Connections, Waits(s, c)'
        PROVE  Waits(s, c) \/ (s = statement /\ c = new)
    <2>1. CASE c = new
      <3>1. link'[c].requests = <<request>>
        BY <1>2, <2>1
      <3>2. s = request.statement
        BY <1>4, <3>1 DEF Waits
      <3> QED  BY <1>3, <2>1, <3>2
    <2>2. CASE c # new
      BY <1>2, <1>4, <2>2 DEF Waits
    <2> QED  BY <2>1, <2>2
  <1>5. \A s \in Statements :
            Copied(s)' \subseteq Copied(s) \cup (IF s = statement THEN {new} ELSE {})
    BY <1>1, <1>4 DEF Copied
  <1>6. Twice'
    <2>1. ASSUME NEW s \in Statements
          PROVE  /\ s \notin repeated' => \E c \in Connections : Copied(s)' \subseteq {c}
                 /\ \E c, d \in Connections : Copied(s)' \subseteq {c, d}
      <3>1. CASE s = statement
        <4>1. PICK c \in Connections : Copied(s) \subseteq {c}
          BY <1>3, <3>1 DEF RunInv, Twice
        <4>2. Copied(s)' \subseteq {c, new}
          BY <1>5, <3>1, <4>1
        <4> QED  BY <1>1, <1>2, <3>1, <4>2
      <3>2. CASE s # statement
        BY <1>1, <1>5, <3>2 DEF RunInv, Twice
      <3> QED  BY <3>1, <3>2
    <2> QED  BY <2>1 DEF Twice
  <1>7. Fresh'
    <2>1. ASSUME NEW s \in Statements, s > statement PROVE Copied(s)' = {}
      <3>1. s # statement
        BY <1>3, <2>1 DEF Statements
      <3> QED  BY <1>5, <2>1, <3>1 DEF RunInv, Fresh
    <2> QED  BY <1>1, <2>1 DEF Fresh
  <1>8. Settled'
    <2>1. ASSUME NEW s \in Statements \ repeated', NEW c \in Connections, Waits(s, c)'
          PROVE  FALSE
      <3>1. s \notin repeated /\ s # statement
        BY <1>1, <2>1
      <3>2. Waits(s, c)
        BY <1>4, <2>1, <3>1
      <3> QED  BY <3>1, <3>2 DEF RunInv, Settled
    <2> QED  BY <2>1 DEF Settled
  <1>9. Repeats'
    <2>1. statement <= statement
      BY <1>3 DEF Statements
    <2> QED  BY <1>1, <2>1 DEF RunInv, Repeats
  <1> QED  BY <1>6, <1>7, <1>8, <1>9 DEF RunInv

-----------------------------------------------------------------------------
LEMMA RunsInductive == IInv /\ RunInv /\ [Next]_vars => RunInv'
  <1>1. ASSUME RunInv, UNCHANGED vars PROVE RunInv'
    <2>1. LoseOnly
      BY <1>1 DEF vars, LoseOnly, Waits
    <2>2. StillPending /\ UNCHANGED <<statement, repeated>>
      BY <1>1 DEF vars, shell, StillPending
    <2> QED  BY <1>1, <2>1, <2>2, LosingKeeps
  <1> QED
    BY <1>1, StartRuns, TypingRuns, ReadRuns, RedialFailsRuns, CommandRuns, ServerRuns,
       AskRuns, RedialRuns DEF Next, Wait

LEMMA PairsAreSmall ==
    ASSUME NEW S, NEW c, NEW d, S \subseteq {c, d}
    PROVE  Cardinality(S) <= IF c = d THEN 1 ELSE 2
  <1>1. /\ IsFiniteSet({}) /\ Cardinality({}) = 0
        /\ IsFiniteSet({c}) /\ Cardinality({c}) = 1
    BY FS_EmptySet, FS_Singleton
  <1>2. /\ IsFiniteSet({c} \cup {d})
        /\ Cardinality({c} \cup {d}) = IF d \in {c} THEN 1 ELSE 2
    BY <1>1, FS_AddElement
  <1>3. S \in SUBSET ({c} \cup {d})
    OBVIOUS
  <1>4. Cardinality(S) <= Cardinality({c} \cup {d})
    BY <1>2, <1>3, FS_Subset
  <1> QED  BY <1>2, <1>4

(* Only the server executes.                                               *)
LEMMA StepRuns ==
    ASSUME IInv, RunInv, [Next]_vars, NEW s \in Statements, ran'[s] # ran[s]
    PROVE  /\ Cardinality(ran'[s]) <= IF s \in repeated THEN 2 ELSE 1
           /\ s \notin repeated =>
                  \A later \in Statements : later > s => ran[later] = {}
  <1>1. PICK c \in Connections : Serve(c)
    BY DEF Next, Wait, vars, Start, Ask, Forget, Command, Exit, Type, ReadAnswer, ReadPart, Show,
       GiveUp, GiveUpWith, Redial, RedialThen, RedialFails, Break, Crash, Restart
  <1>2. LoseOnly
    BY <1>1, ServeLoses DEF IInv
  <1>3. ran'[s] \subseteq Connections
    <2>1. TypeOK'
      BY Inductive DEF IInv
    <2> QED  BY <2>1 DEF TypeOK
  <1>4. ran'[s] \subseteq Copied(s)
    BY <1>2, <1>3 DEF LoseOnly, Copied
  <1>5. Cardinality(ran'[s]) <= IF s \in repeated THEN 2 ELSE 1
    <2>1. CASE s \in repeated
      <3>1. PICK d, e \in Connections : Copied(s) \subseteq {d, e}
        BY DEF RunInv, Twice
      <3>2. ran'[s] \subseteq {d, e}
        BY <1>4, <3>1
      <3>3. Cardinality(ran'[s]) <= IF d = e THEN 1 ELSE 2
        BY <3>2, PairsAreSmall
      <3>4. Cardinality(ran'[s]) \in Nat
        <4>1. IsFiniteSet({d} \cup {e})
          BY FS_Singleton, FS_AddElement
        <4> QED  BY <3>2, <4>1, FS_Subset, FS_CardinalityType
      <3> QED  BY <2>1, <3>3, <3>4
    <2>2. CASE s \notin repeated
      <3>1. PICK d \in Connections : Copied(s) \subseteq {d}
        BY <2>2 DEF RunInv, Twice
      <3>2. ran'[s] \subseteq {d, d}
        BY <1>4, <3>1
      <3> QED  BY <2>2, <3>2, PairsAreSmall
    <2> QED  BY <2>1, <2>2
  <1>6. ASSUME s \notin repeated, NEW later \in Statements, later > s PROVE ran[later] = {}
    <2>1. PICK d \in Connections : d \in ran'[s] /\ d \notin ran[s]
      <3>1. ran[s] \subseteq ran'[s]
        <4>1. ran' = [x \in Statements |->
                        IF /\ x = Head(link[c].requests).statement
                           /\ Head(link[c].requests).accepted
                        THEN ran[x] \cup {c} ELSE ran[x]]
          BY <1>1, ServeLink DEF IInv
        <4> QED  BY <4>1
      <3> QED  BY <1>3, <3>1
    <2>2. Waits(s, d)
      BY <1>2, <2>1 DEF LoseOnly
    <2>3. s = statement
      BY <1>6, <2>2 DEF RunInv, Settled
    <2>4. Copied(later) = {}
      BY <1>6, <2>3 DEF RunInv, Fresh
    <2>5. ran[later] \subseteq Connections
      BY DEF IInv, TypeOK
    <2> QED  BY <2>4, <2>5 DEF Copied
  <1> QED  BY <1>5, <1>6

(* A statement is executed once, or twice if it was sent again; and those  *)
(* that were not sent again in the order they were typed in.               *)
THEOREM RunsInOrder == Spec => RunsAsTyped
  <1>1. IInv /\ RunInv /\ [Next]_vars =>
            [\A s \in Statements : ran'[s] # ran[s] =>
                /\ Cardinality(ran'[s]) <= IF s \in repeated THEN 2 ELSE 1
                /\ s \notin repeated =>
                    \A later \in Statements : later > s => ran[later] = {}]_vars
    BY StepRuns
  <1> QED  BY <1>1, InitInv, Inductive, InitRuns, RunsInductive, PTL DEF Spec, RunsAsTyped
=============================================================================
