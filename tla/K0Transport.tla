---------------------------- MODULE K0Transport ----------------------------
(***************************************************************************)
(* The HTTP/K.0 transport (HTTP-K.0-Browser/protocol): the handshake and   *)
(* the ordered, reliable stream 0, over UDP.                               *)
(*                                                                         *)
(* A client process connects, sends chunks, retransmits what is not        *)
(* acknowledged, and closes or dies. main.rs gives every client the same   *)
(* conn_id, so the next one finds whatever the server still keeps under    *)
(* it: a session is one client process, the server has one context for     *)
(* them all.                                                               *)
(*                                                                         *)
(* A packet in net may arrive late, or never; with Duplicates it stays     *)
(* there and may arrive again. Data and acknowledgements, which are sent   *)
(* again, can be lost. A client that is gone receives nothing.             *)
(*                                                                         *)
(* Every chunk has length one, so its offset is its number; the packet     *)
(* number is the same for every transmission of a chunk. What only the log *)
(* shows is left out: the frame decoder, the sender's windows (a blocked   *)
(* send goes ahead), cwnd and the RTT. So are session tickets, which the   *)
(* server issues only when it was told to, path migration, and stream 1.   *)
(***************************************************************************)
EXTENDS Integers, SequencesExt

CONSTANTS
    MaxSessions,   (* bound: client processes                               *)
    MaxChunks,     (* bound: chunks a client sends                          *)
    Window,        (* INITIAL_WINDOW                                        *)
    Threshold,     (* UPDATE_THRESHOLD of it                                *)
    Duplicates,    (* may a packet arrive more often than it was sent?      *)
    NoContext      (* the server has no connection                          *)

ASSUME Bounds == MaxSessions \in Nat /\ MaxChunks \in Nat /\ Duplicates \in BOOLEAN
ASSUME WindowIsLarger == Window \in Nat /\ Threshold \in 1..Window

Sessions == 1..MaxSessions
Chunks == 0..(MaxChunks - 1)

VARIABLES
    session,    (* the client process running, or the last one              *)
    client,     (* "gone", "waiting" for INIT_ACK, or "ready"               *)
    sent,       (* Stream.send_offset of the client                         *)
    inFlight,   (* AckTracker.in_flight of the client                       *)
    server,     (* the server's ConnectionCtx and its stream 0              *)
    net,        (* packets that may still arrive                            *)
    spoiled     (* history: sessions that did not have a context of their   *)
                (* own from beginning to end                                *)

vars == <<session, client, sent, inFlight, server, net, spoiled>>

Init_(s) == [kind |-> "init", peer |-> s]
InitAck(s) == [kind |-> "initAck", peer |-> s]
Done(s) == [kind |-> "done", peer |-> s]
Close_(s) == [kind |-> "close", peer |-> s]
Data(s, n) == [kind |-> "data", peer |-> s, chunk |-> n]
Ack(s, n) == [kind |-> "ack", peer |-> s, chunk |-> n]

Packets ==
    [kind : {"init", "initAck", "done", "close"}, peer : Sessions]
        \cup [kind : {"data", "ack"}, peer : Sessions, chunk : Chunks]

Chunk(s, n) == [from |-> s, at |-> n]
ChunksOf(s) == {Chunk(s, n) : n \in Chunks}
AllChunks == [from : Sessions, at : Chunks]

(* ConnectionCtx: whose INIT made it, whether the handshake is done, the   *)
(* key of the last DONE, stream 0 and its window.                          *)
Contexts ==
    [born : Sessions, ready : BOOLEAN, key : 0..MaxSessions,
     delivered : Seq(AllChunks), reorder : SUBSET AllChunks,
     room : 0..Window, owed : 0..(Threshold - 1)]

ASSUME NoContextIsNoContext == NoContext \notin Contexts

(* ConnectionCtx::new, with stream 0 as the first DONE will open it. *)
NewContext(s) ==
    [born |-> s, ready |-> FALSE, key |-> 0, delivered |-> <<>>,
     reorder |-> {}, room |-> Window, owed |-> 0]

Init ==
    /\ session = 0 /\ client = "gone"
    /\ sent = 0 /\ inFlight = {}
    /\ server = NoContext
    /\ net = {}
    /\ spoiled = {}

(* What may still arrive when p has. *)
After(p) == IF Duplicates THEN net ELSE net \ {p}

-----------------------------------------------------------------------------
(* The client. *)

Alive(s) == session = s /\ client # "gone"

(* connect sends INIT and waits. *)
Connect ==
    /\ client = "gone" /\ session < MaxSessions
    /\ session' = session + 1
    /\ client' = "waiting"
    /\ net' = net \cup {Init_(session + 1)}
    /\ UNCHANGED <<sent, inFlight, server, spoiled>>

(* INIT_ACK: connect sends DONE with its key, once, and returns. *)
ReceiveInitAck ==
    /\ client = "waiting" /\ InitAck(session) \in net
    /\ client' = "ready"
    /\ net' = After(InitAck(session)) \cup {Done(session)}
    /\ UNCHANGED <<session, sent, inFlight, server, spoiled>>

(* The client is gone, and what is on its way to it is lost. *)
Leave(packets) ==
    /\ client' = "gone"
    /\ sent' = 0 /\ inFlight' = {}
    /\ net' = {p \in net : p.kind \notin {"initAck", "ack"}} \cup packets
    /\ UNCHANGED <<session, server, spoiled>>

(* The handshake timeout, a crash, or close. *)
Stop == client # "gone" /\ Leave({})
Close == client = "ready" /\ Leave({Close_(session)})

(* send_stream. *)
Send ==
    /\ client = "ready" /\ sent < MaxChunks
    /\ sent' = sent + 1
    /\ inFlight' = inFlight \cup {sent}
    /\ net' = net \cup {Data(session, sent)}
    /\ UNCHANGED <<session, client, server, spoiled>>

(* AckTracker::tick and the retransmission of what it queued, once the     *)
(* retransmission timeout of the chunk has passed.                         *)
Retransmit(n) ==
    /\ n \in inFlight
    /\ net' = net \cup {Data(session, n)}
    /\ UNCHANGED <<session, client, sent, inFlight, server, spoiled>>

ReceiveAck(n) ==
    /\ client = "ready" /\ Ack(session, n) \in net
    /\ inFlight' = inFlight \ {n}
    /\ net' = After(Ack(session, n))
    /\ UNCHANGED <<session, client, sent, server, spoiled>>

-----------------------------------------------------------------------------
(* The server: handle_packet. *)

Reply(s, p, reply) == net' = After(p) \cup (IF Alive(s) THEN {reply} ELSE {})
ClientUnchanged == UNCHANGED <<session, client, sent, inFlight>>

(* INIT starts the handshake again in the context that is there, if any. *)
ReceiveInit(s) ==
    /\ Init_(s) \in net
    /\ server' = IF server = NoContext THEN NewContext(s)
                 ELSE [server EXCEPT !.ready = FALSE]
    /\ spoiled' = spoiled \cup ({s} \ {server'.born})
    /\ Reply(s, Init_(s), InitAck(s))
    /\ ClientUnchanged

(* Mutant: DONE opens the streams anew. *)
ReceiveDoneReopening(s) ==
    /\ Done(s) \in net
    /\ server # NoContext
    /\ server' = [server EXCEPT !.ready = TRUE, !.key = s, !.reorder = {}]
    /\ spoiled' = spoiled \cup (IF server.born = s THEN {} ELSE {s, server.born})
    /\ net' = After(Done(s))
    /\ ClientUnchanged

(* DONE carries the key. Every DONE opens two more streams, under ids that *)
(* were not used: stream 0 stays what it is.                               *)
ReceiveDone(s) ==
    /\ Done(s) \in net
    /\ server # NoContext
    /\ server' = [server EXCEPT !.ready = TRUE, !.key = s]
    /\ spoiled' = spoiled \cup (IF server.born = s THEN {} ELSE {s, server.born})
    /\ net' = After(Done(s))
    /\ ClientUnchanged

ReceiveClose(s) ==
    /\ Close_(s) \in net
    /\ server # NoContext
    /\ server' = NoContext
    /\ spoiled' = spoiled \cup {server.born}
    /\ net' = After(Close_(s))
    /\ ClientUnchanged

Expected(ctx) == Len(ctx.delivered)
Buffered(ctx, n) == CHOOSE c \in ctx.reorder : c.at = n
IsBuffered(ctx, n) == \E c \in ctx.reorder : c.at = n

(* The chunks Stream::receive hands on when c is the one it waits for: c   *)
(* and what was buffered right behind it.                                  *)
Run(ctx, c) ==
    LET end == CHOOSE m \in (c.at + 1)..(c.at + 1 + MaxChunks) :
                  /\ ~IsBuffered(ctx, m)
                  /\ \A i \in (c.at + 1)..(m - 1) : IsBuffered(ctx, i)
    IN  [i \in 1..(end - c.at) |->
            IF i = 1 THEN c ELSE Buffered(ctx, c.at + i - 1)]

(* Mutant: a past chunk is handed on again.                                *)
StreamReceiveTwice(ctx, c) ==
    IF c.at <= Expected(ctx)
    THEN [ctx EXCEPT !.delivered = @ \o Run(ctx, c)]
    ELSE [ctx EXCEPT !.reorder = {b \in @ : b.at # c.at} \cup {c}]

(* Stream::receive. *)
StreamReceive(ctx, c) ==
    IF c.at = Expected(ctx)
    THEN LET run == Run(ctx, c)
         IN  [ctx EXCEPT !.delivered = @ \o run,
                         !.reorder = @ \ ToSet(run)]
    ELSE IF c.at > Expected(ctx)
    THEN [ctx EXCEPT !.reorder = {b \in @ : b.at # c.at} \cup {c}]
    ELSE ctx

(* Mutant: mark_updated that does not grow the window. *)
CreditForgotten(ctx) ==
    IF ctx.owed + 1 >= Threshold
    THEN [ctx EXCEPT !.room = @ - 1, !.owed = 0]
    ELSE [ctx EXCEPT !.room = @ - 1, !.owed = @ + 1]

(* Mutant: should_update asks for more than the threshold. *)
CreditLate(ctx) ==
    IF ctx.owed + 1 > Threshold
    THEN [ctx EXCEPT !.room = @ + ctx.owed, !.owed = 0]
    ELSE [ctx EXCEPT !.room = @ - 1, !.owed = @ + 1]

(* RecvWindow: room is window_size - received, owed is consumed - updated. *)
(* The chunk is consumed as it is received, and a window update is sent    *)
(* when enough has been.                                                   *)
Credit(ctx) ==
    IF ctx.owed + 1 >= Threshold
    THEN [ctx EXCEPT !.room = @ + ctx.owed, !.owed = 0]
    ELSE [ctx EXCEPT !.room = @ - 1, !.owed = @ + 1]

Accepts(s) == server # NoContext /\ server.ready /\ server.key = s

(* Mutant: only new chunks are acknowledged. *)
ReceiveDataAckingNew(s, n) ==
    /\ Data(s, n) \in net
    /\ Accepts(s) /\ server.room > 0
    /\ server' = Credit(StreamReceive(server, Chunk(s, n)))
    /\ IF n < Expected(server) THEN net' = After(Data(s, n))
       ELSE Reply(s, Data(s, n), Ack(s, n))
    /\ UNCHANGED spoiled
    /\ ClientUnchanged

(* A chunk that decrypts and fits the window is taken and acknowledged;    *)
(* any other is dropped.                                                   *)
ReceiveData(s, n) ==
    /\ Data(s, n) \in net
    /\ Accepts(s) /\ server.room > 0
    /\ server' = Credit(StreamReceive(server, Chunk(s, n)))
    /\ Reply(s, Data(s, n), Ack(s, n))
    /\ UNCHANGED spoiled
    /\ ClientUnchanged

-----------------------------------------------------------------------------
Lose(p) ==
    /\ p.kind \in {"data", "ack"}
    /\ net' = net \ {p}
    /\ UNCHANGED <<session, client, sent, inFlight, server, spoiled>>

Next ==
    \/ Connect \/ ReceiveInitAck \/ Stop \/ Close \/ Send
    \/ \E n \in Chunks : Retransmit(n) \/ ReceiveAck(n)
    \/ \E s \in Sessions :
        \/ ReceiveInit(s) \/ ReceiveDone(s) \/ ReceiveClose(s)
        \/ \E n \in Chunks : ReceiveData(s, n)
    \/ \E p \in net : Lose(p)

Spec == Init /\ [][Next]_vars

(* The ticker keeps running, and a network that is given a packet again    *)
(* and again delivers it at last.                                          *)
FairSpec ==
    /\ Spec
    /\ \A n \in Chunks :
        /\ WF_vars(Retransmit(n))
        /\ SF_vars(ReceiveAck(n))
        /\ SF_vars(n \in inFlight /\ ReceiveData(session, n))

-----------------------------------------------------------------------------
TypeOK ==
    /\ session \in 0..MaxSessions
    /\ client \in {"gone", "waiting", "ready"}
    /\ sent \in 0..MaxChunks
    /\ inFlight \subseteq 0..(sent - 1)
    /\ server \in Contexts \cup {NoContext}
    /\ net \subseteq Packets
    /\ spoiled \subseteq Sessions

Held(s, n) ==
    \/ Chunk(s, n) \in ToSet(server.delivered)
    \/ Chunk(s, n) \in server.reorder

Acked == (0..(sent - 1)) \ inFlight

(* Stream 0 is handed on in order, without gaps or repeats, whatever was   *)
(* lost, reordered or sent again, and by one client only, unless its       *)
(* context was shared.                                                     *)
InOrder ==
    server # NoContext =>
        \A i \in DOMAIN server.delivered :
            /\ server.delivered[i].at = i - 1
            /\ server.born \notin spoiled => server.delivered[i].from = server.born

(* A chunk the client no longer retransmits is in the server's stream, if  *)
(* the session has had the server's context to itself.                     *)
AckedIsHeld ==
    client = "ready" /\ session \notin spoiled =>
        \A n \in Acked : server # NoContext /\ Held(session, n)

(* The same for every session the server accepts data from, with or        *)
(* without a context of its own.                                           *)
AckedIsAlwaysHeld ==
    client = "ready" /\ Accepts(session) => \A n \in Acked : Held(session, n)

(* The receiver's own window never refuses a chunk, duplicates included,   *)
(* though every copy is counted and the sender does not stop when blocked. *)
NeverRefuses == server # NoContext => server.room > 0

Serving(s) ==
    client = "ready" /\ session = s /\ s \notin spoiled /\ Accepts(s)

(* While the server serves the session, every chunk is handed on and the   *)
(* client learns it.                                                       *)
EveryChunkArrives ==
    \A s \in Sessions, n \in Chunks :
        Serving(s) /\ n < sent ~>
            \/ ~Serving(s)
            \/ n \in Acked /\ Chunk(s, n) \in ToSet(server.delivered)
=============================================================================
