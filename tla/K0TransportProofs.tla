------------------------- MODULE K0TransportProofs -------------------------
(***************************************************************************)
(* What K0Transport promises for any number of clients and chunks, any     *)
(* window, and a network that loses, reorders and duplicates.              *)
(***************************************************************************)
EXTENDS K0Transport, FiniteSetTheorems, SequenceTheorems, TLAPS

-----------------------------------------------------------------------------
(* The least element of a set of naturals, from the well-foundedness of    *)
(* strict inclusion between its initial segments.                          *)
LEMMA Least ==
    ASSUME NEW T \in SUBSET Nat, T # {}
    PROVE  \E m \in T : \A i \in T : m <= i
  <1>1. PICK k \in T : TRUE
    OBVIOUS
  <1> DEFINE Below == {i \in T : i <= k}
             Segments == {0..m : m \in Below}
  <1>2. IsFiniteSet(0..k)
    BY <1>1, FS_Interval, SMT
  <1>3. IsWellFoundedOn(StrictSubsetOrdering(0..k), FiniteSubsetsOf(0..k))
    BY <1>2, FS_StrictSubsetOrderingWellFounded
  <1>4. Segments \subseteq FiniteSubsetsOf(0..k)
    <2>1. \A m \in Nat : IsFiniteSet(0..m)
      BY FS_Interval, SMT
    <2> QED  BY <2>1 DEF FiniteSubsetsOf
  <1>5. Segments # {}
    BY <1>1
  <1> HIDE DEF Segments
  <1>6. \E X \in Segments : \A Y \in Segments :
            <<Y, X>> \notin StrictSubsetOrdering(0..k)
    BY <1>3, <1>4, <1>5, WFMin
  <1>7. PICK m \in Below : \A j \in Below :
            <<0..j, 0..m>> \notin StrictSubsetOrdering(0..k)
    BY <1>6 DEF Segments
  <1>8. ASSUME NEW i \in T, i < m PROVE FALSE
    <2>1. i <= k /\ i \in Nat /\ m \in Nat /\ k \in Nat
      BY <1>8, <1>7
    <2>2. 0..i \in SUBSET (0..k) /\ 0..m \in SUBSET (0..k)
      BY <2>1, <1>7
    <2>3. 0..i # 0..m /\ 0..i \subseteq 0..m
      BY <2>1, <1>8
    <2>4. <<0..i, 0..m>> \in StrictSubsetOrdering(0..k)
      BY <2>2, <2>3 DEF StrictSubsetOrdering
    <2> QED  BY <2>1, <2>4, <1>7, <1>8
  <1> QED  BY <1>7, <1>8

-----------------------------------------------------------------------------
(* The stream. *)

Content(ctx) == ToSet(ctx.delivered) \cup ctx.reorder
Ordered(ctx) == \A i \in DOMAIN ctx.delivered : ctx.delivered[i].at = i - 1
OnlyFrom(ctx, s) == \A c \in Content(ctx) : c.from = s

LEMMA ChunkNumbers ==
    ASSUME NEW c \in AllChunks
    PROVE  c.at \in Nat /\ c.at < MaxChunks /\ c.from \in Sessions
  BY Bounds DEF AllChunks, Chunks

(* A buffered chunk is found under its number. *)
LEMMA BufferedIsThere ==
    ASSUME NEW ctx \in Contexts, NEW n, IsBuffered(ctx, n)
    PROVE  Buffered(ctx, n) \in ctx.reorder /\ Buffered(ctx, n).at = n
  BY DEF IsBuffered, Buffered

(* What the stream hands on is consecutive and was buffered. *)
LEMMA RunIsConsecutive ==
    ASSUME NEW ctx \in Contexts, NEW c \in AllChunks
    PROVE  /\ Run(ctx, c) \in Seq(AllChunks)
           /\ Len(Run(ctx, c)) >= 1
           /\ Run(ctx, c)[1] = c
           /\ \A i \in 1..Len(Run(ctx, c)) :
                /\ Run(ctx, c)[i].at = c.at + i - 1
                /\ Run(ctx, c)[i] \in {c} \cup ctx.reorder
  <1> DEFINE End(m) == /\ ~IsBuffered(ctx, m)
                       /\ \A i \in (c.at + 1)..(m - 1) : IsBuffered(ctx, i)
             Ends == (c.at + 1)..(c.at + 1 + MaxChunks)
             end == CHOOSE m \in Ends : End(m)
             T == {m \in Nat : m >= c.at + 1 /\ ~IsBuffered(ctx, m)}
  <1>1. c.at \in Nat /\ c.at < MaxChunks /\ MaxChunks \in Nat
    BY ChunkNumbers, Bounds
  <1>2. ctx.reorder \subseteq AllChunks
    BY DEF Contexts
  <1>3. c.at + 1 + MaxChunks \in T
    <2>1. ~IsBuffered(ctx, c.at + 1 + MaxChunks)
      <3>1. \A b \in ctx.reorder : b.at \in Nat /\ b.at < MaxChunks
        BY <1>2, ChunkNumbers
      <3> QED  BY <1>1, <3>1 DEF IsBuffered
    <2> QED  BY <1>1, <2>1
  <1>4. PICK least \in T : \A i \in T : least <= i
    BY <1>3, Least
  <1>5. least \in Ends /\ End(least)
    <2>1. least \in Nat /\ least >= c.at + 1 /\ ~IsBuffered(ctx, least)
      OBVIOUS
    <2>2. least <= c.at + 1 + MaxChunks
      BY <1>3, <1>4
    <2>3. ASSUME NEW i \in (c.at + 1)..(least - 1) PROVE IsBuffered(ctx, i)
      <3>1. i \in Nat /\ i >= c.at + 1 /\ i < least
        BY <1>1, <2>1
      <3>2. i \notin T
        BY <3>1, <1>4, <2>1
      <3> QED  BY <3>1, <3>2
    <2> QED  BY <1>1, <2>1, <2>2, <2>3
  <1> HIDE DEF T
  <1>6. end \in Ends /\ End(end)
    BY <1>5
  <1> HIDE DEF end
  <1>7. end \in Nat /\ end - c.at \in Nat /\ end - c.at >= 1
    BY <1>1, <1>6
  <1> DEFINE run == [i \in 1..(end - c.at) |->
                        IF i = 1 THEN c ELSE Buffered(ctx, c.at + i - 1)]
  <1>8. Run(ctx, c) = run
    BY DEF Run, end
  <1>9. ASSUME NEW i \in 1..(end - c.at)
        PROVE  run[i].at = c.at + i - 1 /\ run[i] \in {c} \cup ctx.reorder
    <2>1. CASE i = 1
      BY <2>1, <1>1
    <2>2. CASE i # 1
      <3>1. c.at + i - 1 \in (c.at + 1)..(end - 1)
        BY <2>2, <1>1, <1>7
      <3>2. IsBuffered(ctx, c.at + i - 1)
        BY <3>1, <1>6
      <3>3. run[i] = Buffered(ctx, c.at + i - 1)
        BY <2>2
      <3> QED  BY <3>2, <3>3, BufferedIsThere
    <2> QED  BY <2>1, <2>2
  <1>10. run \in Seq(AllChunks) /\ Len(run) = end - c.at
    <2>1. \A i \in 1..(end - c.at) : run[i] \in AllChunks
      BY <1>2, <1>9
    <2>2. run \in [1..(end - c.at) -> AllChunks]
      BY <2>1
    <2>4. DOMAIN run = 1..(end - c.at)
      OBVIOUS
    <2> HIDE DEF run
    <2>3. run \in Seq(AllChunks)
      <3>1. run \in UNION {[1..n -> AllChunks] : n \in Nat}
        BY <2>2, <1>7
      <3> QED  BY <3>1, SeqDef, Zenon
    <2>5. Len(run) = end - c.at
      BY <2>3, <2>4, <1>7, LenProperties
    <2> QED  BY <2>3, <2>5
  <1>11. run[1] = c
    BY <1>7
  <1> HIDE DEF run
  <1> QED  BY <1>7, <1>8, <1>9, <1>10, <1>11

(* Stream::receive keeps the stream in order and loses nothing of one      *)
(* client's.                                                               *)
LEMMA ReceiveKeepsTheStream ==
    ASSUME NEW ctx \in Contexts, NEW c \in AllChunks, Ordered(ctx),
           NEW after, after = StreamReceive(ctx, c)
    PROVE  /\ after \in Contexts
           /\ \A f \in {"born", "ready", "key", "room", "owed"} : after[f] = ctx[f]
           /\ Ordered(after)
           /\ Content(after) \subseteq Content(ctx) \cup {c}
           /\ OnlyFrom(ctx, c.from) => Content(ctx) \cup {c} \subseteq Content(after)
  <1>1. c.at \in Nat /\ Expected(ctx) \in Nat
    BY ChunkNumbers, LenProperties DEF Expected, Contexts
  <1>2. /\ ctx.delivered \in Seq(AllChunks) /\ ctx.reorder \subseteq AllChunks
        /\ DOMAIN ctx.delivered = 1..Expected(ctx)
    BY LenProperties DEF Contexts, Expected
  <1>3. CASE c.at = Expected(ctx)
    <2> DEFINE run == Run(ctx, c)
               old == ctx.delivered
               new == old \o run
    <2>1. /\ run \in Seq(AllChunks) /\ Len(run) >= 1 /\ run[1] = c
          /\ \A i \in 1..Len(run) : /\ run[i].at = c.at + i - 1
                                    /\ run[i] \in {c} \cup ctx.reorder
      BY RunIsConsecutive
    <2> HIDE DEF run
    <2>2. after = [ctx EXCEPT !.delivered = new, !.reorder = @ \ ToSet(run)]
      BY <1>3 DEF StreamReceive, run
    <2>3. /\ new \in Seq(AllChunks)
          /\ Len(new) = Len(old) + Len(run)
          /\ \A i \in 1..(Len(old) + Len(run)) :
                new[i] = IF i <= Len(old) THEN old[i] ELSE run[i - Len(old)]
      BY <1>2, <2>1, ConcatProperties
    <2>4. Len(old) \in Nat /\ Len(run) \in Nat /\ Len(old) = Expected(ctx)
          /\ DOMAIN new = 1..Len(new) /\ DOMAIN run = 1..Len(run)
      BY <1>2, <2>1, <2>3, LenProperties DEF Expected
    <2> HIDE DEF new
    <2>5. after.delivered = new /\ after.reorder = ctx.reorder \ ToSet(run)
      BY <2>2 DEF Contexts
    <2>6. after \in Contexts
      BY <2>2, <2>3 DEF Contexts
    <2>7. Ordered(after)
      <3>1. ASSUME NEW i \in DOMAIN new PROVE new[i].at = i - 1
        <4>1. i \in 1..(Len(old) + Len(run))
          BY <2>3, <2>4
        <4>2. CASE i <= Len(old)
          <5>1. new[i] = old[i] /\ i \in DOMAIN old
            BY <4>1, <4>2, <2>3, <2>4, <1>2
          <5> QED  BY <5>1 DEF Ordered
        <4>3. CASE i > Len(old)
          <5>1. new[i] = run[i - Len(old)] /\ i - Len(old) \in 1..Len(run)
            BY <4>1, <4>3, <2>3, <2>4
          <5>2. new[i].at = Expected(ctx) + (i - Len(old)) - 1
            BY <5>1, <2>1, <1>3
          <5> QED  BY <5>2, <4>1, <2>4
        <4> QED  BY <4>1, <4>2, <4>3, <2>4
      <3> QED  BY <3>1, <2>5 DEF Ordered
    <2>8. ToSet(new) = ToSet(old) \cup ToSet(run)
      <3>1. ToSet(new) \subseteq ToSet(old) \cup ToSet(run)
        <4>1. ASSUME NEW i \in DOMAIN new
              PROVE  new[i] \in ToSet(old) \cup ToSet(run)
          <5>1. CASE i <= Len(old)
            <6>1. new[i] = old[i] /\ i \in DOMAIN old
              BY <5>1, <2>3, <2>4, <1>2
            <6> QED  BY <6>1 DEF ToSet
          <5>2. CASE i > Len(old)
            <6>1. new[i] = run[i - Len(old)] /\ i - Len(old) \in DOMAIN run
              BY <5>2, <2>3, <2>4
            <6> QED  BY <6>1 DEF ToSet
          <5> QED  BY <5>1, <5>2, <2>3, <2>4
        <4> QED  BY <4>1 DEF ToSet
      <3>2. ToSet(old) \subseteq ToSet(new)
        <4>1. ASSUME NEW i \in DOMAIN old PROVE i \in DOMAIN new /\ new[i] = old[i]
          BY <2>3, <2>4, <1>2
        <4> QED  BY <4>1 DEF ToSet
      <3>3. ToSet(run) \subseteq ToSet(new)
        <4>1. ASSUME NEW i \in DOMAIN run
              PROVE  Len(old) + i \in DOMAIN new /\ new[Len(old) + i] = run[i]
          BY <2>3, <2>4
        <4> QED  BY <4>1 DEF ToSet
      <3> QED  BY <3>1, <3>2, <3>3
    <2>9. ToSet(run) \subseteq {c} \cup ctx.reorder /\ c \in ToSet(run)
      BY <2>1, <2>4 DEF ToSet
    <2>10. Content(after) = ToSet(old) \cup ToSet(run) \cup ctx.reorder
      BY <2>5, <2>8, <2>9 DEF Content
    <2>11. Content(after) = Content(ctx) \cup {c}
      BY <2>9, <2>10 DEF Content
    <2> QED  BY <2>2, <2>6, <2>7, <2>11 DEF Contexts
  <1>4. CASE c.at > Expected(ctx)
    <2> DEFINE others == {b \in ctx.reorder : b.at # c.at}
    <2>1. after = [ctx EXCEPT !.reorder = others \cup {c}]
      BY <1>1, <1>4 DEF StreamReceive
    <2>2. after \in Contexts /\ after.delivered = ctx.delivered
          /\ after.reorder = others \cup {c}
      BY <2>1, <1>2 DEF Contexts
    <2>3. ASSUME OnlyFrom(ctx, c.from), NEW b \in ctx.reorder, b.at = c.at
          PROVE  b = c
      BY <2>3, <1>2 DEF OnlyFrom, Content, AllChunks
    <2>4. OnlyFrom(ctx, c.from) => ctx.reorder \subseteq after.reorder
      BY <2>2, <2>3
    <2> QED  BY <2>1, <2>2, <2>4 DEF Contexts, Ordered, Content
  <1>5. CASE c.at < Expected(ctx)
    <2>1. after = ctx
      BY <1>1, <1>5 DEF StreamReceive
    <2>2. OnlyFrom(ctx, c.from) => c \in Content(ctx)
      <3>1. c.at + 1 \in DOMAIN ctx.delivered
        BY <1>1, <1>2, <1>5
      <3>2. ctx.delivered[c.at + 1] \in AllChunks
            /\ ctx.delivered[c.at + 1] \in Content(ctx)
        BY <3>1, <1>2, ElementOfSeq DEF Content, ToSet, Expected
      <3>3. ctx.delivered[c.at + 1].at = c.at
        BY <3>1, <1>1 DEF Ordered
      <3>4. OnlyFrom(ctx, c.from) => ctx.delivered[c.at + 1] = c
        BY <3>2, <3>3 DEF OnlyFrom, AllChunks
      <3> QED  BY <3>2, <3>4
    <2> QED  BY <2>1, <2>2
  <1> QED  BY <1>1, <1>3, <1>4, <1>5

(* RecvWindow gives back what it took.                                     *)
LEMMA CreditIsConserved ==
    ASSUME NEW ctx \in Contexts, ctx.room + ctx.owed = Window,
           NEW after, after = Credit(ctx)
    PROVE  /\ after \in Contexts
           /\ \A f \in {"born", "ready", "key", "delivered", "reorder"} :
                after[f] = ctx[f]
           /\ after.room + after.owed = Window
  <1>1. /\ ctx.room \in 0..Window /\ ctx.owed \in 0..(Threshold - 1)
        /\ Window \in Nat /\ Threshold \in 1..Window
    BY WindowIsLarger DEF Contexts
  <1>2. CASE ctx.owed + 1 >= Threshold
    <2>1. after = [ctx EXCEPT !.room = @ + ctx.owed, !.owed = 0]
      BY <1>2 DEF Credit
    <2>2. after.room = Window /\ after.owed = 0
      BY <1>1, <2>1 DEF Contexts
    <2>3. after \in Contexts
      <3>1. ctx.room + ctx.owed \in 0..Window /\ 0 \in 0..(Threshold - 1)
        BY <1>1
      <3> QED  BY <2>1, <3>1 DEF Contexts
    <2>4. \A f \in {"born", "ready", "key", "delivered", "reorder"} :
             after[f] = ctx[f]
      BY <2>1 DEF Contexts
    <2> QED  BY <1>1, <2>2, <2>3, <2>4
  <1>3. CASE ~(ctx.owed + 1 >= Threshold)
    <2>1. after = [ctx EXCEPT !.room = @ - 1, !.owed = @ + 1]
      BY <1>3 DEF Credit
    <2>2. ctx.room - 1 \in 0..Window /\ ctx.owed + 1 \in 0..(Threshold - 1)
      BY <1>1, <1>3
    <2>3. after.room = ctx.room - 1 /\ after.owed = ctx.owed + 1
      BY <2>1 DEF Contexts
    <2>4. after \in Contexts
      BY <2>1, <2>2 DEF Contexts
    <2>5. \A f \in {"born", "ready", "key", "delivered", "reorder"} :
             after[f] = ctx[f]
      BY <2>1 DEF Contexts
    <2> QED  BY <1>1, <2>3, <2>4, <2>5
  <1> QED  BY <1>2, <1>3

-----------------------------------------------------------------------------
(* The invariant. Packets come from sessions that have begun. A session    *)
(* that nobody disturbed is the only one in its context, and a chunk with  *)
(* an acknowledgement, on its way or received, is in there.                *)

ContextOK ==
    /\ server.room + server.owed = Window
    /\ server.born <= session /\ server.key <= session
    /\ Ordered(server)
    /\ server.born \notin spoiled =>
        /\ server.key \in {0, server.born}
        /\ OnlyFrom(server, server.born)
    /\ server.key \notin {0} \cup spoiled => server.key = server.born

Kept(n) ==
    /\ server # NoContext /\ server.born = session
    /\ Chunk(session, n) \in Content(server)

Inv ==
    /\ TypeOK
    /\ \A p \in net : p.peer <= session
    /\ client # "ready" => sent = 0 /\ inFlight = {}
    /\ client # "gone" => session \in Sessions
    /\ server # NoContext => ContextOK
    /\ session \notin spoiled =>
        \A n \in Chunks :
            Ack(session, n) \in net \/ n \in Acked => Kept(n)

LEMMA PacketKinds ==
    ASSUME NEW s \in Sessions, NEW n \in Chunks
    PROVE  {Init_(s), InitAck(s), Done(s), Close_(s), Data(s, n), Ack(s, n)} \subseteq Packets
  BY DEF Packets, Init_, InitAck, Done, Close_, Data, Ack

LEMMA PacketPeers ==
    ASSUME NEW s, NEW n
    PROVE  /\ Init_(s).peer = s /\ InitAck(s).peer = s /\ Done(s).peer = s
           /\ Close_(s).peer = s /\ Data(s, n).peer = s /\ Ack(s, n).peer = s
  BY DEF Init_, InitAck, Done, Close_, Data, Ack

(* Only acknowledgements look like one. *)
LEMMA AckIsNoOther ==
    ASSUME NEW s, NEW n, NEW t, NEW m
    PROVE  /\ Ack(s, n) \notin {Init_(t), InitAck(t), Done(t), Close_(t), Data(t, m)}
           /\ Ack(s, n) = Ack(t, m) => s = t /\ n = m
           /\ Ack(s, n).kind = "ack"
  BY DEF Init_, InitAck, Done, Close_, Data, Ack

LEMMA InitInv == Init => Inv
  <1> SUFFICES ASSUME Init PROVE Inv
    OBVIOUS
  <1>1. TypeOK
    BY Bounds DEF Init, TypeOK
  <1>2. Acked = {}
    BY DEF Init, Acked
  <1> QED  BY <1>1, <1>2 DEF Init, Inv

(* A step that leaves the server alone and brings no new acknowledgement.  *)
LEMMA ClientStep ==
    ASSUME Inv, UNCHANGED <<server, spoiled>>, TypeOK',
           session' = session,
           \A p \in net' : p \in net \/ (p.peer <= session /\ p.kind # "ack"),
           client' # "ready" => sent' = 0 /\ inFlight' = {},
           client' # "gone" => client # "gone",
           \A n \in Acked' : n \in Acked \/ Ack(session, n) \in net
    PROVE  Inv'
  <1>1. \A n \in Chunks : Ack(session, n) \in net' => Ack(session, n) \in net
    BY AckIsNoOther
  <1>2. \A n \in Chunks : Kept(n)' <=> Kept(n)
    BY DEF Kept
  <1>3. ContextOK' <=> ContextOK
    BY DEF ContextOK
  <1>4. session \notin spoiled =>
            \A n \in Chunks : Ack(session, n) \in net' \/ n \in Acked' => Kept(n)
    BY <1>1 DEF Inv
  <1> QED  BY <1>2, <1>3, <1>4 DEF Inv

LEMMA ConnectInv == ASSUME Inv, Connect PROVE Inv'
  <1>1. TypeOK'
    BY Bounds DEF Inv, TypeOK, Connect, Sessions, Packets, Init_
  <1>2. /\ session \in Nat /\ session' = session + 1
        /\ sent' = 0 /\ inFlight' = {} /\ client' # "ready"
        /\ server' = server /\ spoiled' = spoiled /\ session' \in Sessions
    BY Bounds DEF Inv, TypeOK, Connect, Sessions
  <1>3. \A p \in net' : p.peer <= session'
    BY <1>2, PacketPeers, Bounds DEF Inv, TypeOK, Connect, Packets, Sessions
  <1>4. Acked' = {}
    BY <1>2 DEF Acked
  <1>5. ASSUME NEW n \in Chunks PROVE Ack(session + 1, n) \notin net'
    <2>1. Ack(session + 1, n) \notin net
      BY <1>2, PacketPeers DEF Inv
    <2> QED  BY <2>1, AckIsNoOther DEF Connect
  <1>6. server # NoContext => ContextOK'
    <2>1. server # NoContext => server.born \in Int /\ server.key \in Int
      BY Bounds DEF Inv, TypeOK, Contexts, Sessions
    <2> QED  BY <1>2, <2>1 DEF Inv, ContextOK
  <1> QED  BY <1>1, <1>2, <1>3, <1>4, <1>5, <1>6 DEF Inv

LEMMA ReceiveInitAckInv == ASSUME Inv, ReceiveInitAck PROVE Inv'
  <1>1. session \in Sessions
    BY DEF Inv, ReceiveInitAck
  <1>2. net' \subseteq net \cup {Done(session)}
    BY DEF ReceiveInitAck, After
  <1>3. Done(session) \in Packets
    BY <1>1 DEF Packets, Done
  <1>4. TypeOK'
    BY <1>2, <1>3 DEF Inv, TypeOK, ReceiveInitAck
  <1>5. Acked' = Acked
    BY DEF ReceiveInitAck, Acked
  <1>6. Done(session).peer = session /\ Done(session).kind # "ack" /\ session <= session
    BY <1>1, Bounds DEF Done, Sessions
  <1>7. /\ server' = server /\ spoiled' = spoiled /\ session' = session
        /\ client' = "ready" /\ client # "gone"
    BY DEF ReceiveInitAck
  <1>8. \A p \in net' : p \in net \/ (p.peer <= session /\ p.kind # "ack")
    BY <1>2, <1>6
  <1> QED  BY <1>4, <1>5, <1>7, <1>8, ClientStep

LEMMA LeaveInv ==
    ASSUME Inv, NEW packets, Leave(packets),
           packets \in {{}, {Close_(session)}},
           packets # {} => session \in Sessions
    PROVE  Inv'
  <1>1. packets \subseteq Packets
    BY DEF Packets, Close_
  <1>2. TypeOK'
    <2>1. sent' \in 0..MaxChunks /\ inFlight' \subseteq 0..(sent' - 1)
      BY Bounds DEF Leave
    <2> QED  BY <1>1, <2>1 DEF Inv, TypeOK, Leave
  <1>3. Acked' = {}
    BY DEF Leave, Acked
  <1>4. \A p \in packets : p.peer <= session /\ p.kind # "ack"
    BY Bounds DEF Close_, Sessions
  <1> QED  BY <1>2, <1>3, <1>4, ClientStep DEF Leave

LEMMA SendInv == ASSUME Inv, Send PROVE Inv'
  <1>1. sent \in Chunks /\ sent \in Nat
    BY Bounds DEF Inv, TypeOK, Send, Chunks
  <1>2. session \in 0..MaxSessions
    BY DEF Inv, TypeOK
  <1>3. sent' \in 0..MaxChunks /\ inFlight' \subseteq 0..(sent' - 1)
    BY <1>1, Bounds DEF Inv, TypeOK, Send
  <1>4. Acked' = Acked
    <2>1. inFlight \subseteq 0..(sent - 1)
      BY DEF Inv, TypeOK
    <2> QED  BY <1>1, <2>1 DEF Send, Acked
  <1>5. session \in Sessions
    BY DEF Inv, Send
  <1>6. Data(session, sent) \in Packets
    BY <1>1, <1>5 DEF Packets, Data
  <1>7. TypeOK'
    BY <1>3, <1>6 DEF Inv, TypeOK, Send
  <1>8. Data(session, sent).peer <= session /\ Data(session, sent).kind # "ack"
    BY <1>2, Bounds DEF Data
  <1>9. \A p \in net' : p \in net \/ (p.peer <= session /\ p.kind # "ack")
    BY <1>8 DEF Send
  <1>10. /\ server' = server /\ spoiled' = spoiled /\ session' = session
         /\ client' = client /\ client = "ready"
    BY DEF Send
  <1> QED  BY <1>4, <1>7, <1>9, <1>10, ClientStep

LEMMA RetransmitInv == ASSUME Inv, NEW n \in Chunks, Retransmit(n) PROVE Inv'
  <1>1. session \in Sessions /\ session \in Int
    BY Bounds DEF Inv, Retransmit, Sessions
  <1>2. TypeOK'
    BY <1>1 DEF Inv, TypeOK, Retransmit, Packets, Data
  <1>3. Data(session, n).peer <= session /\ Data(session, n).kind # "ack"
    BY <1>1 DEF Data
  <1>4. \A p \in net' : p \in net \/ (p.peer <= session /\ p.kind # "ack")
    BY <1>3 DEF Retransmit
  <1>5. /\ server' = server /\ spoiled' = spoiled /\ session' = session
        /\ client' = client /\ sent' = sent /\ inFlight' = inFlight
    BY DEF Retransmit
  <1> QED  BY <1>2, <1>4, <1>5, ClientStep DEF Inv, Acked

LEMMA ReceiveAckInv == ASSUME Inv, NEW n \in Chunks, ReceiveAck(n) PROVE Inv'
  <1>1. TypeOK'
    BY DEF Inv, TypeOK, ReceiveAck, After
  <1>2. net' \subseteq net
    BY DEF ReceiveAck, After
  <1>3. \A m \in Acked' : m \in Acked \/ Ack(session, m) \in net
    BY DEF Acked, ReceiveAck
  <1>4. /\ server' = server /\ spoiled' = spoiled /\ session' = session
        /\ client' = client /\ client = "ready"
    BY DEF ReceiveAck
  <1>5. \A p \in net' : p \in net \/ (p.peer <= session /\ p.kind # "ack")
    BY <1>2
  <1> QED  BY <1>1, <1>3, <1>4, <1>5, ClientStep

LEMMA LoseInv == ASSUME Inv, NEW p \in net, Lose(p) PROVE Inv'
  <1>1. net' \subseteq net /\ Acked' = Acked
    BY DEF Lose, Acked
  <1>2. TypeOK'
    BY <1>1 DEF Inv, TypeOK, Lose
  <1>3. /\ server' = server /\ spoiled' = spoiled /\ session' = session
        /\ client' = client /\ sent' = sent /\ inFlight' = inFlight
    BY DEF Lose
  <1>4. \A q \in net' : q \in net \/ (q.peer <= session /\ q.kind # "ack")
    BY <1>1
  <1>5. client' # "ready" => sent' = 0 /\ inFlight' = {}
    BY <1>3 DEF Inv
  <1> QED  BY <1>1, <1>2, <1>3, <1>4, <1>5, ClientStep

(* The server's steps leave the client alone.                              *)
LEMMA ReceiveInitInv == ASSUME Inv, NEW s \in Sessions, ReceiveInit(s) PROVE Inv'
  <1>1. /\ session' = session /\ client' = client /\ sent' = sent
        /\ inFlight' = inFlight /\ Acked' = Acked
    BY DEF ReceiveInit, ClientUnchanged, Acked
  <1>2. net' \subseteq net \cup {InitAck(s)}
    BY DEF ReceiveInit, Reply, After
  <1>3. s <= session /\ s \in Nat /\ s # 0 /\ session \in Nat
    BY PacketPeers, Bounds DEF Inv, TypeOK, ReceiveInit, Sessions
  <1>4. CASE server = NoContext
    <2>1. server' = NewContext(s)
      BY <1>4 DEF ReceiveInit
    <2>2. server' \in Contexts
      BY <2>1, WindowIsLarger, EmptySeq, Bounds DEF NewContext, Contexts
    <2>3. /\ server'.room + server'.owed = Window /\ server'.born = s
          /\ server'.key = 0 /\ server'.delivered = <<>> /\ server'.reorder = {}
      BY <2>1, WindowIsLarger DEF NewContext
    <2>4. Content(server') = {}
      BY <2>3 DEF Content, ToSet
    <2>5. ContextOK'
      <3>1. Ordered(server') /\ OnlyFrom(server', s)
        BY <2>3, <2>4 DEF Ordered, OnlyFrom
      <3> QED  BY <1>1, <1>3, <2>3, <3>1 DEF ContextOK
    <2>6. spoiled' = spoiled
      BY <2>3 DEF ReceiveInit
    <2>7. TypeOK'
      BY <1>1, <1>2, <2>2, <2>6, PacketKinds DEF Inv, TypeOK, Packets, InitAck
    <2>8. \A p \in net' : p.peer <= session
      BY <1>2, <1>3, PacketPeers DEF Inv
    <2>9. session \notin spoiled =>
              \A n \in Chunks : Ack(session, n) \notin net' /\ n \notin Acked
      BY <1>2, <1>4, AckIsNoOther DEF Inv, Kept
    <2> QED  BY <1>1, <2>5, <2>6, <2>7, <2>8, <2>9 DEF Inv
  <1>5. CASE server # NoContext
    <2>1. server' = [server EXCEPT !.ready = FALSE] /\ server \in Contexts
      BY <1>5 DEF ReceiveInit, Inv, TypeOK
    <2>2. server' \in Contexts
      BY <2>1 DEF Contexts
    <2>3. /\ server'.room = server.room /\ server'.owed = server.owed
          /\ server'.born = server.born /\ server'.key = server.key
          /\ server'.delivered = server.delivered /\ server'.reorder = server.reorder
      BY <2>1 DEF Contexts
    <2>4. spoiled \subseteq spoiled' /\ spoiled' \subseteq spoiled \cup {s}
      BY DEF ReceiveInit
    <2>5. Content(server') = Content(server)
      BY <2>3 DEF Content
    <2>6. ContextOK'
      <3>1. ContextOK
        BY <1>5 DEF Inv
      <3> QED  BY <1>1, <2>3, <2>4, <2>5, <3>1 DEF ContextOK, Ordered, OnlyFrom
    <2>7. TypeOK'
      BY <1>1, <1>2, <2>2, <2>4, PacketKinds DEF Inv, TypeOK, Packets, InitAck
    <2>8. \A p \in net' : p.peer <= session
      BY <1>2, <1>3, PacketPeers DEF Inv
    <2>9. ASSUME NEW n \in Chunks, Kept(n) PROVE Kept(n)'
      BY <1>1, <2>2, <2>3, <2>5, <2>9, NoContextIsNoContext DEF Kept
    <2>10. \A n \in Chunks : Ack(session, n) \in net' => Ack(session, n) \in net
      BY <1>2, AckIsNoOther
    <2> QED  BY <1>1, <2>4, <2>6, <2>7, <2>8, <2>9, <2>10 DEF Inv
  <1> QED  BY <1>4, <1>5

LEMMA ReceiveDoneInv == ASSUME Inv, NEW s \in Sessions, ReceiveDone(s) PROVE Inv'
  <1>1. /\ session' = session /\ client' = client /\ sent' = sent
        /\ inFlight' = inFlight /\ Acked' = Acked
    BY DEF ReceiveDone, ClientUnchanged, Acked
  <1>2. net' \subseteq net
    BY DEF ReceiveDone, After
  <1>3. s <= session /\ s \in 1..MaxSessions
    BY PacketPeers DEF Inv, ReceiveDone, Sessions
  <1>4. server \in Contexts /\ ContextOK
    BY DEF ReceiveDone, Inv, TypeOK
  <1>5. server' = [server EXCEPT !.ready = TRUE, !.key = s]
    BY DEF ReceiveDone
  <1>6. server' \in Contexts
    <2>1. s \in 0..MaxSessions
      BY <1>3, Bounds
    <2> QED  BY <1>4, <1>5, <2>1 DEF Contexts
  <1>7. /\ server'.room = server.room /\ server'.owed = server.owed
        /\ server'.born = server.born /\ server'.key = s
        /\ server'.delivered = server.delivered /\ server'.reorder = server.reorder
    BY <1>4, <1>5 DEF Contexts
  <1>8. /\ spoiled \subseteq spoiled' /\ spoiled' \subseteq spoiled \cup {s, server.born}
        /\ server.born # s => s \in spoiled' /\ server.born \in spoiled'
    BY DEF ReceiveDone
  <1>9. Content(server') = Content(server)
    BY <1>7 DEF Content
  <1>10. ContextOK'
    BY <1>1, <1>3, <1>4, <1>7, <1>8, <1>9 DEF ContextOK, Ordered, OnlyFrom
  <1>11. TypeOK'
    BY <1>1, <1>2, <1>4, <1>6, <1>8 DEF Inv, TypeOK, Contexts
  <1>12. ASSUME NEW n \in Chunks, Kept(n) PROVE Kept(n)'
    BY <1>1, <1>6, <1>7, <1>9, <1>12, NoContextIsNoContext DEF Kept
  <1> QED  BY <1>1, <1>2, <1>8, <1>10, <1>11, <1>12 DEF Inv

LEMMA ReceiveCloseInv == ASSUME Inv, NEW s \in Sessions, ReceiveClose(s) PROVE Inv'
  <1>1. /\ session' = session /\ client' = client /\ sent' = sent
        /\ inFlight' = inFlight /\ Acked' = Acked
    BY DEF ReceiveClose, ClientUnchanged, Acked
  <1>2. net' \subseteq net /\ server # NoContext /\ server' = NoContext
        /\ spoiled' = spoiled \cup {server.born}
    BY DEF ReceiveClose, After
  <1>3. TypeOK'
    BY <1>1, <1>2 DEF Inv, TypeOK, Contexts
  <1>4. ASSUME session \notin spoiled', NEW n \in Chunks
        PROVE  Ack(session, n) \notin net' /\ n \notin Acked
    BY <1>2, <1>4 DEF Inv, Kept
  <1> QED  BY <1>1, <1>2, <1>3, <1>4 DEF Inv

(* A chunk is taken.                                                       *)
LEMMA ReceiveDataInv ==
    ASSUME Inv, NEW s \in Sessions, NEW n \in Chunks, ReceiveData(s, n)
    PROVE  Inv'
  <1> DEFINE c == Chunk(s, n)
             received == StreamReceive(server, c)
  <1>1. /\ session' = session /\ client' = client /\ sent' = sent
        /\ inFlight' = inFlight /\ Acked' = Acked /\ spoiled' = spoiled
    BY DEF ReceiveData, ClientUnchanged, Acked
  <1>2. net' \subseteq net \cup (IF Alive(s) THEN {Ack(s, n)} ELSE {})
    BY DEF ReceiveData, Reply, After
  <1>3. s <= session /\ s \in 1..MaxSessions
    BY PacketPeers DEF Inv, ReceiveData, Sessions
  <1>4. server \in Contexts /\ ContextOK /\ server.key = s
    BY DEF ReceiveData, Accepts, Inv, TypeOK
  <1>5. c \in AllChunks /\ c.from = s
    BY DEF Chunk, AllChunks
  <1>6. server' = Credit(received)
    BY DEF ReceiveData
  <1> HIDE DEF c, received
  <1>7. /\ received \in Contexts
        /\ \A f \in {"born", "ready", "key", "room", "owed"} : received[f] = server[f]
        /\ Ordered(received)
        /\ Content(received) \subseteq Content(server) \cup {c}
        /\ OnlyFrom(server, s) => Content(server) \cup {c} \subseteq Content(received)
    BY <1>4, <1>5, ReceiveKeepsTheStream DEF ContextOK, received
  <1>8. received.room + received.owed = Window
    BY <1>4, <1>7 DEF ContextOK, Contexts
  <1>9. /\ server' \in Contexts
        /\ \A f \in {"born", "ready", "key", "delivered", "reorder"} :
             server'[f] = received[f]
        /\ server'.room + server'.owed = Window
    BY <1>6, <1>7, <1>8, CreditIsConserved
  <1>10. /\ server'.born = server.born /\ server'.key = server.key
         /\ server'.delivered = received.delivered
         /\ server'.reorder = received.reorder
    BY <1>4, <1>7, <1>9 DEF Contexts
  <1>11. Content(server') = Content(received) /\ Ordered(server')
    BY <1>7, <1>10 DEF Content, Ordered
  <1>12. s \notin spoiled => server.born = s
    BY <1>3, <1>4 DEF ContextOK
  <1>13. server.born \notin spoiled => server.born = s /\ OnlyFrom(server, s)
    BY <1>3, <1>4 DEF ContextOK
  <1>14. ContextOK'
    <2>1. server.born \notin spoiled => OnlyFrom(server', server.born)
      BY <1>5, <1>7, <1>11, <1>13 DEF OnlyFrom
    <2> QED  BY <1>1, <1>4, <1>9, <1>10, <1>11, <2>1 DEF ContextOK
  <1>15. TypeOK'
    <2>1. net' \subseteq Packets
      BY <1>2, PacketKinds DEF Inv, TypeOK
    <2> QED  BY <1>1, <1>9, <2>1 DEF Inv, TypeOK
  <1>16. \A p \in net' : p.peer <= session
    BY <1>2, <1>3, PacketPeers DEF Inv
  <1>17. ASSUME session \notin spoiled, NEW m \in Chunks, Kept(m) PROVE Kept(m)'
    <2>1. OnlyFrom(server, s)
      BY <1>13, <1>17 DEF Kept
    <2> QED  BY <1>1, <1>7, <1>9, <1>10, <1>11, <1>17, <2>1, NoContextIsNoContext DEF Kept
  <1>18. ASSUME session \notin spoiled, NEW m \in Chunks, Ack(session, m) \in net',
                Ack(session, m) \notin net
         PROVE  Kept(m)'
    <2>1. Alive(s) /\ Ack(session, m) = Ack(s, n)
      BY <1>2, <1>18
    <2>2. s = session /\ m = n
      BY <2>1, AckIsNoOther
    <2>3. server.born = session /\ OnlyFrom(server, s)
      BY <1>12, <1>13, <1>18, <2>2
    <2>4. Chunk(session, m) \in Content(server')
      BY <1>7, <1>11, <2>2, <2>3 DEF c
    <2> QED  BY <1>1, <1>9, <1>10, <2>3, <2>4, NoContextIsNoContext DEF Kept
  <1>19. session \notin spoiled =>
            \A m \in Chunks : Ack(session, m) \in net' \/ m \in Acked => Kept(m)'
    BY <1>17, <1>18 DEF Inv
  <1> QED  BY <1>1, <1>14, <1>15, <1>16, <1>19 DEF Inv

LEMMA Inductive == Inv /\ [Next]_vars => Inv'
  <1> SUFFICES ASSUME Inv, [Next]_vars PROVE Inv'
    OBVIOUS
  <1>1. CASE Connect
    BY <1>1, ConnectInv
  <1>2. CASE ReceiveInitAck
    BY <1>2, ReceiveInitAckInv
  <1>3. CASE Stop
    BY <1>3, LeaveInv DEF Stop
  <1>4. CASE Close
    <2>1. session \in Sessions
      BY <1>4 DEF Inv, Close
    <2> QED  BY <1>4, <2>1, LeaveInv DEF Close
  <1>5. CASE Send
    BY <1>5, SendInv
  <1>6. CASE \E n \in Chunks : Retransmit(n) \/ ReceiveAck(n)
    BY <1>6, RetransmitInv, ReceiveAckInv
  <1>7. ASSUME NEW s \in Sessions,
               \/ ReceiveInit(s) \/ ReceiveDone(s) \/ ReceiveClose(s)
               \/ \E n \in Chunks : ReceiveData(s, n)
        PROVE  Inv'
    BY <1>7, ReceiveInitInv, ReceiveDoneInv, ReceiveCloseInv, ReceiveDataInv
  <1>8. CASE \E p \in net : Lose(p)
    BY <1>8, LoseInv
  <1>9. CASE UNCHANGED vars
    BY <1>9 DEF vars, Inv, TypeOK, ContextOK, Kept, Acked
  <1> QED  BY <1>1, <1>2, <1>3, <1>4, <1>5, <1>6, <1>7, <1>8, <1>9 DEF Next

THEOREM Invariant == Spec => []Inv
  BY InitInv, Inductive, PTL DEF Spec

-----------------------------------------------------------------------------
(* Every variable has its type.                                            *)
THEOREM TypeCorrect == Spec => []TypeOK
  <1>1. Inv => TypeOK
    BY DEF Inv
  <1> QED  BY <1>1, Invariant, PTL

(* Stream 0 is handed on once and in order, whatever the network did, and  *)
(* by one client unless its context was shared.                            *)
THEOREM DeliversInOrder == Spec => []InOrder
  <1>1. Inv => InOrder
    <2> SUFFICES ASSUME Inv, server # NoContext, NEW i \in DOMAIN server.delivered
                 PROVE  /\ server.delivered[i].at = i - 1
                        /\ server.born \notin spoiled =>
                              server.delivered[i].from = server.born
      BY DEF InOrder
    <2>1. server.delivered[i] \in Content(server)
      BY DEF Content, ToSet
    <2> QED  BY <2>1 DEF Inv, ContextOK, Ordered, OnlyFrom
  <1> QED  BY <1>1, Invariant, PTL

(* What a client of its own context had acknowledged is in the stream.     *)
THEOREM AckedHeld == Spec => []AckedIsHeld
  <1>1. Inv => AckedIsHeld
    <2> SUFFICES ASSUME Inv, client = "ready", session \notin spoiled, NEW n \in Acked
                 PROVE  server # NoContext /\ Held(session, n)
      BY DEF AckedIsHeld
    <2>1. n \in Chunks
      BY Bounds DEF Inv, TypeOK, Acked, Chunks
    <2>2. Kept(n)
      BY <2>1 DEF Inv
    <2> QED  BY <2>2 DEF Kept, Content, Held
  <1> QED  BY <1>1, Invariant, PTL

(* The receive window never refuses a chunk.                               *)
THEOREM WindowStaysOpen == Spec => []NeverRefuses
  <1>1. Inv => NeverRefuses
    <2> SUFFICES ASSUME Inv, server # NoContext PROVE server.room > 0
      BY DEF NeverRefuses
    <2>1. server \in Contexts /\ server.room + server.owed = Window
      BY DEF Inv, TypeOK, ContextOK
    <2>2. /\ server.room \in Int /\ server.owed \in Int /\ server.owed < Threshold
          /\ Threshold <= Window
      BY <2>1, WindowIsLarger DEF Contexts
    <2> QED  BY <2>1, <2>2, WindowIsLarger
  <1> QED  BY <1>1, Invariant, PTL
=============================================================================
