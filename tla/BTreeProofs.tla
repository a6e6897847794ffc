----------------------------- MODULE BTreeProofs -----------------------------
(***************************************************************************)
(* The B+tree for any keys, values, order and page sizes: whatever splits, *)
(* failed writes and crashes do to the pages, short of a split that was    *)
(* left half done, every key is found, in balance and in order.            *)
(***************************************************************************)
EXTENDS BTree, FiniteSetTheorems, SequenceTheorems, TLAPS

-----------------------------------------------------------------------------
(* Induction, and functions defined by recursion on a number.              *)

LEMMA Least ==
    ASSUME NEW T \in SUBSET Nat, T # {}
    PROVE  \E m \in T : \A i \in T : m <= i
  <1>1. PICK k \in T : TRUE
    OBVIOUS
  <1> DEFINE Below == {i \in T : i <= k}
             Segments == {0..m : m \in Below}
  <1>2. IsFiniteSet(0..k)
    BY <1>1, FS_Interval, SMT
  <1>3. IsWellFoundedOn(StrictSubsetOrdering(0..k), FiniteSubsetsOf(0..k))
    BY <1>2, FS_StrictSubsetOrderingWellFounded
  <1>4. Segments \subseteq FiniteSubsetsOf(0..k)
    <2>1. \A m \in Nat : IsFiniteSet(0..m)
      BY FS_Interval, SMT
    <2> QED  BY <2>1 DEF FiniteSubsetsOf
  <1>5. Segments # {}
    BY <1>1
  <1> HIDE DEF Segments
  <1>6. \E X \in Segments : \A Y \in Segments :
            <<Y, X>> \notin StrictSubsetOrdering(0..k)
    BY <1>3, <1>4, <1>5, WFMin
  <1>7. PICK m \in Below : \A j \in Below :
            <<0..j, 0..m>> \notin StrictSubsetOrdering(0..k)
    BY <1>6 DEF Segments
  <1>8. ASSUME NEW i \in T, i < m PROVE FALSE
    <2>1. i <= k /\ i \in Nat /\ m \in Nat /\ k \in Nat
      BY <1>8, <1>7
    <2>2. 0..i \in SUBSET (0..k) /\ 0..m \in SUBSET (0..k)
      BY <2>1, <1>7
    <2>3. 0..i # 0..m /\ 0..i \subseteq 0..m
      BY <2>1, <1>8
    <2>4. <<0..i, 0..m>> \in StrictSubsetOrdering(0..k)
      BY <2>2, <2>3 DEF StrictSubsetOrdering
    <2> QED  BY <2>1, <2>4, <1>7, <1>8
  <1> QED  BY <1>7, <1>8

LEMMA Induction ==
    ASSUME NEW P \in SUBSET Nat, 0 \in P, \A n \in P : n + 1 \in P
    PROVE  P = Nat
  <1>1. SUFFICES ASSUME Nat \ P # {} PROVE FALSE
    OBVIOUS
  <1>2. PICK m \in Nat \ P : \A i \in Nat \ P : m <= i
    BY <1>1, Least
  <1>3. m # 0 /\ m - 1 \in Nat
    BY <1>2
  <1>4. m - 1 \in P
    BY <1>2, <1>3
  <1> QED  BY <1>2, <1>4

(* A walk of n steps from r. *)
WalkOf(f, n, S, r, step) ==
    f \in [0..n -> S] /\ f[0] = r /\ \A i \in 0..(n - 1) : f[i + 1] = step[i][f[i]]

LEMMA WalksAgree ==
    ASSUME NEW S, NEW r, NEW step, NEW m \in Nat, NEW n \in Nat, NEW f, NEW g,
           WalkOf(f, m, S, r, step), WalkOf(g, n, S, r, step), m <= n
    PROVE  \A i \in 0..m : f[i] = g[i]
  <1> DEFINE P == {i \in Nat : i <= m => f[i] = g[i]}
  <1>1. 0 \in P
    BY DEF WalkOf
  <1>2. ASSUME NEW i \in P PROVE i + 1 \in P
    <2>1. CASE i + 1 <= m
      <3>1. i \in 0..(m - 1) /\ i \in 0..(n - 1) /\ f[i] = g[i]
        BY <2>1
      <3> QED  BY <3>1 DEF WalkOf
    <2>2. CASE ~(i + 1 <= m)
      BY <2>2
    <2> QED  BY <2>1, <2>2
  <1> HIDE DEF P
  <1>3. P = Nat
    <2>1. P \in SUBSET Nat
      BY DEF P
    <2> QED  BY <1>1, <1>2, <2>1, Induction
  <1> QED  BY <1>3 DEF P

IsWalk(g, S, r, step) ==
    g \in [Nat -> S] /\ g[0] = r /\ \A d \in Nat : g[d + 1] = step[d][g[d]]

LEMMA WalkExists ==
    ASSUME NEW S, NEW r, NEW step, r \in S, step \in [Nat -> [S -> S]]
    PROVE  \E g : IsWalk(g, S, r, step)
  <1> DEFINE P == {n \in Nat : \E f \in [0..n -> S] : WalkOf(f, n, S, r, step)}
  <1>1. 0 \in P
    <2>1. [i \in 0..0 |-> r] \in [0..0 -> S]
      OBVIOUS
    <2>2. WalkOf([i \in 0..0 |-> r], 0, S, r, step)
      BY <2>1 DEF WalkOf
    <2> QED  BY <2>1, <2>2
  <1>2. ASSUME NEW n \in P PROVE n + 1 \in P
    <2>1. PICK f \in [0..n -> S] : WalkOf(f, n, S, r, step)
      OBVIOUS
    <2> DEFINE g == [i \in 0..(n + 1) |-> IF i = n + 1 THEN step[n][f[n]] ELSE f[i]]
    <2>2. step[n][f[n]] \in S
      <3>1. n \in 0..n
        OBVIOUS
      <3> QED  BY <2>1, <3>1
    <2>3. g \in [0..(n + 1) -> S]
      <3>1. \A i \in 0..(n + 1) : i # n + 1 => i \in 0..n
        OBVIOUS
      <3> QED  BY <2>1, <2>2, <3>1
    <2>4. g[0] = r
      BY <2>1 DEF WalkOf
    <2>5. \A i \in 0..n : g[i + 1] = step[i][g[i]]
      <3>1. ASSUME NEW i \in 0..n PROVE g[i + 1] = step[i][g[i]]
        <4>1. CASE i = n
          BY <4>1
        <4>2. CASE i # n
          <5>1. i \in 0..(n - 1) /\ i + 1 # n + 1 /\ i # n + 1
            BY <4>2
          <5> QED  BY <2>1, <5>1 DEF WalkOf
        <4> QED  BY <4>1, <4>2
      <3> QED  BY <3>1
    <2> HIDE DEF g
    <2>6. WalkOf(g, n + 1, S, r, step)
      BY <2>3, <2>4, <2>5 DEF WalkOf
    <2> QED  BY <2>3, <2>6
  <1> HIDE DEF P
  <1>3. P = Nat
    <2>1. P \in SUBSET Nat
      BY DEF P
    <2> QED  BY <1>1, <1>2, <2>1, Induction
  <1> DEFINE f == [n \in Nat |-> CHOOSE f \in [0..n -> S] : WalkOf(f, n, S, r, step)]
             g == [n \in Nat |-> f[n][n]]
  <1>4. \A n \in Nat : f[n] \in [0..n -> S] /\ WalkOf(f[n], n, S, r, step)
    BY <1>3 DEF P
  <1> HIDE DEF f
  <1>5. g \in [Nat -> S]
    <2>1. ASSUME NEW n \in Nat PROVE f[n][n] \in S
      <3>1. n \in 0..n
        OBVIOUS
      <3> QED  BY <1>4, <3>1
    <2> QED  BY <2>1
  <1>6. g[0] = r
    BY <1>4 DEF WalkOf
  <1>7. ASSUME NEW d \in Nat PROVE g[d + 1] = step[d][g[d]]
    <2>1. WalkOf(f[d], d, S, r, step) /\ WalkOf(f[d + 1], d + 1, S, r, step)
      BY <1>4
    <2>2. f[d][d] = f[d + 1][d]
      <3>1. d \in 0..d /\ d <= d + 1 /\ d + 1 \in Nat
        OBVIOUS
      <3>2. ASSUME NEW a, NEW b, WalkOf(a, d, S, r, step), WalkOf(b, d + 1, S, r, step)
            PROVE  \A i \in 0..d : a[i] = b[i]
        BY <3>1, <3>2, WalksAgree
      <3> QED  BY <2>1, <3>1, <3>2
    <2>3. d \in 0..((d + 1) - 1)
      OBVIOUS
    <2>4. f[d + 1][d + 1] = step[d][f[d + 1][d]]
      BY <2>1, <2>3 DEF WalkOf
    <2> QED  BY <2>2, <2>4
  <1> HIDE DEF g
  <1> QED  BY <1>5, <1>6, <1>7 DEF IsWalk

-----------------------------------------------------------------------------
(* Sequences, and what is put together from them in order.                 *)

Ordered(s, R) == \A a, b \in DOMAIN s : a < b => <<s[a], s[b]>> \in R

LEMMA ToSetOfConcat ==
    ASSUME NEW X, NEW s \in Seq(X), NEW t \in Seq(X)
    PROVE  s \o t \in Seq(X) /\ ToSet(s \o t) = ToSet(s) \cup ToSet(t)
  <1>1. /\ s \o t \in Seq(X) /\ Len(s \o t) = Len(s) + Len(t)
        /\ \A i \in 1..(Len(s) + Len(t)) :
                (s \o t)[i] = IF i <= Len(s) THEN s[i] ELSE t[i - Len(s)]
    BY ConcatProperties
  <1>2. /\ DOMAIN s = 1..Len(s) /\ DOMAIN t = 1..Len(t) /\ DOMAIN (s \o t) = 1..Len(s \o t)
        /\ Len(s) \in Nat /\ Len(t) \in Nat
    BY <1>1, LenProperties
  <1>3. \A i \in DOMAIN (s \o t) : (s \o t)[i] \in ToSet(s) \cup ToSet(t)
    <2>1. ASSUME NEW i \in DOMAIN (s \o t) PROVE (s \o t)[i] \in ToSet(s) \cup ToSet(t)
      <3>1. CASE i <= Len(s)
        <4>1. i \in DOMAIN s /\ (s \o t)[i] = s[i]
          BY <1>1, <1>2, <3>1
        <4> QED  BY <4>1 DEF ToSet
      <3>2. CASE ~(i <= Len(s))
        <4>1. i - Len(s) \in DOMAIN t /\ (s \o t)[i] = t[i - Len(s)]
          BY <1>1, <1>2, <3>2
        <4> QED  BY <4>1 DEF ToSet
      <3> QED  BY <3>1, <3>2
    <2> QED  BY <2>1
  <1>4. \A i \in DOMAIN s : i \in DOMAIN (s \o t) /\ (s \o t)[i] = s[i]
    BY <1>1, <1>2
  <1>5. \A i \in DOMAIN t : i + Len(s) \in DOMAIN (s \o t) /\ (s \o t)[i + Len(s)] = t[i]
    BY <1>1, <1>2
  <1>6. ToSet(s) \subseteq ToSet(s \o t)
    BY <1>4 DEF ToSet
  <1>7. ToSet(t) \subseteq ToSet(s \o t)
    BY <1>5 DEF ToSet
  <1>8. ToSet(s \o t) \subseteq ToSet(s) \cup ToSet(t)
    BY <1>3 DEF ToSet
  <1> QED  BY <1>1, <1>6, <1>7, <1>8

LEMMA OrderOfConcat ==
    ASSUME NEW X, NEW s \in Seq(X), NEW t \in Seq(X), NEW R, Ordered(s, R), Ordered(t, R),
           \A x \in ToSet(s), y \in ToSet(t) : <<x, y>> \in R
    PROVE  Ordered(s \o t, R)
  <1>1. /\ s \o t \in Seq(X) /\ Len(s \o t) = Len(s) + Len(t)
        /\ \A i \in 1..(Len(s) + Len(t)) :
                (s \o t)[i] = IF i <= Len(s) THEN s[i] ELSE t[i - Len(s)]
    BY ConcatProperties
  <1>2. /\ DOMAIN s = 1..Len(s) /\ DOMAIN t = 1..Len(t) /\ DOMAIN (s \o t) = 1..Len(s \o t)
        /\ Len(s) \in Nat /\ Len(t) \in Nat
    BY <1>1, LenProperties
  <1>3. ASSUME NEW a \in DOMAIN (s \o t), NEW b \in DOMAIN (s \o t), a < b
        PROVE  <<(s \o t)[a], (s \o t)[b]>> \in R
    <2>1. CASE b <= Len(s)
      <3>1. a \in DOMAIN s /\ b \in DOMAIN s /\ (s \o t)[a] = s[a] /\ (s \o t)[b] = s[b]
        BY <1>1, <1>2, <1>3, <2>1
      <3> QED  BY <1>3, <3>1 DEF Ordered
    <2>2. CASE a <= Len(s) /\ ~(b <= Len(s))
      <3>1. /\ a \in DOMAIN s /\ b - Len(s) \in DOMAIN t
            /\ (s \o t)[a] = s[a] /\ (s \o t)[b] = t[b - Len(s)]
        BY <1>1, <1>2, <1>3, <2>2
      <3> QED  BY <3>1 DEF ToSet
    <2>3. CASE ~(a <= Len(s))
      <3>1. /\ a - Len(s) \in DOMAIN t /\ b - Len(s) \in DOMAIN t /\ a - Len(s) < b - Len(s)
            /\ (s \o t)[a] = t[a - Len(s)] /\ (s \o t)[b] = t[b - Len(s)]
        BY <1>1, <1>2, <1>3, <2>3
      <3> QED  BY <3>1 DEF Ordered
    <2> QED  BY <1>1, <1>2, <1>3, <2>1, <2>2, <2>3
  <1> QED  BY <1>3 DEF Ordered

(* FlattenSeq holds what the sequences hold, in their order.               *)
LEMMA Flattening ==
    ASSUME NEW X, NEW seqs \in Seq(Seq(X)), NEW R,
           \A j \in DOMAIN seqs : Ordered(seqs[j], R),
           \A i, j \in DOMAIN seqs : i < j =>
                \A x \in ToSet(seqs[i]), y \in ToSet(seqs[j]) : <<x, y>> \in R
    PROVE  /\ FlattenSeq(seqs) \in Seq(X)
           /\ Ordered(FlattenSeq(seqs), R)
           /\ ToSet(FlattenSeq(seqs)) = UNION {ToSet(seqs[j]) : j \in DOMAIN seqs}
  <1> DEFINE n == Len(seqs)
  <1>1. n \in Nat /\ DOMAIN seqs = 1..n /\ \A j \in 1..n : seqs[j] \in Seq(X)
    BY LenProperties, ElementOfSeq
  <1>2. CASE n = 0
    <2>1. seqs = <<>>
      BY <1>2
    <2>2. FlattenSeq(seqs) = <<>>
      BY <1>2, <2>1 DEF FlattenSeq
    <2>3. DOMAIN seqs = {} /\ DOMAIN <<>> = {}
      BY <2>1
    <2>4. UNION {ToSet(seqs[j]) : j \in DOMAIN seqs} = {} /\ ToSet(<<>>) = {}
      BY <2>3 DEF ToSet
    <2> QED  BY <2>2, <2>3, <2>4 DEF Ordered
  <1>3. CASE n # 0
    <2> DEFINE Body(f) == [i \in 1..n |-> IF i = 1 THEN seqs[i] ELSE f[i - 1] \o seqs[i]]
               step == [d \in Nat |-> [s \in Seq(X) |->
                           IF d + 2 \in 1..n THEN s \o seqs[d + 2] ELSE s]]
    <2>1. PICK g \in [Nat -> Seq(X)] : g[0] = seqs[1] /\ \A d \in Nat : g[d + 1] = step[d][g[d]]
      <3>1. seqs[1] \in Seq(X)
        BY <1>1, <1>3
      <3>2. step \in [Nat -> [Seq(X) -> Seq(X)]]
        <4>1. ASSUME NEW d \in Nat, NEW s \in Seq(X)
              PROVE  (IF d + 2 \in 1..n THEN s \o seqs[d + 2] ELSE s) \in Seq(X)
          BY <1>1, ConcatProperties
        <4> QED  BY <4>1
      <3> DEFINE first == seqs[1]
                 S == Seq(X)
      <3> HIDE DEF step, first, S
      <3>3. first \in S /\ step \in [Nat -> [S -> S]]
        BY <3>1, <3>2 DEF first, S
      <3>4. \E g : IsWalk(g, S, first, step)
        BY <3>3, WalkExists
      <3> QED  BY <3>4 DEF first, S, IsWalk
    <2> DEFINE h == [i \in 1..n |-> g[i - 1]]
    <2>2. h = Body(h)
      <3>1. ASSUME NEW i \in 1..n
            PROVE  h[i] = IF i = 1 THEN seqs[i] ELSE h[i - 1] \o seqs[i]
        <4>1. CASE i = 1
          BY <2>1, <4>1
        <4>2. CASE i # 1
          <5>1. i - 2 \in Nat /\ i - 1 \in 1..n /\ (i - 2) + 1 = i - 1 /\ (i - 2) + 2 = i
            BY <1>1, <4>2
          <5>2. g[i - 1] = step[i - 2][g[i - 2]] /\ g[i - 2] \in Seq(X)
            BY <2>1, <5>1
          <5>3. g[i - 1] = g[i - 2] \o seqs[i]
            BY <5>1, <5>2
          <5>4. h[i - 1] = g[i - 2] /\ h[i] = g[i - 1]
            BY <5>1
          <5> QED  BY <4>2, <5>3, <5>4
        <4> QED  BY <4>1, <4>2
      <3> HIDE DEF h
      <3>2. h = [i \in 1..n |-> h[i]]
        BY DEF h
      <3> QED  BY <3>1, <3>2
    <2> HIDE DEF h
    <2> DEFINE flatten == CHOOSE f : f = Body(f)
    <2>3. flatten = Body(flatten)
      BY <2>2
    <2>4. FlattenSeq(seqs) = flatten[n]
      BY <1>3 DEF FlattenSeq
    <2> HIDE DEF flatten
    <2>5. flatten[1] = seqs[1]
          /\ \A i \in 1..n : i # 1 => flatten[i] = flatten[i - 1] \o seqs[i]
      <3>1. \A i \in 1..n : flatten[i] = IF i = 1 THEN seqs[i] ELSE flatten[i - 1] \o seqs[i]
        BY <2>3
      <3>2. 1 \in 1..n
        BY <1>1, <1>3
      <3> QED  BY <3>1, <3>2
    <2> HIDE DEF n
    <2> DEFINE Flat(i) == /\ flatten[i] \in Seq(X)
                          /\ Ordered(flatten[i], R)
                          /\ ToSet(flatten[i]) = UNION {ToSet(seqs[j]) : j \in 1..i}
               P == {i \in Nat : i + 1 <= n => Flat(i + 1)}
    <2>6. 0 \in P
      <3>1. UNION {ToSet(seqs[j]) : j \in 1..1} = ToSet(seqs[1])
        OBVIOUS
      <3> QED  BY <1>1, <1>3, <2>5, <3>1
    <2> HIDE DEF Flat
    <2>7. ASSUME NEW i \in Nat, i + 2 <= n, Flat(i + 1) PROVE Flat(i + 2)
      <3>1. /\ i + 1 \in 1..n /\ i + 2 \in 1..n /\ i + 2 # 1 /\ (i + 2) - 1 = i + 1
            /\ \A j \in 1..(i + 1) : j \in 1..n /\ j < i + 2
        BY <1>1, <2>7
      <3>2. flatten[i + 2] = flatten[i + 1] \o seqs[i + 2]
        BY <2>5, <3>1
      <3>3. \A x \in ToSet(flatten[i + 1]), y \in ToSet(seqs[i + 2]) : <<x, y>> \in R
        <4>1. ASSUME NEW x \in ToSet(flatten[i + 1]), NEW y \in ToSet(seqs[i + 2])
              PROVE  <<x, y>> \in R
          <5>1. PICK j \in 1..(i + 1) : x \in ToSet(seqs[j])
            BY <2>7 DEF Flat
          <5> QED  BY <1>1, <3>1, <5>1
        <4> QED  BY <4>1
      <3>4. seqs[i + 2] \in Seq(X) /\ Ordered(seqs[i + 2], R)
        BY <1>1, <3>1
      <3>5. flatten[i + 2] \in Seq(X)
            /\ ToSet(flatten[i + 2]) = ToSet(flatten[i + 1]) \cup ToSet(seqs[i + 2])
        <4>1. flatten[i + 1] \in Seq(X)
          BY <2>7 DEF Flat
        <4>2. \A s, t \in Seq(X) : s \o t \in Seq(X) /\ ToSet(s \o t) = ToSet(s) \cup ToSet(t)
          BY ToSetOfConcat
        <4> QED  BY <3>2, <3>4, <4>1, <4>2
      <3>6. Ordered(flatten[i + 2], R)
        <4>1. flatten[i + 1] \in Seq(X) /\ Ordered(flatten[i + 1], R)
          BY <2>7 DEF Flat
        <4> QED  BY <3>2, <3>3, <3>4, <4>1, OrderOfConcat
      <3>7. 1..(i + 2) = (1..(i + 1)) \cup {i + 2}
        BY <3>1
      <3>8. UNION {ToSet(seqs[j]) : j \in 1..(i + 2)} =
                (UNION {ToSet(seqs[j]) : j \in 1..(i + 1)}) \cup ToSet(seqs[i + 2])
        BY <3>7
      <3> QED  BY <2>7, <3>5, <3>6, <3>8 DEF Flat
    <2>8. P = Nat
      <3>1. ASSUME NEW i \in P PROVE i + 1 \in P
        <4>1. i \in Nat /\ i + 1 \in Nat /\ (i + 1) + 1 = i + 2 /\ (i + 1 <= n => Flat(i + 1))
          OBVIOUS
        <4>2. i + 2 <= n => i + 1 <= n
          BY <1>1, <4>1
        <4> QED  BY <2>7, <4>1, <4>2
      <3>2. P \in SUBSET Nat
        OBVIOUS
      <3> HIDE DEF P
      <3> QED  BY <2>6, <3>1, <3>2, Induction
    <2>9. n - 1 \in Nat /\ (n - 1) + 1 = n /\ n <= n
      BY <1>1, <1>3
    <2>10. Flat(n)
      <3>1. n - 1 \in P
        BY <2>8, <2>9
      <3> QED  BY <2>9, <3>1
    <2> QED  BY <1>1, <2>4, <2>10 DEF Flat
  <1> QED  BY <1>2, <1>3

LEMMA MinOf ==
    ASSUME NEW S \in SUBSET Nat, S # {}
    PROVE  Min(S) \in S /\ \A x \in S : Min(S) <= x
  <1>1. \E m \in S : \A x \in S : m <= x
    BY Least
  <1> QED  BY <1>1 DEF Min

(* t is s with e at position i.                                            *)
HasAt(t, s, i, e, X) ==
    /\ t \in Seq(X) /\ Len(t) = Len(s) + 1
    /\ \A j \in 1..(Len(s) + 1) :
        t[j] = IF j < i THEN s[j] ELSE IF j = i THEN e ELSE s[j - 1]

LEMMA InsertAtProperties ==
    ASSUME NEW X, NEW s \in Seq(X), NEW i \in 1..(Len(s) + 1), NEW e \in X
    PROVE  HasAt(InsertAt(s, i, e), s, i, e, X)
  <1> DEFINE n == Len(s)
             front == SubSeq(s, 1, i - 1)
             back == SubSeq(s, i, n)
  <1>1. n \in Nat /\ \A j \in 1..n : s[j] \in X
    BY LenProperties, ElementOfSeq
  <1>2. /\ front \in Seq(X) /\ Len(front) = i - 1
        /\ \A j \in 1..(i - 1) : front[j] = s[j]
    <2>1. i - 1 \in Int /\ \A j \in 1..(i - 1) : s[j] \in X
      BY <1>1
    <2>2. /\ front \in Seq(X) /\ Len(front) = IF 1 <= i - 1 THEN (i - 1) - 1 + 1 ELSE 0
          /\ \A j \in 1..((i - 1) - 1 + 1) : front[j] = s[1 + j - 1]
      BY <2>1, SubSeqProperties
    <2> QED  BY <1>1, <2>2
  <1>3. /\ back \in Seq(X) /\ Len(back) = n - i + 1
        /\ \A j \in 1..(n - i + 1) : back[j] = s[i + j - 1]
    <2>1. i \in Int /\ \A j \in i..n : s[j] \in X
      BY <1>1
    <2>2. /\ back \in Seq(X) /\ Len(back) = IF i <= n THEN n - i + 1 ELSE 0
          /\ \A j \in 1..(n - i + 1) : back[j] = s[i + j - 1]
      BY <1>1, <2>1, SubSeqProperties
    <2> QED  BY <1>1, <2>2
  <1>4. <<e>> \in Seq(X) /\ Len(<<e>>) = 1 /\ <<e>>[1] = e
    OBVIOUS
  <1> HIDE DEF front, back
  <1>5. /\ front \o <<e>> \in Seq(X) /\ Len(front \o <<e>>) = i
        /\ \A j \in 1..i : (front \o <<e>>)[j] = IF j < i THEN s[j] ELSE e
    <2>1. /\ front \o <<e>> \in Seq(X) /\ Len(front \o <<e>>) = (i - 1) + 1
          /\ \A j \in 1..((i - 1) + 1) :
                (front \o <<e>>)[j] = IF j <= i - 1 THEN front[j] ELSE <<e>>[j - (i - 1)]
      BY <1>2, <1>4, ConcatProperties
    <2> QED  BY <1>1, <1>2, <1>4, <2>1
  <1> DEFINE both == front \o <<e>>
  <1> HIDE DEF both
  <1>6. /\ both \o back \in Seq(X) /\ Len(both \o back) = i + (n - i + 1)
        /\ \A j \in 1..(i + (n - i + 1)) :
                (both \o back)[j] = IF j <= i THEN both[j] ELSE back[j - i]
    <2>1. both \in Seq(X) /\ Len(both) = i
      BY <1>5 DEF both
    <2>2. /\ both \o back \in Seq(X) /\ Len(both \o back) = Len(both) + Len(back)
          /\ \A j \in 1..(Len(both) + Len(back)) :
                (both \o back)[j] = IF j <= Len(both) THEN both[j] ELSE back[j - Len(both)]
      BY <1>3, <2>1, ConcatProperties
    <2> QED  BY <1>3, <2>1, <2>2
  <1>7. InsertAt(s, i, e) = both \o back
    BY DEF InsertAt, both, front, back
  <1>8. ASSUME NEW j \in 1..(n + 1)
        PROVE  (both \o back)[j] = IF j < i THEN s[j] ELSE IF j = i THEN e ELSE s[j - 1]
    <2>1. CASE j <= i
      <3>1. (both \o back)[j] = both[j] /\ j \in 1..i
        BY <1>1, <1>6, <2>1
      <3> QED  BY <1>5, <2>1, <3>1 DEF both
    <2>2. CASE ~(j <= i)
      <3>1. /\ (both \o back)[j] = back[j - i] /\ j - i \in 1..(n - i + 1)
            /\ i + (j - i) - 1 = j - 1
        BY <1>1, <1>6, <2>2
      <3>2. back[j - i] = s[i + (j - i) - 1]
        BY <1>3, <3>1
      <3> QED  BY <2>2, <3>1, <3>2
    <2> QED  BY <2>1, <2>2
  <1>9. i + (n - i + 1) = n + 1
    BY <1>1
  <1>10. HasAt(both \o back, s, i, e, X)
    BY <1>6, <1>8, <1>9 DEF HasAt
  <1> QED  BY <1>7, <1>10

LEMMA RemoveAtProperties ==
    ASSUME NEW X, NEW s \in Seq(X), NEW i \in 1..Len(s)
    PROVE  /\ RemoveAt(s, i) \in Seq(X)
           /\ Len(RemoveAt(s, i)) = Len(s) - 1
           /\ \A j \in 1..(Len(s) - 1) :
                RemoveAt(s, i)[j] = IF j < i THEN s[j] ELSE s[j + 1]
  <1> DEFINE n == Len(s)
             front == SubSeq(s, 1, i - 1)
             back == SubSeq(s, i + 1, n)
  <1>1. n \in Nat /\ \A j \in 1..n : s[j] \in X
    BY LenProperties, ElementOfSeq
  <1>2. /\ front \in Seq(X) /\ Len(front) = i - 1
        /\ \A j \in 1..(i - 1) : front[j] = s[j]
    <2>1. i - 1 \in Int /\ \A j \in 1..(i - 1) : s[j] \in X
      BY <1>1
    <2>2. /\ front \in Seq(X) /\ Len(front) = IF 1 <= i - 1 THEN (i - 1) - 1 + 1 ELSE 0
          /\ \A j \in 1..((i - 1) - 1 + 1) : front[j] = s[1 + j - 1]
      BY <2>1, SubSeqProperties
    <2> QED  BY <1>1, <2>2
  <1>3. /\ back \in Seq(X) /\ Len(back) = n - i
        /\ \A j \in 1..(n - i) : back[j] = s[i + j]
    <2>1. i + 1 \in Int /\ \A j \in (i + 1)..n : s[j] \in X
      BY <1>1
    <2>2. /\ back \in Seq(X) /\ Len(back) = IF i + 1 <= n THEN n - (i + 1) + 1 ELSE 0
          /\ \A j \in 1..(n - (i + 1) + 1) : back[j] = s[(i + 1) + j - 1]
      BY <1>1, <2>1, SubSeqProperties
    <2> QED  BY <1>1, <2>2
  <1> HIDE DEF front, back
  <1>4. /\ front \o back \in Seq(X) /\ Len(front \o back) = (i - 1) + (n - i)
        /\ \A j \in 1..((i - 1) + (n - i)) :
                (front \o back)[j] = IF j <= i - 1 THEN front[j] ELSE back[j - (i - 1)]
    <2>1. /\ front \o back \in Seq(X) /\ Len(front \o back) = Len(front) + Len(back)
          /\ \A j \in 1..(Len(front) + Len(back)) :
                (front \o back)[j] = IF j <= Len(front) THEN front[j] ELSE back[j - Len(front)]
      BY <1>2, <1>3, ConcatProperties
    <2> QED  BY <1>2, <1>3, <2>1
  <1>5. RemoveAt(s, i) = front \o back
    BY DEF RemoveAt, front, back
  <1>6. ASSUME NEW j \in 1..(n - 1)
        PROVE  (front \o back)[j] = IF j < i THEN s[j] ELSE s[j + 1]
    <2>1. CASE j < i
      <3>1. (front \o back)[j] = front[j] /\ j \in 1..(i - 1)
        BY <1>1, <1>4, <2>1
      <3> QED  BY <1>2, <2>1, <3>1
    <2>2. CASE ~(j < i)
      <3>1. /\ (front \o back)[j] = back[j - (i - 1)] /\ j - (i - 1) \in 1..(n - i)
            /\ i + (j - (i - 1)) = j + 1
        BY <1>1, <1>4, <2>2
      <3>2. back[j - (i - 1)] = s[i + (j - (i - 1))]
        BY <1>3, <3>1
      <3> QED  BY <2>2, <3>1, <3>2
    <2> QED  BY <2>1, <2>2
  <1>7. (i - 1) + (n - i) = n - 1
    BY <1>1
  <1> QED  BY <1>4, <1>5, <1>6, <1>7

LEMMA FrontProperties ==
    ASSUME NEW X, NEW s \in Seq(X), s # <<>>
    PROVE  /\ Front(s) \in Seq(X) /\ Len(Front(s)) = Len(s) - 1
           /\ \A i \in 1..(Len(s) - 1) : Front(s)[i] = s[i]
           /\ Last(s) \in X /\ Len(s) \in Nat \ {0}
  <1>1. Len(s) \in Nat \ {0} /\ \A i \in 1..Len(s) : s[i] \in X
    BY EmptySeq, ElementOfSeq
  <1>2. \A i \in 1..(Len(s) - 1) : s[i] \in X
    BY <1>1
  <1>3. Len(s) - 1 \in Int
    BY <1>1
  <1> DEFINE n == Len(s)
  <1>4. /\ SubSeq(s, 1, n - 1) \in Seq(X)
        /\ Len(SubSeq(s, 1, n - 1)) = IF 1 <= n - 1 THEN (n - 1) - 1 + 1 ELSE 0
        /\ \A i \in 1..((n - 1) - 1 + 1) : SubSeq(s, 1, n - 1)[i] = s[1 + i - 1]
    BY <1>2, <1>3, SubSeqProperties
  <1>5. n \in 1..n
    BY <1>1
  <1>6. Front(s) = SubSeq(s, 1, n - 1)
    BY DEF Front
  <1>7. (IF 1 <= n - 1 THEN (n - 1) - 1 + 1 ELSE 0) = n - 1 /\ (n - 1) - 1 + 1 = n - 1
    <2>1. n \in Nat /\ n # 0
      BY <1>1
    <2> HIDE DEF n
    <2> QED  BY <2>1
  <1>8. \A i \in 1..(n - 1) : 1 + i - 1 = i
    OBVIOUS
  <1>9. Last(s) \in X
    BY <1>1, <1>5 DEF Last
  <1> HIDE DEF n
  <1> QED  BY <1>1, <1>4, <1>6, <1>7, <1>8, <1>9 DEF n

(* A piece of a sequence: the elements a + 1 to b.                         *)
LEMMA Piece ==
    ASSUME NEW X, NEW s \in Seq(X), NEW a \in Nat, NEW b \in Nat, a <= b, b <= Len(s)
    PROVE  /\ SubSeq(s, a + 1, b) \in Seq(X) /\ Len(SubSeq(s, a + 1, b)) = b - a
           /\ DOMAIN SubSeq(s, a + 1, b) = 1..(b - a)
           /\ \A i \in 1..(b - a) : SubSeq(s, a + 1, b)[i] = s[a + i]
  <1>1. Len(s) \in Nat /\ \A i \in 1..Len(s) : s[i] \in X
    BY LenProperties, ElementOfSeq
  <1>2. a + 1 \in Int /\ b \in Int /\ \A i \in (a + 1)..b : s[i] \in X
    BY <1>1
  <1>3. /\ SubSeq(s, a + 1, b) \in Seq(X)
        /\ Len(SubSeq(s, a + 1, b)) = IF a + 1 <= b THEN b - (a + 1) + 1 ELSE 0
        /\ \A i \in 1..(b - (a + 1) + 1) : SubSeq(s, a + 1, b)[i] = s[(a + 1) + i - 1]
    BY <1>2, SubSeqProperties
  <1>4. DOMAIN SubSeq(s, a + 1, b) = 1..Len(SubSeq(s, a + 1, b))
    BY <1>3, LenProperties
  <1>5. Len(SubSeq(s, a + 1, b)) = b - a
    BY <1>3
  <1>6. ASSUME NEW i \in 1..(b - a) PROVE SubSeq(s, a + 1, b)[i] = s[a + i]
    <2>1. i \in 1..(b - (a + 1) + 1) /\ (a + 1) + i - 1 = a + i
      OBVIOUS
    <2> QED  BY <1>3, <2>1
  <1> QED  BY <1>3, <1>4, <1>5, <1>6

-----------------------------------------------------------------------------
(* The invariant.                                                          *)

(* A shape says where the keys belong, whatever the leaves hold: the pages *)
(* of a tree, how far each is above the leaves, which keys are looked for  *)
(* below it, and the place of a leaf in the chain.                         *)
Shapes ==
    [pages : SUBSET Pages, height : [Pages -> Nat], span : [Pages -> SUBSET Keys],
     rank : [Pages -> Nat], leaves : Nat]

LeavesOf(w) == {p \in w.pages : w.height[p] = 0}

(* From the root every key is looked for, ...                              *)
Rooted(w, r, used) ==
    /\ r \in w.pages /\ w.span[r] = Keys
    /\ w.pages \subseteq 1..used /\ \A p \in w.pages : w.height[p] <= w.height[r]
    /\ w.height[r] < used /\ w.leaves <= used

(* ... on each level in one page, and no page is in vain, ...              *)
Apart(w) ==
    /\ \A p \in w.pages : w.span[p] # {}
    /\ \A p, q \in w.pages :
        p # q /\ w.height[p] = w.height[q] => w.span[p] \cap w.span[q] = {}

(* ... and the chain of the leaves is in the order of the keys.            *)
Before(S, R) == \A k \in S, l \in R : k < l
InOrder(w) ==
    /\ \E p \in LeavesOf(w) : w.rank[p] = 1
    /\ \A p \in LeavesOf(w) : w.rank[p] \in 1..w.leaves
    /\ \A p, q \in LeavesOf(w) :
        /\ w.rank[p] < w.rank[q] => Before(w.span[p], w.span[q])
        /\ w.rank[p] = w.rank[q] => p = q

Good(w, r, used) == w \in Shapes /\ Rooted(w, r, used) /\ Apart(w) /\ InOrder(w)

(* A leaf of the shape: its entries are in order and where they belong,    *)
(* and every key has a value that it may have, or none if it may.          *)
Entries == [key : Keys, val : Values]
EntriesOK(entries, S, may) ==
    /\ entries \in Seq(Entries)
    /\ \A i \in DOMAIN entries : entries[i].key \in S /\ entries[i].val \in may[entries[i].key]
    /\ \A i, j \in DOMAIN entries : i < j => entries[i].key < entries[j].key
    /\ \A k \in S : (\A i \in DOMAIN entries : entries[i].key # k) => NoValue \in may[k]
LeafOK(n, S, may) == n \in Leaves /\ EntriesOK(n.entries, S, may)

LinkOK(n, p, w) ==
    IF w.rank[p] = w.leaves THEN n.next = None
    ELSE n.next \in LeavesOf(w) /\ w.rank[n.next] = w.rank[p] + 1

Sorted(keys) == \A i, j \in DOMAIN keys : i < j => keys[i] < keys[j]
KeysOf(keys) == keys \in Seq(Keys) /\ Sorted(keys)

(* An internal node: the separators cut its span in the shares of its      *)
(* children.                                                               *)
Share(keys, S, i) ==
    {k \in S : (i > 1 => keys[i - 1] <= k) /\ (i <= Len(keys) => k < keys[i])}
InternalOK(n, p, w) ==
    /\ n \in Internals /\ KeysOf(n.keys)
    /\ Len(n.keys) > 0 /\ Len(n.children) = Len(n.keys) + 1
    /\ \A i \in DOMAIN n.children :
        /\ n.children[i] \in w.pages
        /\ w.height[p] = w.height[n.children[i]] + 1
        /\ w.span[n.children[i]] = Share(n.keys, w.span[p], i)

NodeOK(n, p, w, may) ==
    IF w.height[p] = 0 THEN LeafOK(n, w.span[p], may) /\ LinkOK(n, p, w)
    ELSE InternalOK(n, p, w)

SizeOK(n, most) == Len(IF IsLeaf(n) THEN n.entries ELSE n.keys) <= most

(* The pages have the shape; the page wide may have a key too many.        *)
Tree(pgs, w, may, wide) ==
    \A p \in w.pages :
        /\ NodeOK(pgs[p], p, w, may)
        /\ SizeOK(pgs[p], IF p = wide THEN Order + 1 ELSE Order)

-----------------------------------------------------------------------------
(* What the pages are going to be once the operation in progress has done  *)
(* its writes and its separator is in the parent, or in a new root.        *)
Climbs == up # NoUp
Grows == Climbs /\ up.path = <<>>
Joint == IF Grows THEN count ELSE Last(up.path)
Joined == IF Grows THEN Internal(<<up.sep>>, <<up.left, up.right>>) ELSE Adopted

Coming(pgs, p) ==
    IF work # <<>> /\ work[1].page = p THEN work[1].node
    ELSE IF Len(work) = 2 /\ work[2].page = p THEN work[2].node
    ELSE IF Climbs /\ p = Joint THEN Joined
    ELSE pgs[p]
Future(pgs) == [p \in Pages |-> Coming(pgs, p)]

NextRoot ==
    IF Grows THEN count
    ELSE IF work # <<>> /\ work[Len(work)].page = None THEN work[Len(work)].root
    ELSE root
Used == IF Grows THEN count ELSE count - 1
Wide == IF Climbs /\ ~Grows THEN Last(up.path) ELSE None
May == [allowed EXCEPT ![op.key] = {op.val}]

IsChild(c, n) == n \in Internals /\ \E i \in DOMAIN n.children : n.children[i] = c
OnPath(w) ==
    Climbs =>
        /\ \A i \in DOMAIN up.path : /\ up.path[i] \in w.pages
                                     /\ w.height[up.path[i]] + i = w.height[root] + 1
        /\ \A i \in 1..(Len(up.path) - 1) : IsChild(up.path[i + 1], Future(cache)[up.path[i]])
        /\ up.path # <<>> => up.path[1] = root

-----------------------------------------------------------------------------
(* The one write of an operation that splits nothing.                      *)
OneLeaf(w) ==
    /\ Len(work) = 1
    /\ work[1].page \in LeavesOf(w) /\ op.key \in w.span[work[1].page]
    /\ NodeOK(work[1].node, work[1].page, w, May) /\ SizeOK(work[1].node, Order)

StandingAs(w) ==
    /\ Good(w, root, count - 1)
    /\ Tree(cache, w, allowed, None) /\ Tree(file, w, allowed, None)
    /\ pc = "busy" /\ up = NoUp => OneLeaf(w)
Standing == \E w \in Shapes : StandingAs(w)

OnDiskAs(w) == Good(w, header.root, header.count - 1) /\ Tree(file, w, allowed, None)
OnDisk == \E w \in Shapes : OnDiskAs(w)

BecomingAs(w) ==
    /\ Good(w, NextRoot, Used)
    /\ Tree(Future(cache), w, May, Wide) /\ Tree(Future(file), w, May, Wide)
    /\ OnPath(w)
Becoming == \E w \in Shapes : BecomingAs(w)

(* Nodes that can be read, even after a split was left half done.          *)
Whole(n) == IsLeaf(n) \/ n.children = <<>> \/ Len(n.children) = Len(n.keys) + 1

Resting ==
    /\ pc # "busy" => work = <<>> /\ up = NoUp /\ ~began
    /\ pc = "busy" => op.key \in Keys /\ op.val \in allowed[op.key]
    /\ pc = "busy" /\ work = <<>> => began /\ up # NoUp
    /\ pc = "down" => cache = file
    /\ pc # "down" => root \in Pages
    /\ cutShort => up = NoUp

Headed ==
    /\ header.root = None => header.count = 1 /\ pc = "down" /\ ~cutShort
                             /\ \A k \in Keys : NoValue \in allowed[k]
    /\ pc # "down" /\ ~cutShort => header = [root |-> root, count |-> count]

Pending ==
    /\ Len(work) <= 2
    /\ Len(work) = 2 => work[1].page \in Pages /\ work[1].page # work[2].page
    /\ work # <<>> /\ work[1].page = None => began
    /\ Climbs => /\ count + Len(up.path) <= MaxPages
                 /\ \A i \in DOMAIN work : work[i].page \in Pages \ {Joint}

Sound ==
    /\ \A p \in Pages : Whole(cache[p]) /\ Whole(file[p])
    /\ \A i \in DOMAIN work : work[i].page # None => Whole(work[i].node)

Shaped ==
    ~cutShort =>
        /\ pc = "down" /\ header.root # None => OnDisk
        /\ pc = "idle" \/ (pc = "busy" /\ ~began) => Standing
        /\ pc = "busy" /\ (began \/ Climbs) => Becoming

IInv == TypeOK /\ Resting /\ Headed /\ Pending /\ Sound /\ Shaped

-----------------------------------------------------------------------------
(* Nodes.                                                                  *)

LEMMA Numbers ==
    /\ Order \in Nat /\ Order > 1 /\ MaxPages \in Nat /\ MaxPages > 1 /\ MaxFaults \in Nat
    /\ Keys \subseteq Int /\ Keys # {} /\ NoValue \notin Values
  BY Bounds, KeysAreOrdered, ValuesAreLengths

LEMMA LeafFacts ==
    ASSUME NEW n \in Leaves
    PROVE  /\ IsLeaf(n) /\ n.entries \in Seq(Entries) /\ n.next \in Child /\ n.prev \in Child
           /\ Len(n.entries) \in Nat /\ DOMAIN n.entries = 1..Len(n.entries)
           /\ \A i \in DOMAIN n.entries :
                /\ n.entries[i] \in Entries
                /\ n.entries[i].key \in Keys /\ n.entries[i].key \in Int
                /\ n.entries[i].val \in Values
  <1>1. /\ IsLeaf(n) /\ n.entries \in Seq(Entries) /\ n.next \in Child /\ n.prev \in Child
    BY DEF Leaves, IsLeaf, Entries
  <1>2. Len(n.entries) \in Nat /\ DOMAIN n.entries = 1..Len(n.entries)
        /\ \A i \in DOMAIN n.entries : n.entries[i] \in Entries
    BY <1>1, LenProperties, ElementOfSeq
  <1>3. \A e \in Entries : e.key \in Keys /\ e.key \in Int /\ e.val \in Values
    BY Numbers DEF Entries
  <1> QED  BY <1>1, <1>2, <1>3

LEMMA InternalFacts ==
    ASSUME NEW n \in Internals
    PROVE  /\ ~IsLeaf(n) /\ n.keys \in Seq(Keys) /\ n.children \in Seq(Pages)
           /\ Len(n.keys) \in Nat /\ DOMAIN n.keys = 1..Len(n.keys)
           /\ Len(n.children) \in Nat /\ DOMAIN n.children = 1..Len(n.children)
           /\ \A i \in DOMAIN n.keys : n.keys[i] \in Keys /\ n.keys[i] \in Int
           /\ \A i \in DOMAIN n.children : n.children[i] \in Pages
  <1>1. ~IsLeaf(n) /\ n.keys \in Seq(Keys) /\ n.children \in Seq(Pages)
    BY DEF Internals, IsLeaf
  <1>2. /\ Len(n.keys) \in Nat /\ DOMAIN n.keys = 1..Len(n.keys)
        /\ \A i \in DOMAIN n.keys : n.keys[i] \in Keys
    BY <1>1, LenProperties, ElementOfSeq
  <1>3. /\ Len(n.children) \in Nat /\ DOMAIN n.children = 1..Len(n.children)
        /\ \A i \in DOMAIN n.children : n.children[i] \in Pages
    BY <1>1, LenProperties, ElementOfSeq
  <1> QED  BY <1>1, <1>2, <1>3, Numbers

LEMMA EntryFacts ==
    ASSUME NEW entries \in Seq(Entries)
    PROVE  /\ Len(entries) \in Nat /\ DOMAIN entries = 1..Len(entries)
           /\ \A i \in DOMAIN entries :
                /\ entries[i] \in Entries
                /\ entries[i].key \in Keys /\ entries[i].key \in Int /\ entries[i].val \in Values
  <1>1. Len(entries) \in Nat /\ DOMAIN entries = 1..Len(entries)
        /\ \A i \in DOMAIN entries : entries[i] \in Entries
    BY LenProperties, ElementOfSeq
  <1>2. \A e \in Entries : e.key \in Keys /\ e.key \in Int /\ e.val \in Values
    BY Numbers DEF Entries
  <1> QED  BY <1>1, <1>2

LEMMA AtIsThere ==
    ASSUME NEW n, NEW k, HasKey(n, k)
    PROVE  At(n, k) \in DOMAIN n.entries /\ n.entries[At(n, k)].key = k
  BY DEF HasKey, At

(* More may be allowed.                                                    *)
LEMMA MoreIsAllowed ==
    ASSUME NEW entries, NEW S, NEW may, NEW more, EntriesOK(entries, S, may),
           \A k \in S : may[k] \subseteq more[k]
    PROVE  EntriesOK(entries, S, more)
  BY DEF EntriesOK

(* Changing a value, taking an entry out and putting one in keep the order.*)
LEMMA UpdatedOK ==
    ASSUME NEW entries, NEW S, NEW may, NEW more, EntriesOK(entries, S, may),
           NEW a \in DOMAIN entries, NEW v \in Values, v \in more[entries[a].key],
           \A k \in S \ {entries[a].key} : more[k] = may[k]
    PROVE  /\ EntriesOK([entries EXCEPT ![a].val = v], S, more)
           /\ Len([entries EXCEPT ![a].val = v]) = Len(entries)
  <1> DEFINE new == [entries EXCEPT ![a].val = v]
  <1>1. entries \in Seq(Entries)
    BY DEF EntriesOK
  <1>2. /\ Len(entries) \in Nat /\ DOMAIN entries = 1..Len(entries)
        /\ \A i \in DOMAIN entries : entries[i] \in Entries /\ entries[i].key \in Int
    BY <1>1, EntryFacts
  <1>3. [entries[a] EXCEPT !.val = v] \in Entries
        /\ [entries[a] EXCEPT !.val = v].key = entries[a].key
        /\ [entries[a] EXCEPT !.val = v].val = v
    BY <1>2 DEF Entries
  <1>4. new = [entries EXCEPT ![a] = [entries[a] EXCEPT !.val = v]]
    OBVIOUS
  <1>5. /\ new \in Seq(Entries) /\ Len(new) = Len(entries)
        /\ \A i \in DOMAIN entries : new[i] = IF i = a THEN [entries[a] EXCEPT !.val = v] ELSE entries[i]
    BY <1>1, <1>2, <1>3, <1>4, ExceptSeq
  <1> HIDE DEF new
  <1>6. DOMAIN new = DOMAIN entries
    BY <1>2, <1>5, EntryFacts
  <1>7. \A i \in DOMAIN new : new[i].key = entries[i].key
    BY <1>3, <1>5, <1>6
  <1>8. \A i \in DOMAIN new : new[i].key \in S /\ new[i].val \in more[new[i].key]
    <2>1. ASSUME NEW i \in DOMAIN new PROVE new[i].key \in S /\ new[i].val \in more[new[i].key]
      <3>1. CASE i = a
        BY <1>3, <1>5, <1>6, <3>1 DEF EntriesOK
      <3>2. CASE i # a
        <4>1. entries[i].key # entries[a].key
          BY <1>2, <1>6, <3>2 DEF EntriesOK
        <4>2. new[i] = entries[i]
          BY <1>5, <1>6, <3>2
        <4> QED  BY <1>6, <4>1, <4>2 DEF EntriesOK
      <3> QED  BY <3>1, <3>2
    <2> QED  BY <2>1
  <1>9. \A i, j \in DOMAIN new : i < j => new[i].key < new[j].key
    BY <1>6, <1>7 DEF EntriesOK
  <1>10. ASSUME NEW k \in S, \A i \in DOMAIN new : new[i].key # k
         PROVE  NoValue \in more[k]
    <2>1. \A i \in DOMAIN entries : entries[i].key # k
      BY <1>6, <1>7, <1>10
    <2> QED  BY <2>1 DEF EntriesOK
  <1> QED  BY <1>5, <1>8, <1>9, <1>10 DEF EntriesOK, new

LEMMA DeletedOK ==
    ASSUME NEW entries, NEW S, NEW may, NEW more, EntriesOK(entries, S, may),
           NEW a \in DOMAIN entries, NoValue \in more[entries[a].key],
           \A k \in S \ {entries[a].key} : more[k] = may[k]
    PROVE  /\ EntriesOK(RemoveAt(entries, a), S, more)
           /\ Len(RemoveAt(entries, a)) <= Len(entries)
  <1> DEFINE new == RemoveAt(entries, a)
             n == Len(entries)
             old == [j \in 1..(n - 1) |-> IF j < a THEN j ELSE j + 1]
  <1>1. entries \in Seq(Entries)
    BY DEF EntriesOK
  <1>2. /\ n \in Nat /\ DOMAIN entries = 1..n /\ a \in 1..n
        /\ \A i \in DOMAIN entries : entries[i] \in Entries /\ entries[i].key \in Int
    BY <1>1, EntryFacts
  <1>3. /\ new \in Seq(Entries) /\ Len(new) = n - 1
        /\ \A j \in 1..(n - 1) : new[j] = IF j < a THEN entries[j] ELSE entries[j + 1]
    BY <1>1, <1>2, RemoveAtProperties
  <1> HIDE DEF new
  <1>4. DOMAIN new = 1..(n - 1)
    BY <1>3, EntryFacts
  <1> HIDE DEF n
  <1>5. /\ \A j \in 1..(n - 1) : old[j] \in 1..n /\ old[j] # a /\ new[j] = entries[old[j]]
        /\ \A i, j \in 1..(n - 1) : i < j => old[i] < old[j]
        /\ \A i \in 1..n : i # a => \E j \in 1..(n - 1) : old[j] = i
    <2>1. \A j \in 1..(n - 1) : old[j] \in 1..n /\ old[j] # a
      BY <1>2
    <2>2. \A j \in 1..(n - 1) : new[j] = entries[old[j]]
      BY <1>2, <1>3
    <2>3. \A i, j \in 1..(n - 1) : i < j => old[i] < old[j]
      BY <1>2
    <2>4. ASSUME NEW i \in 1..n, i # a PROVE \E j \in 1..(n - 1) : old[j] = i
      <3>1. CASE i < a
        <4>1. i \in 1..(n - 1) /\ old[i] = i
          BY <1>2, <3>1
        <4> QED  BY <4>1
      <3>2. CASE ~(i < a)
        <4>1. i - 1 \in 1..(n - 1) /\ old[i - 1] = i
          BY <1>2, <2>4, <3>2
        <4> QED  BY <4>1
      <3> QED  BY <3>1, <3>2
    <2> QED  BY <2>1, <2>2, <2>3, <2>4
  <1> HIDE DEF old
  <1>6. \A i \in 1..n : i # a => entries[i].key # entries[a].key
    BY <1>2 DEF EntriesOK
  <1>7. \A i \in DOMAIN new : new[i].key \in S /\ new[i].val \in more[new[i].key]
    <2>1. ASSUME NEW i \in DOMAIN new PROVE new[i].key \in S /\ new[i].val \in more[new[i].key]
      <3>1. old[i] \in 1..n /\ old[i] # a /\ new[i] = entries[old[i]]
        BY <1>4, <1>5
      <3>2. entries[old[i]].key # entries[a].key
        BY <1>6, <3>1
      <3> QED  BY <1>2, <3>1, <3>2 DEF EntriesOK
    <2> QED  BY <2>1
  <1>8. ASSUME NEW i \in DOMAIN new, NEW j \in DOMAIN new, i < j
        PROVE  new[i].key < new[j].key
    <2>1. old[i] \in 1..n /\ old[j] \in 1..n /\ old[i] < old[j]
      BY <1>4, <1>5, <1>8
    <2>2. new[i] = entries[old[i]] /\ new[j] = entries[old[j]]
      BY <1>4, <1>5
    <2> QED  BY <1>2, <2>1, <2>2 DEF EntriesOK
  <1>9. ASSUME NEW k \in S, \A i \in DOMAIN new : new[i].key # k
        PROVE  NoValue \in more[k]
    <2>1. CASE k = entries[a].key
      BY <2>1
    <2>2. CASE k # entries[a].key
      <3>1. ASSUME NEW i \in 1..n PROVE entries[i].key # k
        <4>1. CASE i = a
          BY <2>2, <4>1
        <4>2. CASE i # a
          <5>1. PICK j \in 1..(n - 1) : old[j] = i
            BY <1>5, <4>2
          <5>2. new[j] = entries[i]
            BY <1>5, <5>1
          <5> QED  BY <1>4, <1>9, <5>2
        <4> QED  BY <4>1, <4>2
      <3> QED  BY <1>2, <2>2, <3>1 DEF EntriesOK
    <2> QED  BY <2>1, <2>2
  <1> HIDE DEF old
  <1>10. EntriesOK(new, S, more)
    BY <1>3, <1>7, <1>8, <1>9 DEF EntriesOK
  <1> QED  BY <1>2, <1>3, <1>10 DEF new, n

LEMMA FirstOfIsFirst ==
    ASSUME NEW X, NEW s \in Seq(X), NEW T \in SUBSET (DOMAIN s),
           \A i, j \in DOMAIN s : i \in T /\ i < j => j \in T
    PROVE  /\ FirstOf(T, s) \in 1..(Len(s) + 1)
           /\ \A i \in DOMAIN s : i \in T <=> FirstOf(T, s) <= i
  <1>1. Len(s) \in Nat /\ DOMAIN s = 1..Len(s)
    BY LenProperties
  <1>2. CASE T = {}
    BY <1>1, <1>2 DEF FirstOf
  <1>3. CASE T # {}
    <2>1. FirstOf(T, s) \in T /\ \A i \in T : FirstOf(T, s) <= i
      BY <1>1, <1>3, MinOf DEF FirstOf
    <2> HIDE DEF FirstOf
    <2> QED  BY <1>1, <2>1
  <1> QED  BY <1>2, <1>3

(* The places of the old entries after one was put in at a.                *)
LEMMA InsertedOK ==
    ASSUME NEW n, NEW S, NEW may, NEW more, EntriesOK(n.entries, S, may),
           NEW k \in S, k \in Keys, NEW v \in Values, v \in more[k],
           ~HasKey(n, k), \A l \in S \ {k} : more[l] = may[l]
    PROVE  /\ EntriesOK(Inserted(n, k, v), S, more)
           /\ Len(Inserted(n, k, v)) = Len(n.entries) + 1
  <1> DEFINE entries == n.entries
             new == Inserted(n, k, v)
             m == Len(entries)
             larger == {i \in DOMAIN entries : k < entries[i].key}
             a == FirstOf(larger, entries)
  <1>1. entries \in Seq(Entries)
    BY DEF EntriesOK
  <1>2. /\ m \in Nat /\ DOMAIN entries = 1..m /\ k \in Int
        /\ \A i \in DOMAIN entries : entries[i] \in Entries /\ entries[i].key \in Int
    BY <1>1, EntryFacts, Numbers
  <1>3. \A i, j \in DOMAIN entries : i < j => entries[i].key < entries[j].key
    BY DEF EntriesOK
  <1>4. \A i, j \in DOMAIN entries : i \in larger /\ i < j => j \in larger
    <2>1. ASSUME NEW i \in DOMAIN entries, NEW j \in DOMAIN entries, i < j, k < entries[i].key
          PROVE  k < entries[j].key
      <3>1. entries[i].key < entries[j].key
        BY <1>3, <2>1
      <3> QED  BY <1>2, <2>1, <3>1
    <2> QED  BY <2>1
  <1>5. /\ a \in 1..(m + 1)
        /\ \A i \in DOMAIN entries : i \in larger <=> a <= i
    <2> DEFINE T == larger
    <2>1. T \in SUBSET (DOMAIN entries)
      OBVIOUS
    <2>2. \A i, j \in DOMAIN entries : i \in T /\ i < j => j \in T
      BY <1>4
    <2> HIDE DEF T
    <2>3. /\ FirstOf(T, entries) \in 1..(m + 1)
          /\ \A i \in DOMAIN entries : i \in T <=> FirstOf(T, entries) <= i
      BY <1>1, <2>1, <2>2, FirstOfIsFirst
    <2> QED  BY <2>3 DEF T
  <1>6. new = InsertAt(entries, a, Entry(k, v))
    BY DEF Inserted
  <1>7. Entry(k, v) \in Entries /\ Entry(k, v).key = k /\ Entry(k, v).val = v
    BY DEF Entry, Entries
  <1>8. /\ \A i \in 1..m : a <= i => k < entries[i].key
        /\ \A i \in 1..m : i < a => entries[i].key < k
    <2>1. \A i \in 1..m : a <= i => k < entries[i].key
      BY <1>2, <1>5
    <2>2. ASSUME NEW i \in 1..m, i < a PROVE entries[i].key < k
      <3>1. ~(k < entries[i].key)
        <4>1. ~(a <= i)
          BY <1>2, <1>5, <2>2
        <4> QED  BY <1>2, <1>5, <4>1
      <3>2. entries[i].key # k
        BY <1>2 DEF HasKey
      <3> QED  BY <1>2, <3>1, <3>2
    <2> QED  BY <2>1, <2>2
  <1> HIDE DEF a, larger
  <1>9. /\ new \in Seq(Entries) /\ Len(new) = m + 1
        /\ \A j \in 1..(m + 1) :
            new[j] = IF j < a THEN entries[j] ELSE IF j = a THEN Entry(k, v) ELSE entries[j - 1]
    <2> DEFINE e == Entry(k, v)
    <2>1. e \in Entries
      BY <1>7
    <2> HIDE DEF e
    <2> HIDE DEF entries
    <2>2. entries \in Seq(Entries) /\ a \in 1..(Len(entries) + 1)
      BY <1>1, <1>5
    <2>3. HasAt(InsertAt(entries, a, e), entries, a, e, Entries)
      BY <2>1, <2>2, InsertAtProperties
    <2> QED  BY <1>6, <2>3 DEF e, HasAt
  <1> HIDE DEF new
  <1>10. DOMAIN new = 1..(m + 1)
    BY <1>9, EntryFacts
  <1> HIDE DEF m
  <1>11. ASSUME NEW j \in 1..(m + 1)
         PROVE  new[j].key \in S /\ new[j].val \in more[new[j].key]
    <2>1. \A i \in 1..m : entries[i].key \in S /\ entries[i].key # k
                          /\ entries[i].val \in may[entries[i].key]
      BY <1>2 DEF EntriesOK, HasKey
    <2>2. \A i \in 1..m : entries[i].key \in S /\ entries[i].val \in more[entries[i].key]
      BY <2>1
    <2>3. CASE j = a
      BY <1>7, <1>9, <2>3
    <2>4. CASE j < a
      <3>1. j \in 1..m /\ new[j] = entries[j]
        BY <1>2, <1>5, <1>9, <2>4
      <3> QED  BY <2>2, <3>1
    <2>5. CASE a < j
      <3>1. j - 1 \in 1..m /\ new[j] = entries[j - 1]
        BY <1>2, <1>5, <1>9, <2>5
      <3> QED  BY <2>2, <3>1
    <2> QED  BY <1>2, <1>5, <2>3, <2>4, <2>5
  <1>12. ASSUME NEW i \in 1..(m + 1), NEW j \in 1..(m + 1), i < j
         PROVE  new[i].key < new[j].key
    <2> DEFINE key == [l \in 1..m |-> entries[l].key]
               newkey == [l \in 1..(m + 1) |-> new[l].key]
    <2>1. /\ \A l \in 1..m : key[l] \in Int
          /\ \A h, l \in 1..m : h < l => key[h] < key[l]
          /\ \A l \in 1..m : (a <= l => k < key[l]) /\ (l < a => key[l] < k)
      BY <1>2, <1>3, <1>8
    <2>2. ASSUME NEW l \in 1..(m + 1)
          PROVE  newkey[l] = IF l < a THEN key[l] ELSE IF l = a THEN k ELSE key[l - 1]
      <3>1. CASE l = a
        BY <1>7, <1>9, <3>1
      <3>2. CASE l < a
        <4>1. l \in 1..m
          BY <1>2, <1>5, <3>2
        <4> QED  BY <1>9, <3>2, <4>1
      <3>3. CASE a < l
        <4>1. l - 1 \in 1..m /\ ~(l < a) /\ l # a
          BY <1>2, <1>5, <3>3
        <4> QED  BY <1>9, <4>1
      <3> QED  BY <1>2, <1>5, <3>1, <3>2, <3>3
    <2> HIDE DEF key, newkey
    <2>3. newkey[i] < newkey[j]
      <3>1. CASE j < a
        BY <1>2, <1>5, <1>12, <2>1, <2>2, <3>1
      <3>2. CASE j = a
        <4>1. i \in 1..m /\ i < a
          BY <1>2, <1>5, <1>12, <3>2
        <4> QED  BY <2>1, <2>2, <3>2, <4>1
      <3>3. CASE a < j
        <4>1. j - 1 \in 1..m /\ a <= j - 1 /\ newkey[j] = key[j - 1]
          BY <1>2, <1>5, <2>2, <3>3
        <4>2. CASE i = a
          BY <2>1, <2>2, <4>1, <4>2
        <4>3. CASE i < a
          <5>1. i \in 1..m /\ i < j - 1 /\ newkey[i] = key[i]
            BY <1>2, <1>5, <2>2, <3>3, <4>3
          <5> QED  BY <2>1, <4>1, <5>1
        <4>4. CASE a < i
          <5>1. i - 1 \in 1..m /\ i - 1 < j - 1 /\ newkey[i] = key[i - 1]
            BY <1>2, <1>5, <1>12, <2>2, <4>4
          <5> QED  BY <2>1, <4>1, <5>1
        <4> QED  BY <1>5, <4>2, <4>3, <4>4
      <3> QED  BY <1>5, <3>1, <3>2, <3>3
    <2> QED  BY <2>3 DEF newkey
  <1>13. ASSUME NEW l \in S, \A i \in DOMAIN new : new[i].key # l
         PROVE  NoValue \in more[l]
    <2>1. l # k
      BY <1>5, <1>7, <1>9, <1>10, <1>13
    <2>2. ASSUME NEW i \in 1..m PROVE entries[i].key # l
      <3>1. CASE i < a
        <4>1. i \in 1..(m + 1) /\ new[i] = entries[i]
          BY <1>2, <1>9, <3>1
        <4> QED  BY <1>10, <1>13, <4>1
      <3>2. CASE a <= i
        <4>1. i + 1 \in 1..(m + 1) /\ new[i + 1] = entries[i]
          <5>1. i + 1 \in 1..(m + 1) /\ ~(i + 1 < a) /\ i + 1 # a /\ (i + 1) - 1 = i
            BY <1>2, <1>5, <3>2
          <5> QED  BY <1>9, <5>1
        <4> QED  BY <1>10, <1>13, <4>1
      <3> QED  BY <1>2, <1>5, <3>1, <3>2
    <2> QED  BY <1>2, <2>1, <2>2 DEF EntriesOK
  <1>14. EntriesOK(new, S, more)
    BY <1>9, <1>10, <1>11, <1>12, <1>13 DEF EntriesOK
  <1> QED  BY <1>9, <1>14 DEF new, m

(* What a split makes of the entries: the keys below the separator and the *)
(* others.                                                                 *)
LEMMA PieceOK ==
    ASSUME NEW entries, NEW S, NEW may, EntriesOK(entries, S, may), NEW T \in SUBSET S,
           NEW a \in Nat, NEW b \in Nat, a <= b, b <= Len(entries),
           \A i \in DOMAIN entries : entries[i].key \in T <=> a < i /\ i <= b
    PROVE  EntriesOK(SubSeq(entries, a + 1, b), T, may)
  <1> DEFINE new == SubSeq(entries, a + 1, b)
  <1>1. entries \in Seq(Entries)
    BY DEF EntriesOK
  <1>2. Len(entries) \in Nat /\ DOMAIN entries = 1..Len(entries)
    BY <1>1, EntryFacts
  <1>3. /\ new \in Seq(Entries) /\ DOMAIN new = 1..(b - a)
        /\ \A i \in 1..(b - a) : new[i] = entries[a + i]
    BY <1>1, Piece
  <1> HIDE DEF new
  <1>4. \A i \in 1..(b - a) : a + i \in DOMAIN entries /\ a < a + i /\ a + i <= b
    BY <1>2
  <1>5. \A i \in DOMAIN new : new[i].key \in T /\ new[i].val \in may[new[i].key]
    BY <1>3, <1>4 DEF EntriesOK
  <1>6. ASSUME NEW i \in DOMAIN new, NEW j \in DOMAIN new, i < j
        PROVE  new[i].key < new[j].key
    <2>1. a + i < a + j
      BY <1>3, <1>6
    <2> QED  BY <1>3, <1>4, <2>1 DEF EntriesOK
  <1>7. ASSUME NEW k \in T, \A i \in DOMAIN new : new[i].key # k
        PROVE  NoValue \in may[k]
    <2>1. ASSUME NEW i \in DOMAIN entries, entries[i].key = k PROVE FALSE
      <3>1. a < i /\ i <= b
        BY <2>1
      <3>2. i - a \in 1..(b - a) /\ a + (i - a) = i
        BY <1>2, <3>1
      <3> QED  BY <1>3, <1>7, <2>1, <3>2
    <2> QED  BY <2>1 DEF EntriesOK
  <1>8. EntriesOK(new, T, may)
    BY <1>3, <1>5, <1>6, <1>7 DEF EntriesOK
  <1> QED  BY <1>8 DEF new

Low(S, sep) == {k \in S : k < sep}
High(S, sep) == {k \in S : sep <= k}

LEMMA EntriesSplit ==
    ASSUME NEW entries, NEW S \in SUBSET Keys, NEW may, EntriesOK(entries, S, may),
           Len(entries) = Order + 1
    PROVE  LET n == Len(entries)
               mid == n \div 2
               sep == entries[mid + 1].key
           IN  /\ EntriesOK(SubSeq(entries, 1, mid), Low(S, sep), may)
               /\ EntriesOK(SubSeq(entries, mid + 1, n), High(S, sep), may)
               /\ Len(SubSeq(entries, 1, mid)) <= Order
               /\ Len(SubSeq(entries, mid + 1, n)) <= Order
               /\ SubSeq(entries, mid + 1, n)[1].key = sep
               /\ sep \in S /\ Low(S, sep) # {} /\ High(S, sep) # {}
  <1> DEFINE n == Len(entries)
             mid == n \div 2
             sep == entries[mid + 1].key
  <1>1. entries \in Seq(Entries)
    BY DEF EntriesOK
  <1>2. /\ DOMAIN entries = 1..n
        /\ \A i \in DOMAIN entries : entries[i].key \in S /\ entries[i].key \in Int
    BY <1>1, EntryFacts DEF EntriesOK
  <1>3. \A i, j \in DOMAIN entries : i < j => entries[i].key < entries[j].key
    BY DEF EntriesOK
  <1>4. /\ n \in Nat /\ mid \in Nat /\ 0 < mid /\ mid < n /\ mid <= Order /\ n - mid <= Order
        /\ mid + 1 \in 1..n /\ 1 \in 1..n
    BY Numbers
  <1> HIDE DEF mid
  <1>5. sep \in S /\ sep \in Int
    BY <1>2, <1>4
  <1>6. /\ \A i \in DOMAIN entries : entries[i].key \in Low(S, sep) <=> 0 < i /\ i <= mid
        /\ \A i \in DOMAIN entries : entries[i].key \in High(S, sep) <=> mid < i /\ i <= n
    <2>1. ASSUME NEW i \in 1..n
          PROVE  /\ i <= mid => entries[i].key < sep
                 /\ mid < i => sep <= entries[i].key
      <3>1. CASE i <= mid
        <4>1. i < mid + 1
          BY <1>4, <3>1
        <4> QED  BY <1>2, <1>3, <1>4, <3>1, <4>1
      <3>2. CASE i = mid + 1
        BY <1>4, <1>5, <3>2
      <3>3. CASE mid + 1 < i
        <4>1. sep < entries[i].key
          BY <1>2, <1>3, <1>4, <3>3
        <4> QED  BY <1>2, <1>4, <1>5, <3>3, <4>1
      <3> QED  BY <1>4, <3>1, <3>2, <3>3
    <2>2. ASSUME NEW i \in 1..n
          PROVE  /\ entries[i].key \in Low(S, sep) <=> 0 < i /\ i <= mid
                 /\ entries[i].key \in High(S, sep) <=> mid < i /\ i <= n
      <3> DEFINE key == entries[i].key
      <3>1. key \in S /\ key \in Int /\ (i <= mid => key < sep) /\ (mid < i => sep <= key)
        BY <1>2, <2>1
      <3> HIDE DEF key, sep
      <3>2. key \in Low(S, sep) <=> 0 < i /\ i <= mid
        BY <1>4, <1>5, <3>1 DEF Low
      <3>3. key \in High(S, sep) <=> mid < i /\ i <= n
        BY <1>4, <1>5, <3>1 DEF High
      <3> QED  BY <3>2, <3>3 DEF key
    <2> QED  BY <1>2, <2>2
  <1> HIDE DEF sep
  <1>7. Low(S, sep) \in SUBSET S /\ High(S, sep) \in SUBSET S
    BY DEF Low, High
  <1>8. EntriesOK(SubSeq(entries, 1, mid), Low(S, sep), may)
    <2> DEFINE z == 0
    <2>1. z \in Nat /\ z <= mid /\ mid <= n /\ z + 1 = 1
      BY <1>4
    <2>2. \A i \in DOMAIN entries : entries[i].key \in Low(S, sep) <=> z < i /\ i <= mid
      BY <1>6
    <2> HIDE DEF z
    <2>3. EntriesOK(SubSeq(entries, z + 1, mid), Low(S, sep), may)
      BY <1>4, <1>7, <2>1, <2>2, PieceOK
    <2> QED  BY <2>1, <2>3
  <1>9. EntriesOK(SubSeq(entries, mid + 1, n), High(S, sep), may)
    BY <1>4, <1>6, <1>7, PieceOK
  <1>10. Len(SubSeq(entries, 1, mid)) = mid
    <2>1. Len(SubSeq(entries, 0 + 1, mid)) = mid - 0
      BY <1>1, <1>4, Piece
    <2> QED  BY <1>4, <2>1
  <1>11. Len(SubSeq(entries, mid + 1, n)) = n - mid
         /\ SubSeq(entries, mid + 1, n)[1] = entries[mid + 1]
    <2>1. 1 \in 1..(n - mid)
      BY <1>4
    <2> QED  BY <1>1, <1>4, <2>1, Piece
  <1>12. Low(S, sep) # {} /\ High(S, sep) # {}
    <2>1. entries[1].key \in Low(S, sep) /\ entries[mid + 1].key \in High(S, sep)
      BY <1>2, <1>4, <1>6
    <2> QED  BY <2>1
  <1> QED  BY <1>4, <1>5, <1>8, <1>9, <1>10, <1>11, <1>12 DEF sep, mid

-----------------------------------------------------------------------------
(* Separators.                                                             *)

LEMMA KeyFacts ==
    ASSUME NEW keys, KeysOf(keys)
    PROVE  /\ Len(keys) \in Nat /\ DOMAIN keys = 1..Len(keys)
           /\ \A i \in 1..Len(keys) : keys[i] \in Keys /\ keys[i] \in Int
           /\ \A i, j \in 1..Len(keys) : i < j => keys[i] < keys[j]
           /\ \A i, j \in 1..Len(keys) : i <= j => keys[i] <= keys[j]
  <1>1. /\ Len(keys) \in Nat /\ DOMAIN keys = 1..Len(keys)
        /\ \A i \in 1..Len(keys) : keys[i] \in Keys
    BY LenProperties, ElementOfSeq DEF KeysOf
  <1>2. \A i \in 1..Len(keys) : keys[i] \in Int
    BY <1>1, Numbers
  <1>3. \A i, j \in 1..Len(keys) : i < j => keys[i] < keys[j]
    BY <1>1 DEF KeysOf, Sorted
  <1>4. ASSUME NEW i \in 1..Len(keys), NEW j \in 1..Len(keys), i <= j PROVE keys[i] <= keys[j]
    <2>1. CASE i = j
      BY <1>2, <2>1
    <2>2. CASE i < j
      <3>1. keys[i] < keys[j] /\ keys[i] \in Int /\ keys[j] \in Int
        BY <1>2, <1>3, <2>2
      <3> QED  BY <3>1
    <2> QED  BY <1>4, <2>1, <2>2
  <1> QED  BY <1>1, <1>2, <1>3, <1>4

(* No key is in two shares.                                                *)
LEMMA SharesApart ==
    ASSUME NEW keys, KeysOf(keys), NEW S \in SUBSET Keys,
           NEW i \in 1..(Len(keys) + 1), NEW j \in 1..(Len(keys) + 1),
           NEW k \in Share(keys, S, i), k \in Share(keys, S, j)
    PROVE  i = j
  <1>1. ASSUME NEW a \in 1..(Len(keys) + 1), NEW b \in 1..(Len(keys) + 1), a < b,
               k \in Share(keys, S, a), k \in Share(keys, S, b)
        PROVE  FALSE
    <2>1. Len(keys) \in Nat
      BY KeyFacts
    <2>2. a \in 1..Len(keys) /\ b - 1 \in 1..Len(keys) /\ a <= b - 1
      BY <1>1, <2>1
    <2>3. k < keys[a] /\ keys[b - 1] <= k /\ k \in Int
      BY <1>1, <2>1, <2>2, Numbers DEF Share
    <2>4. keys[a] <= keys[b - 1] /\ keys[a] \in Int /\ keys[b - 1] \in Int
      BY <2>2, KeyFacts
    <2> QED  BY <2>3, <2>4
  <1>2. i < j \/ j < i \/ i = j
    BY KeyFacts
  <1> QED  BY <1>1, <1>2

(* ChooseChild goes to the child in whose share the key is.                *)
LEMMA ChoosesTheShare ==
    ASSUME NEW n \in Internals, KeysOf(n.keys), Len(n.children) = Len(n.keys) + 1,
           NEW S \in SUBSET Keys, NEW k \in S
    PROVE  \E i \in DOMAIN n.children :
                ChooseChild(n, k) = n.children[i] /\ k \in Share(n.keys, S, i)
  <1> DEFINE above == {i \in DOMAIN n.keys : k < n.keys[i]}
             m == Len(n.keys)
  <1>1. m \in Nat /\ DOMAIN n.keys = 1..m /\ DOMAIN n.children = 1..(m + 1) /\ k \in Int
    BY InternalFacts, Numbers
  <1>2. \A i \in 1..m : n.keys[i] \in Int
    BY KeyFacts
  <1>3. CASE above = {}
    <2>1. ChooseChild(n, k) = n.children[m + 1]
      BY <1>3 DEF ChooseChild, Last
    <2>2. \A i \in 1..m : n.keys[i] <= k
      BY <1>1, <1>2, <1>3
    <2> HIDE DEF m
    <2>3. k \in Share(n.keys, S, m + 1)
      <3>1. m + 1 > 1 => n.keys[(m + 1) - 1] <= k
        <4>1. m + 1 > 1 => m \in 1..m /\ (m + 1) - 1 = m
          BY <1>1
        <4> QED  BY <2>2, <4>1
      <3>2. ~(m + 1 <= m)
        BY <1>1
      <3> QED  BY <3>1, <3>2 DEF Share, m
    <2>4. m + 1 \in DOMAIN n.children
      BY <1>1
    <2> QED  BY <2>1, <2>3, <2>4
  <1>4. CASE above # {}
    <2> DEFINE i == Min(above)
    <2>1. i \in above /\ \A x \in above : i <= x
      <3>1. above \in SUBSET Nat
        BY <1>1
      <3> HIDE DEF above
      <3> QED  BY <1>4, <3>1, MinOf
    <2>2. ChooseChild(n, k) = n.children[i]
      BY <1>4 DEF ChooseChild
    <2> HIDE DEF i
    <2>3. i \in 1..m /\ i \in 1..(m + 1) /\ k < n.keys[i]
      BY <1>1, <2>1
    <2>4. i > 1 => n.keys[i - 1] <= k
      <3>1. ASSUME i > 1 PROVE n.keys[i - 1] <= k
        <4>1. i - 1 \in 1..m /\ ~(i <= i - 1)
          BY <1>1, <2>3, <3>1
        <4>2. ~(k < n.keys[i - 1])
          BY <1>1, <2>1, <4>1
        <4> QED  BY <1>1, <1>2, <4>1, <4>2
      <3> QED  BY <3>1
    <2>5. k \in Share(n.keys, S, i)
      BY <2>3, <2>4 DEF Share
    <2> QED  BY <1>1, <2>2, <2>3, <2>5
  <1> QED  BY <1>3, <1>4

(* insertIntoParent: the separator and the new child go next to the child  *)
(* that was split, whose share they divide.                                *)
Adoption(n, sep, right) ==
    LET pos == FirstOf({i \in DOMAIN n.keys : sep <= n.keys[i]}, n.keys)
    IN  Internal(InsertAt(n.keys, pos, sep), InsertAt(n.children, pos + 1, right))

Divided(keys, S, j, sep) ==
    Low(Share(keys, S, j), sep) # {} /\ High(Share(keys, S, j), sep) # {}

LEMMA SeparatorIsBetween ==
    ASSUME NEW keys, KeysOf(keys), NEW S \in SUBSET Keys, NEW j \in 1..(Len(keys) + 1),
           NEW sep \in Keys, Divided(keys, S, j, sep)
    PROVE  /\ \A i \in 1..Len(keys) : i < j => keys[i] < sep
           /\ \A i \in 1..Len(keys) : j <= i => sep < keys[i]
           /\ FirstOf({i \in DOMAIN keys : sep <= keys[i]}, keys) = j
  <1> DEFINE m == Len(keys)
             T == {i \in DOMAIN keys : sep <= keys[i]}
  <1>1. /\ m \in Nat /\ DOMAIN keys = 1..m /\ sep \in Int
        /\ \A i \in 1..m : keys[i] \in Int
        /\ \A a, b \in 1..m : a <= b => keys[a] <= keys[b]
    BY KeyFacts, Numbers
  <1>2. PICK k \in S : k \in Low(Share(keys, S, j), sep)
    BY DEF Divided, Low, Share
  <1>3. PICK l \in S : l \in High(Share(keys, S, j), sep)
    BY DEF Divided, High, Share
  <1>4. k \in Int /\ l \in Int /\ k < sep /\ sep <= l
        /\ (j > 1 => keys[j - 1] <= k) /\ (j <= m => l < keys[j])
    BY <1>2, <1>3, Numbers DEF Low, High, Share
  <1> HIDE DEF m
  <1>5. ASSUME NEW i \in 1..m, i < j PROVE keys[i] < sep
    <2>1. j - 1 \in 1..m /\ i <= j - 1 /\ j > 1
      BY <1>1, <1>5 DEF m
    <2>2. keys[i] <= keys[j - 1] /\ keys[j - 1] <= k /\ keys[i] \in Int /\ keys[j - 1] \in Int
      BY <1>1, <1>4, <2>1
    <2> QED  BY <1>1, <1>4, <2>2
  <1>6. ASSUME NEW i \in 1..m, j <= i PROVE sep < keys[i]
    <2>1. j \in 1..m /\ j <= m
      BY <1>1, <1>6 DEF m
    <2>2. keys[j] <= keys[i] /\ l < keys[j] /\ keys[i] \in Int /\ keys[j] \in Int
      BY <1>1, <1>4, <1>6, <2>1
    <2> QED  BY <1>1, <1>4, <2>2
  <1>7. \A i \in 1..m : i \in T <=> j <= i
    <2>1. ASSUME NEW i \in 1..m PROVE sep <= keys[i] <=> j <= i
      <3>1. CASE j <= i
        BY <1>1, <1>6, <3>1
      <3>2. CASE i < j
        BY <1>1, <1>5, <3>2 DEF m
      <3> QED  BY <1>1, <3>1, <3>2 DEF m
    <2> QED  BY <1>1, <2>1
  <1>8. FirstOf(T, keys) = j
    <2>1. T \in SUBSET Nat
      BY <1>1
    <2> HIDE DEF T
    <2>2. CASE j = m + 1
      <3>1. T \subseteq 1..m
        BY <1>1 DEF T
      <3>2. T = {}
        BY <1>1, <1>7, <2>2, <3>1
      <3> QED  BY <2>2, <3>2 DEF FirstOf, m
    <2>3. CASE j # m + 1
      <3>1. j \in 1..m
        BY <1>1, <2>3 DEF m
      <3>2. j \in T
        BY <1>1, <1>7, <3>1
      <3>3. Min(T) \in T /\ Min(T) <= j
        BY <2>1, <3>2, MinOf
      <3>4. Min(T) \in 1..m
        BY <1>1, <3>3 DEF T
      <3>5. j <= Min(T)
        BY <1>7, <3>3, <3>4
      <3>6. Min(T) = j
        BY <3>1, <3>3, <3>4, <3>5, <1>1
      <3> QED  BY <3>2, <3>6 DEF FirstOf
    <2> QED  BY <2>2, <2>3
  <1> QED  BY <1>5, <1>6, <1>8 DEF m, T

Adopts(m, n, S, j, sep, right) ==
    /\ m \in Internals /\ KeysOf(m.keys)
    /\ Len(m.keys) = Len(n.keys) + 1 /\ Len(m.children) = Len(n.keys) + 2
    /\ \A i \in 1..(Len(n.keys) + 2) :
         /\ m.children[i] = IF i <= j THEN n.children[i]
                            ELSE IF i = j + 1 THEN right ELSE n.children[i - 1]
         /\ Share(m.keys, S, i) = IF i < j THEN Share(n.keys, S, i)
                                  ELSE IF i = j THEN Low(Share(n.keys, S, j), sep)
                                  ELSE IF i = j + 1 THEN High(Share(n.keys, S, j), sep)
                                  ELSE Share(n.keys, S, i - 1)

LEMMA AdoptionOK ==
    ASSUME NEW n \in Internals, KeysOf(n.keys), Len(n.children) = Len(n.keys) + 1,
           NEW S \in SUBSET Keys, NEW j \in 1..(Len(n.keys) + 1), NEW sep \in Keys,
           NEW right \in Pages, Divided(n.keys, S, j, sep)
    PROVE  Adopts(Adoption(n, sep, right), n, S, j, sep, right)
  <1> DEFINE keys == n.keys
             kids == n.children
  <1>0. /\ KeysOf(keys) /\ keys \in Seq(Keys) /\ kids \in Seq(Pages)
        /\ j \in 1..(Len(keys) + 1) /\ Divided(keys, S, j, sep) /\ Len(kids) = Len(keys) + 1
        /\ Len(keys) \in Nat
    BY InternalFacts
  <1>a. Adoption(n, sep, right) =
            Internal(InsertAt(keys, FirstOf({i \in DOMAIN keys : sep <= keys[i]}, keys), sep),
                     InsertAt(kids, FirstOf({i \in DOMAIN keys : sep <= keys[i]}, keys) + 1, right))
    BY DEF Adoption
  <1> HIDE DEF keys, kids
  <1> DEFINE new == InsertAt(keys, j, sep)
             children == InsertAt(kids, j + 1, right)
  <1>b. PICK c \in Nat : c = Len(keys)
    BY <1>0
  <1>1. /\ c = Len(keys) /\ j \in 1..(c + 1) /\ Len(kids) = c + 1
        /\ c \in Nat /\ DOMAIN keys = 1..c /\ sep \in Int
        /\ \A i \in 1..c : keys[i] \in Keys /\ keys[i] \in Int
        /\ \A a, b \in 1..c : a < b => keys[a] < keys[b]
    BY <1>0, <1>b, KeyFacts, Numbers
  <1>2. /\ \A i \in 1..c : i < j => keys[i] < sep
        /\ \A i \in 1..c : j <= i => sep < keys[i]
        /\ FirstOf({i \in DOMAIN keys : sep <= keys[i]}, keys) = j
    BY <1>0, <1>b, SeparatorIsBetween
  <1>3. Adoption(n, sep, right) = Internal(new, children)
    BY <1>2, <1>a
  <1>5. /\ new \in Seq(Keys) /\ Len(new) = c + 1
        /\ \A i \in 1..(c + 1) : new[i] = IF i < j THEN keys[i] ELSE IF i = j THEN sep ELSE keys[i - 1]
    <2>1. HasAt(new, keys, j, sep, Keys)
      BY <1>0, InsertAtProperties
    <2> HIDE DEF new
    <2> QED  BY <1>b, <2>1 DEF HasAt
  <1>6. /\ children \in Seq(Pages) /\ Len(children) = c + 2
        /\ \A i \in 1..(c + 2) :
            children[i] = IF i < j + 1 THEN kids[i]
                          ELSE IF i = j + 1 THEN right ELSE kids[i - 1]
    <2>1. j + 1 \in 1..(Len(kids) + 1) /\ Len(kids) + 1 = c + 2
      BY <1>0, <1>b
    <2> DEFINE at == j + 1
    <2> HIDE DEF at
    <2>a. at \in 1..(Len(kids) + 1)
      BY <2>1 DEF at
    <2>0. kids \in Seq(Pages)
      BY <1>0
    <2>b. HasAt(InsertAt(kids, at, right), kids, at, right, Pages)
      BY <2>0, <2>a, InsertAtProperties
    <2>2. /\ children \in Seq(Pages) /\ Len(children) = Len(kids) + 1
          /\ \A i \in 1..(Len(kids) + 1) :
              children[i] = IF i < j + 1 THEN kids[i]
                            ELSE IF i = j + 1 THEN right ELSE kids[i - 1]
      BY <2>b DEF at, HasAt
    <2> QED  BY <2>1, <2>2
  <1> HIDE DEF new, children
  <1>7. Internal(new, children) \in Internals
        /\ Internal(new, children).keys = new /\ Internal(new, children).children = children
    BY <1>5, <1>6 DEF Internal, Internals
  <1>8. DOMAIN new = 1..(c + 1)
    BY <1>5, LenProperties
  <1>9. KeysOf(new)
    <2>1. ASSUME NEW a \in 1..(c + 1), NEW b \in 1..(c + 1), a < b PROVE new[a] < new[b]
      <3>1. CASE b < j
        <4>1. a \in 1..c /\ b \in 1..c /\ a < j
          BY <1>0, <1>b, <2>1, <3>1
        <4> QED  BY <1>1, <1>5, <2>1, <3>1, <4>1
      <3>2. CASE b = j
        <4>1. a \in 1..c /\ a < j
          BY <1>1, <2>1, <3>2
        <4> QED  BY <1>2, <1>5, <3>2, <4>1
      <3>3. CASE j < b
        <4>1. b - 1 \in 1..c /\ j <= b - 1 /\ new[b] = keys[b - 1]
          BY <1>1, <1>5, <3>3
        <4>2. CASE a = j
          BY <1>2, <1>5, <4>1, <4>2
        <4>3. CASE a < j
          <5>1. a \in 1..c /\ a < b - 1 /\ new[a] = keys[a]
            BY <1>1, <1>5, <3>3, <4>3
          <5> QED  BY <1>1, <4>1, <5>1
        <4>4. CASE j < a
          <5>1. a - 1 \in 1..c /\ a - 1 < b - 1 /\ new[a] = keys[a - 1]
            BY <1>1, <1>5, <2>1, <4>4
          <5> QED  BY <1>1, <4>1, <5>1
        <4> QED  BY <1>1, <4>2, <4>3, <4>4
      <3> QED  BY <1>1, <3>1, <3>2, <3>3
    <2> QED  BY <1>5, <1>8, <2>1 DEF KeysOf, Sorted
  <1>10. ASSUME NEW i \in 1..(c + 2)
         PROVE  Share(new, S, i) = IF i < j THEN Share(keys, S, i)
                                   ELSE IF i = j THEN Low(Share(keys, S, j), sep)
                                   ELSE IF i = j + 1 THEN High(Share(keys, S, j), sep)
                                   ELSE Share(keys, S, i - 1)
    <2>1. \A k \in S : k \in Int
      BY Numbers
    <2>2. CASE i < j
      <3>1. i \in 1..c /\ i <= c + 1 /\ i <= c /\ new[i] = keys[i]
            /\ (i > 1 => new[i - 1] = keys[i - 1])
        <4>1. i \in 1..c /\ i \in 1..(c + 1) /\ (i > 1 => i - 1 \in 1..(c + 1) /\ i - 1 < j)
          BY <1>0, <1>b, <2>2
        <4> QED  BY <1>5, <2>2, <4>1
      <3> QED  BY <1>1, <1>5, <2>2, <3>1 DEF Share
    <2>3. CASE i = j
      <3>1. i <= c + 1 /\ new[i] = sep /\ (i > 1 => new[i - 1] = keys[i - 1])
        <4>1. i \in 1..(c + 1) /\ ~(i < j) /\ (i > 1 => i - 1 \in 1..(c + 1) /\ i - 1 < j)
          BY <1>1, <2>3
        <4> QED  BY <1>5, <2>3, <4>1
      <3>2. i <= c => sep < keys[i]
        BY <1>1, <1>2, <2>3
      <3>3. ASSUME NEW k \in S PROVE k \in Share(new, S, i) <=> k \in Low(Share(keys, S, j), sep)
        <4>1. k < sep => (i <= c => k < keys[i])
          <5>1. i <= c => i \in 1..c
            BY <1>1
          <5> QED  BY <1>1, <2>1, <3>2, <5>1
        <4> QED  BY <1>1, <1>5, <2>3, <3>1, <4>1 DEF Share, Low
      <3> QED  BY <2>3, <3>3 DEF Share, Low
    <2>4. CASE i = j + 1
      <3>1. /\ i > 1 /\ new[i - 1] = sep /\ (i <= c + 1 => new[i] = keys[i - 1])
            /\ i - 1 = j
        <4>1. /\ i > 1 /\ i - 1 = j /\ i - 1 \in 1..(c + 1)
              /\ (i <= c + 1 => i \in 1..(c + 1) /\ ~(i < j) /\ i # j)
          BY <1>0, <1>b, <2>4
        <4> QED  BY <1>5, <4>1
      <3>2. j > 1 => keys[j - 1] < sep
        <4>1. j > 1 => j - 1 \in 1..c /\ j - 1 < j
          BY <1>1
        <4> QED  BY <1>2, <4>1
      <3>3. ASSUME NEW k \in S PROVE k \in Share(new, S, i) <=> k \in High(Share(keys, S, j), sep)
        <4>1. sep <= k => (j > 1 => keys[j - 1] <= k)
          <5>1. j > 1 => j - 1 \in 1..c
            BY <1>1
          <5> QED  BY <1>1, <2>1, <3>2, <5>1
        <4>2. i <= c + 1 <=> j <= c
          BY <1>1, <2>4
        <4> QED  BY <1>1, <1>5, <2>4, <3>1, <4>1, <4>2 DEF Share, High
      <3>4. ~(i < j) /\ i # j
        BY <2>4
      <3> QED  BY <2>4, <3>3, <3>4 DEF Share, High
    <2>5. CASE i > j + 1
      <3>1. /\ i > 1 /\ i - 1 > 1 /\ new[i - 1] = keys[(i - 1) - 1]
            /\ (i <= c + 1 => new[i] = keys[i - 1]) /\ (i <= c + 1 <=> i - 1 <= c)
        <4>1. /\ i > 1 /\ i - 1 > 1 /\ i - 1 \in 1..(c + 1) /\ ~(i - 1 < j) /\ i - 1 # j
              /\ (i <= c + 1 => i \in 1..(c + 1) /\ ~(i < j) /\ i # j)
              /\ (i <= c + 1 <=> i - 1 <= c)
          BY <1>0, <1>b, <2>5
        <4> QED  BY <1>5, <4>1
      <3>2. ~(i < j) /\ i # j /\ i # j + 1
        BY <2>5
      <3> QED  BY <1>1, <1>5, <3>1, <3>2 DEF Share
    <2> QED  BY <1>1, <2>2, <2>3, <2>4, <2>5
  <1>11. \A i \in 1..(c + 2) : children[i] = IF i <= j THEN kids[i]
                                             ELSE IF i = j + 1 THEN right ELSE kids[i - 1]
    BY <1>1, <1>6
  <1>12. Len(n.keys) = c /\ n.keys = keys /\ n.children = kids
    BY <1>b DEF keys, kids
  <1> QED  BY <1>3, <1>5, <1>6, <1>7, <1>9, <1>10, <1>11, <1>12 DEF Adopts

(* splitInternal: the separators below the middle one and those above it.  *)
AreHalves(L, R, n, S, mid, sep) ==
    /\ mid \in 1..Order /\ Order - mid \in 1..Order /\ sep \in Keys
    /\ L \in Internals /\ KeysOf(L.keys) /\ Len(L.keys) = mid /\ Len(L.children) = mid + 1
    /\ \A i \in 1..(mid + 1) : /\ L.children[i] = n.children[i]
                               /\ Share(L.keys, Low(S, sep), i) = Share(n.keys, S, i)
    /\ R \in Internals /\ KeysOf(R.keys)
    /\ Len(R.keys) = Order - mid /\ Len(R.children) = Order - mid + 1
    /\ \A i \in 1..(Order - mid + 1) :
         /\ R.children[i] = n.children[mid + 1 + i]
         /\ Share(R.keys, High(S, sep), i) = Share(n.keys, S, mid + 1 + i)

LEMMA HalvesOK ==
    ASSUME NEW n \in Internals, KeysOf(n.keys), Len(n.children) = Len(n.keys) + 1,
           Len(n.keys) = Order + 1, NEW S \in SUBSET Keys,
           NEW p \in Pages, NEW right \in Pages
    PROVE  AreHalves(InternalHalves(n, p, right)[1].node, InternalHalves(n, p, right)[2].node,
                     n, S, Len(n.keys) \div 2, n.keys[Len(n.keys) \div 2 + 1])
  <1> DEFINE keys == n.keys
             c == Len(n.keys)
             mid == c \div 2
             sep == keys[mid + 1]
             kl == SubSeq(n.keys, 1, mid)
             cl == SubSeq(n.children, 1, mid + 1)
             kr == SubSeq(n.keys, mid + 2, c)
             cr == SubSeq(n.children, mid + 2, Len(n.children))
             rest == Order - mid
  <1>1. /\ c = Order + 1 /\ mid \in 1..Order /\ rest \in 1..Order /\ mid \in Nat
        /\ mid + 1 \in 1..c /\ mid + 1 <= c /\ mid <= c /\ rest = c - (mid + 1) /\ c \in Nat
        /\ Order \in Nat /\ Len(n.children) = c + 1 /\ mid + 1 <= c + 1
        /\ (c + 1) - (mid + 1) = rest + 1
    BY Numbers
  <1>2. /\ DOMAIN keys = 1..c
        /\ \A i \in 1..c : keys[i] \in Keys /\ keys[i] \in Int
        /\ \A a, b \in 1..c : a < b => keys[a] < keys[b]
        /\ \A a, b \in 1..c : a <= b => keys[a] <= keys[b]
    BY KeyFacts
  <1> HIDE DEF mid, rest
  <1>3. n.keys \in Seq(Keys) /\ n.children \in Seq(Pages)
    BY InternalFacts
  <1>4. sep \in Keys /\ sep \in Int
    BY <1>1, <1>2
  <1>5. kl \in Seq(Keys) /\ Len(kl) = mid /\ DOMAIN kl = 1..mid /\ \A i \in 1..mid : kl[i] = keys[i]
    <2> DEFINE z == 0
    <2>1. z \in Nat /\ z <= mid /\ z + 1 = 1 /\ mid - z = mid /\ \A i \in 1..mid : z + i = i
      BY <1>1
    <2> HIDE DEF z
    <2>2. /\ SubSeq(n.keys, z + 1, mid) \in Seq(Keys) /\ Len(SubSeq(n.keys, z + 1, mid)) = mid - z
          /\ DOMAIN SubSeq(n.keys, z + 1, mid) = 1..(mid - z)
          /\ \A i \in 1..(mid - z) : SubSeq(n.keys, z + 1, mid)[i] = n.keys[z + i]
      BY <1>1, <1>3, <2>1, Piece
    <2> QED  BY <2>1, <2>2
  <1>6. cl \in Seq(Pages) /\ Len(cl) = mid + 1 /\ \A i \in 1..(mid + 1) : cl[i] = n.children[i]
    <2> DEFINE z == 0
               b == mid + 1
    <2>1. /\ z \in Nat /\ b \in Nat /\ z <= b /\ z + 1 = 1 /\ b - z = b /\ \A i \in 1..b : z + i = i
          /\ b <= Len(n.children)
      BY <1>1
    <2> HIDE DEF z, b
    <2>2. /\ SubSeq(n.children, z + 1, b) \in Seq(Pages) /\ Len(SubSeq(n.children, z + 1, b)) = b - z
          /\ \A i \in 1..(b - z) : SubSeq(n.children, z + 1, b)[i] = n.children[z + i]
      BY <1>3, <2>1, Piece
    <2> QED  BY <2>1, <2>2 DEF b
  <1>7. /\ kr \in Seq(Keys) /\ Len(kr) = rest /\ DOMAIN kr = 1..rest
        /\ \A i \in 1..rest : kr[i] = keys[mid + 1 + i]
    <2> DEFINE a == mid + 1
    <2>1. a \in Nat /\ a <= c /\ c <= Len(n.keys) /\ a + 1 = mid + 2 /\ c - a = rest /\ c \in Nat
      BY <1>1
    <2> HIDE DEF a
    <2>2. /\ SubSeq(n.keys, a + 1, c) \in Seq(Keys) /\ Len(SubSeq(n.keys, a + 1, c)) = c - a
          /\ DOMAIN SubSeq(n.keys, a + 1, c) = 1..(c - a)
          /\ \A i \in 1..(c - a) : SubSeq(n.keys, a + 1, c)[i] = n.keys[a + i]
      BY <1>3, <2>1, Piece
    <2> QED  BY <2>1, <2>2 DEF a
  <1>8. /\ cr \in Seq(Pages) /\ Len(cr) = rest + 1
        /\ \A i \in 1..(rest + 1) : cr[i] = n.children[mid + 1 + i]
    <2> DEFINE a == mid + 1
               b == Len(n.children)
    <2>1. a \in Nat /\ b \in Nat /\ a <= b /\ a + 1 = mid + 2 /\ b - a = rest + 1
      BY <1>1
    <2>2. b <= Len(n.children)
      BY <2>1
    <2> HIDE DEF a
    <2>3. /\ SubSeq(n.children, a + 1, b) \in Seq(Pages) /\ Len(SubSeq(n.children, a + 1, b)) = b - a
          /\ \A i \in 1..(b - a) : SubSeq(n.children, a + 1, b)[i] = n.children[a + i]
      BY <1>3, <2>1, Piece
    <2> QED  BY <2>1, <2>3 DEF a, b
  <1> DEFINE L == Internal(kl, cl)
             R == Internal(kr, cr)
  <1>9. /\ InternalHalves(n, p, right)[1].node = L
        /\ InternalHalves(n, p, right)[2].node = R
    BY DEF InternalHalves, WriteOf, mid
  <1> HIDE DEF kl, cl, kr, cr, c
  <1>10. /\ L \in Internals /\ L.keys = kl /\ L.children = cl
         /\ R \in Internals /\ R.keys = kr /\ R.children = cr
    BY <1>5, <1>6, <1>7, <1>8 DEF Internal, Internals
  <1>11. KeysOf(kl)
    <2>1. \A i \in 1..mid : i \in 1..c
      BY <1>1
    <2> QED  BY <1>2, <1>5, <2>1 DEF KeysOf, Sorted
  <1>12. KeysOf(kr)
    <2>1. ASSUME NEW i \in 1..rest, NEW j \in 1..rest, i < j PROVE kr[i] < kr[j]
      <3>1. mid + 1 + i \in 1..c /\ mid + 1 + j \in 1..c /\ mid + 1 + i < mid + 1 + j
        BY <1>1, <2>1
      <3> QED  BY <1>2, <1>7, <3>1
    <2> QED  BY <1>7, <2>1 DEF KeysOf, Sorted
  <1> HIDE DEF sep
  <1>13. /\ \A i \in 1..c : i <= mid => keys[i] < sep
         /\ \A i \in 1..c : mid + 1 <= i => sep <= keys[i]
         /\ keys[mid + 1] = sep
    BY <1>1, <1>2 DEF sep
  <1>14. ASSUME NEW i \in 1..(mid + 1)
         PROVE  Share(kl, Low(S, sep), i) = Share(keys, S, i)
    <2>1. ASSUME NEW k \in S
          PROVE  k \in Share(kl, Low(S, sep), i) <=> k \in Share(keys, S, i)
      <3>1. k \in Int
        BY Numbers
      <3>2. i > 1 => kl[i - 1] = keys[i - 1]
        BY <1>1, <1>5
      <3>3. CASE i <= mid
        <4>1. i \in 1..c /\ i <= c /\ kl[i] = keys[i] /\ keys[i] < sep /\ keys[i] \in Int
          BY <1>1, <1>2, <1>5, <1>13, <3>3
        <4>2. k < keys[i] => k < sep
          BY <1>4, <3>1, <4>1
        <4> QED  BY <1>5, <3>2, <3>3, <4>1, <4>2 DEF Share, Low, c
      <3>4. CASE i = mid + 1
        <4>1. ~(i <= mid) /\ i <= c /\ keys[i] = sep
          BY <1>1, <1>13, <3>4
        <4> QED  BY <1>5, <3>2, <4>1 DEF Share, Low, c
      <3> QED  BY <1>1, <3>3, <3>4
    <2> QED  BY <2>1 DEF Share, Low
  <1>15. ASSUME NEW i \in 1..(rest + 1)
         PROVE  Share(kr, High(S, sep), i) = Share(keys, S, mid + 1 + i)
    <2> DEFINE j == mid + 1 + i
    <2>1. /\ j > 1 /\ (i <= rest <=> j <= c) /\ j - 1 \in 1..c /\ mid + 1 <= j - 1
          /\ (i <= rest => j \in 1..c /\ kr[i] = keys[j])
          /\ (i > 1 => kr[i - 1] = keys[j - 1])
          /\ (i = 1 => j - 1 = mid + 1)
      <3>1. /\ j > 1 /\ (i <= rest <=> j <= c) /\ j - 1 \in 1..c /\ mid + 1 <= j - 1
            /\ (i <= rest => j \in 1..c) /\ (i = 1 => j - 1 = mid + 1)
        BY <1>1
      <3>2. i <= rest => kr[i] = keys[j]
        BY <1>1, <1>7
      <3>3. i > 1 => i - 1 \in 1..rest /\ mid + 1 + (i - 1) = j - 1
        BY <1>1
      <3>4. i > 1 => kr[i - 1] = keys[j - 1]
        BY <1>7, <3>3
      <3> QED  BY <3>1, <3>2, <3>4
    <2> HIDE DEF j
    <2>2. ASSUME NEW k \in S
          PROVE  k \in Share(kr, High(S, sep), i) <=> k \in Share(keys, S, j)
      <3>1. k \in Int
        BY Numbers
      <3>2. k \in Share(keys, S, j) <=> keys[j - 1] <= k /\ (i <= rest => k < keys[j])
        BY <2>1 DEF Share, c
      <3>3. k \in Share(kr, High(S, sep), i) <=>
                sep <= k /\ (i > 1 => keys[j - 1] <= k) /\ (i <= rest => k < keys[j])
        BY <1>7, <2>1 DEF Share, High
      <3>4. sep <= keys[j - 1] /\ keys[j - 1] \in Int
        BY <1>2, <1>13, <2>1
      <3>5. keys[j - 1] <= k => sep <= k
        BY <1>4, <3>1, <3>4
      <3>6. i = 1 => keys[j - 1] = sep
        BY <1>13, <2>1
      <3>7. i > 1 \/ i = 1
        BY <1>1
      <3> QED  BY <3>2, <3>3, <3>5, <3>6, <3>7
    <2>3. Share(kr, High(S, sep), i) = Share(keys, S, j)
      BY <2>2 DEF Share, High
    <2> QED  BY <2>3 DEF j
  <1> QED  BY <1>1, <1>4, <1>5, <1>6, <1>7, <1>8, <1>9, <1>10, <1>11, <1>12, <1>14, <1>15
           DEF mid, rest, sep, c, AreHalves

-----------------------------------------------------------------------------
(* What a split makes of the shape: the new page takes the upper keys of q *)
(* and, if it is a leaf, the place behind it in the chain.                 *)
Halved(w, q, new, sep) ==
    LET last == w.height[q] = 0
    IN  [pages |-> w.pages \cup {new},
         height |-> [w.height EXCEPT ![new] = w.height[q]],
         span |-> [p \in Pages |-> IF p = q THEN Low(w.span[q], sep)
                                   ELSE IF p = new THEN High(w.span[q], sep)
                                   ELSE w.span[p]],
         rank |-> [p \in Pages |-> IF ~last THEN w.rank[p]
                                   ELSE IF p = new THEN w.rank[q] + 1
                                   ELSE IF w.rank[p] > w.rank[q] THEN w.rank[p] + 1
                                   ELSE w.rank[p]],
         leaves |-> IF last THEN w.leaves + 1 ELSE w.leaves]

(* A new root above r.                                                     *)
Crowned(w, r, top) ==
    [pages |-> w.pages \cup {top},
     height |-> [w.height EXCEPT ![top] = w.height[r] + 1],
     span |-> [w.span EXCEPT ![top] = Keys],
     rank |-> w.rank, leaves |-> w.leaves]

LEMMA ShapeFacts ==
    ASSUME NEW w \in Shapes
    PROVE  /\ w.pages \subseteq Pages
           /\ \A p \in Pages : /\ w.height[p] \in Nat /\ w.span[p] \in SUBSET Keys
                               /\ w.rank[p] \in Nat
           /\ w.leaves \in Nat
           /\ w.height \in [Pages -> Nat] /\ w.span \in [Pages -> SUBSET Keys]
           /\ w.rank \in [Pages -> Nat]
  BY DEF Shapes

(* The circumstances of a split.                                           *)
Splits(w, r, used, q, new, sep) ==
    /\ Good(w, r, used) /\ q \in w.pages /\ new = used + 1 /\ new \in Pages /\ used \in Nat
    /\ sep \in Keys /\ Low(w.span[q], sep) # {} /\ High(w.span[q], sep) # {}

LEMMA HalvedFacts ==
    ASSUME NEW w, NEW r, NEW used, NEW q, NEW new, NEW sep, Splits(w, r, used, q, new, sep)
    PROVE  LET v == Halved(w, q, new, sep)
           IN  /\ w \in Shapes /\ v \in Shapes /\ q \in Pages /\ q # new /\ new \notin w.pages
               /\ v.pages = w.pages \cup {new} /\ new \in Pages
               /\ v.height[new] = w.height[q]
               /\ \A p \in w.pages : v.height[p] = w.height[p]
               /\ v.span[new] = High(w.span[q], sep) /\ v.span[q] = Low(w.span[q], sep)
               /\ \A p \in w.pages \ {q} : v.span[p] = w.span[p]
               /\ v.span[new] # {} /\ v.span[q] # {}
               /\ v.span[new] \subseteq w.span[q] /\ v.span[q] \subseteq w.span[q]
               /\ v.span[new] \cap v.span[q] = {} /\ Before(v.span[q], v.span[new])
  <1> DEFINE v == Halved(w, q, new, sep)
  <1>1. w \in Shapes /\ q \in w.pages /\ new = used + 1 /\ new \in Pages /\ used \in Nat
        /\ sep \in Keys /\ w.pages \subseteq 1..used
    BY DEF Splits, Good, Rooted
  <1>2. q \in Pages /\ q # new /\ new \notin w.pages
    BY <1>1, ShapeFacts
  <1>3. /\ v.pages = w.pages \cup {new}
        /\ v.height = [w.height EXCEPT ![new] = w.height[q]]
        /\ v.span = [p \in Pages |-> IF p = q THEN Low(w.span[q], sep)
                                     ELSE IF p = new THEN High(w.span[q], sep)
                                     ELSE w.span[p]]
        /\ v.rank = [p \in Pages |-> IF w.height[q] # 0 THEN w.rank[p]
                                     ELSE IF p = new THEN w.rank[q] + 1
                                     ELSE IF w.rank[p] > w.rank[q] THEN w.rank[p] + 1
                                     ELSE w.rank[p]]
        /\ v.leaves = IF w.height[q] = 0 THEN w.leaves + 1 ELSE w.leaves
    BY DEF Halved
  <1>4. v \in Shapes
    <2>1. v.pages \in SUBSET Pages
      BY <1>1, <1>3, ShapeFacts
    <2>2. v.height \in [Pages -> Nat]
      BY <1>1, <1>2, <1>3, ShapeFacts
    <2>3. v.span \in [Pages -> SUBSET Keys]
      <3>1. \A S \in SUBSET Keys : Low(S, sep) \in SUBSET Keys /\ High(S, sep) \in SUBSET Keys
        BY DEF Low, High
      <3> QED  BY <1>1, <1>2, <1>3, <3>1, ShapeFacts
    <2>4. v.rank \in [Pages -> Nat]
      BY <1>1, <1>2, <1>3, ShapeFacts
    <2>5. v.leaves \in Nat
      BY <1>1, <1>3, ShapeFacts
    <2>6. v = [pages |-> v.pages, height |-> v.height, span |-> v.span, rank |-> v.rank,
               leaves |-> v.leaves]
      BY DEF Halved
    <2> HIDE DEF v
    <2> QED  BY <2>1, <2>2, <2>3, <2>4, <2>5, <2>6 DEF Shapes
  <1>5. /\ v.height[new] = w.height[q] /\ \A p \in w.pages : v.height[p] = w.height[p]
    BY <1>1, <1>2, <1>3, ShapeFacts
  <1>6. /\ v.span[new] = High(w.span[q], sep) /\ v.span[q] = Low(w.span[q], sep)
        /\ \A p \in w.pages \ {q} : v.span[p] = w.span[p]
    BY <1>1, <1>2, <1>3, ShapeFacts
  <1> HIDE DEF v
  <1>7. v.span[new] # {} /\ v.span[q] # {}
    BY <1>6 DEF Splits
  <1>8. \A k \in w.span[q] : k \in Int
    BY <1>1, <1>2, ShapeFacts, Numbers
  <1>9. v.span[new] \cap v.span[q] = {} /\ Before(v.span[q], v.span[new])
    <2>1. sep \in Int
      BY <1>1, Numbers
    <2>2. ASSUME NEW k \in v.span[q], NEW l \in v.span[new] PROVE k < l
      <3>1. k \in Int /\ l \in Int /\ k < sep /\ sep <= l
        BY <1>6, <1>8 DEF Low, High
      <3> QED  BY <2>1, <3>1
    <2>3. \A k \in v.span[q] : k \in Int
      BY <1>6, <1>8 DEF Low
    <2>4. \A k \in v.span[q], l \in v.span[new] : k # l
      <3>1. ASSUME NEW k \in v.span[q], k \in v.span[new] PROVE FALSE
        <4>1. k < k /\ k \in Int
          BY <2>2, <2>3, <3>1
        <4> QED  BY <4>1
      <3> QED  BY <3>1
    <2> QED  BY <2>2, <2>4 DEF Before
  <1> QED  BY <1>1, <1>2, <1>3, <1>4, <1>5, <1>6, <1>7, <1>9 DEF v, Low, High

LEMMA HalvedApart ==
    ASSUME NEW w, NEW r, NEW used, NEW q, NEW new, NEW sep, Splits(w, r, used, q, new, sep)
    PROVE  Apart(Halved(w, q, new, sep))
  <1> DEFINE v == Halved(w, q, new, sep)
  <1>1. Apart(w) /\ q \in w.pages
    BY DEF Splits, Good
  <1>2. /\ q # new /\ new \notin w.pages /\ v.pages = w.pages \cup {new}
        /\ v.height[new] = w.height[q]
        /\ \A p \in w.pages : v.height[p] = w.height[p]
        /\ \A p \in w.pages \ {q} : v.span[p] = w.span[p]
        /\ v.span[new] # {} /\ v.span[q] # {}
        /\ v.span[new] \subseteq w.span[q] /\ v.span[q] \subseteq w.span[q]
        /\ v.span[new] \cap v.span[q] = {}
    BY HalvedFacts
  <1> HIDE DEF v
  <1>3. \A p \in v.pages : v.span[p] # {}
    BY <1>1, <1>2 DEF Apart
  <1> DEFINE home(p) == IF p = new THEN q ELSE p
  <1>4. \A p \in v.pages : /\ home(p) \in w.pages /\ v.span[p] \subseteq w.span[home(p)]
                           /\ v.height[p] = w.height[home(p)]
    BY <1>1, <1>2
  <1>5. ASSUME NEW p \in v.pages, NEW s \in v.pages, p # s, v.height[p] = v.height[s]
        PROVE  v.span[p] \cap v.span[s] = {}
    <2>1. CASE home(p) = home(s)
      <3>1. {p, s} = {q, new}
        BY <1>5, <2>1
      <3> QED  BY <1>2, <1>5, <3>1
    <2>2. CASE home(p) # home(s)
      <3>1. w.span[home(p)] \cap w.span[home(s)] = {}
        BY <1>1, <1>4, <1>5, <2>2 DEF Apart
      <3> QED  BY <1>4, <3>1
    <2> QED  BY <2>1, <2>2
  <1> QED  BY <1>3, <1>5 DEF Apart, v

LEMMA HalvedInOrder ==
    ASSUME NEW w, NEW r, NEW used, NEW q, NEW new, NEW sep, Splits(w, r, used, q, new, sep)
    PROVE  InOrder(Halved(w, q, new, sep))
  <1> DEFINE v == Halved(w, q, new, sep)
  <1>1. InOrder(w) /\ q \in w.pages /\ w \in Shapes
    BY DEF Splits, Good
  <1>2. /\ q # new /\ new \notin w.pages /\ v.pages = w.pages \cup {new} /\ new \in Pages
        /\ v.height[new] = w.height[q]
        /\ \A p \in w.pages : v.height[p] = w.height[p]
        /\ \A p \in w.pages \ {q} : v.span[p] = w.span[p]
        /\ v.span[new] \subseteq w.span[q] /\ v.span[q] \subseteq w.span[q]
        /\ Before(v.span[q], v.span[new])
    BY HalvedFacts
  <1>3. /\ v.rank = [p \in Pages |-> IF w.height[q] # 0 THEN w.rank[p]
                                     ELSE IF p = new THEN w.rank[q] + 1
                                     ELSE IF w.rank[p] > w.rank[q] THEN w.rank[p] + 1
                                     ELSE w.rank[p]]
        /\ v.leaves = IF w.height[q] = 0 THEN w.leaves + 1 ELSE w.leaves
    BY DEF Halved
  <1> HIDE DEF v
  <1>4. CASE w.height[q] # 0
    <2>1. LeavesOf(v) = LeavesOf(w) /\ LeavesOf(w) \subseteq w.pages \ {q}
      BY <1>1, <1>2, <1>4 DEF LeavesOf
    <2>2. \A p \in LeavesOf(w) : v.rank[p] = w.rank[p] /\ v.span[p] = w.span[p]
      BY <1>1, <1>2, <1>3, <1>4, <2>1, ShapeFacts
    <2>3. v.leaves = w.leaves
      BY <1>3, <1>4
    <2>4. /\ \E p \in LeavesOf(v) : v.rank[p] = 1
          /\ \A p \in LeavesOf(v) : v.rank[p] \in 1..v.leaves
      BY <1>1, <2>1, <2>2, <2>3 DEF InOrder
    <2>5. ASSUME NEW p \in LeavesOf(v), NEW s \in LeavesOf(v)
          PROVE  /\ v.rank[p] < v.rank[s] => Before(v.span[p], v.span[s])
                 /\ v.rank[p] = v.rank[s] => p = s
      BY <1>1, <2>1, <2>2 DEF InOrder
    <2>6. \A p, s \in LeavesOf(v) : /\ v.rank[p] < v.rank[s] => Before(v.span[p], v.span[s])
                                    /\ v.rank[p] = v.rank[s] => p = s
      BY <2>5
    <2>7. InOrder(v)
      BY <2>4, <2>6 DEF InOrder
    <2> QED  BY <2>7 DEF v
  <1>5. CASE w.height[q] = 0
    <2>1. LeavesOf(v) = LeavesOf(w) \cup {new} /\ q \in LeavesOf(w)
          /\ new \notin LeavesOf(w) /\ LeavesOf(w) \subseteq Pages
      <3>1. w.pages \subseteq Pages
        BY <1>1, ShapeFacts
      <3> QED  BY <1>1, <1>2, <1>5, <3>1 DEF LeavesOf
    <2>2. /\ \A p \in LeavesOf(w) : v.rank[p] = IF w.rank[p] > w.rank[q] THEN w.rank[p] + 1
                                                ELSE w.rank[p]
          /\ v.rank[new] = w.rank[q] + 1 /\ v.leaves = w.leaves + 1
      BY <1>2, <1>3, <1>5, <2>1
    <2>3. /\ \A p \in LeavesOf(w) : w.rank[p] \in 1..w.leaves /\ w.rank[p] \in Nat
          /\ w.leaves \in Nat
      BY <1>1, <2>1, ShapeFacts DEF InOrder
    <2>4. \E p \in LeavesOf(v) : v.rank[p] = 1
      <3>1. PICK p \in LeavesOf(w) : w.rank[p] = 1
        BY <1>1 DEF InOrder
      <3>2. ~(1 > w.rank[q])
        BY <2>1, <2>3
      <3> QED  BY <2>1, <2>2, <3>1, <3>2
    <2>5. ASSUME NEW p \in LeavesOf(v) PROVE v.rank[p] \in 1..v.leaves
      <3>1. CASE p = new
        BY <2>1, <2>2, <2>3, <3>1
      <3>2. CASE p # new
        BY <2>1, <2>2, <2>3, <3>2
      <3> QED  BY <3>1, <3>2
    <2>6. ASSUME NEW p \in LeavesOf(v), NEW s \in LeavesOf(v), v.rank[p] < v.rank[s]
          PROVE  Before(v.span[p], v.span[s])
      <3> DEFINE home(x) == IF x = new THEN q ELSE x
      <3>1. \A x \in LeavesOf(v) : home(x) \in LeavesOf(w) /\ v.span[x] \subseteq w.span[home(x)]
        BY <1>2, <2>1 DEF LeavesOf
      <3>2. CASE p = q /\ s = new
        BY <1>2, <3>2
      <3>3. CASE ~(p = q /\ s = new)
        <4>1. w.rank[home(p)] < w.rank[home(s)]
          <5>1. CASE p = new
            <6>1. s # new /\ w.rank[q] + 1 < v.rank[s] /\ s \in LeavesOf(w)
              BY <2>1, <2>2, <2>3, <2>6, <5>1
            <6> QED  BY <2>1, <2>2, <2>3, <5>1, <6>1
          <5>2. CASE p # new /\ s = new
            <6>1. p # q /\ p \in LeavesOf(w) /\ v.rank[p] < w.rank[q] + 1
              BY <2>1, <2>2, <2>6, <3>3, <5>2
            <6>2. w.rank[p] # w.rank[q]
              BY <1>1, <2>1, <6>1 DEF InOrder
            <6> QED  BY <2>1, <2>2, <2>3, <5>2, <6>1, <6>2
          <5>3. CASE p # new /\ s # new
            <6>1. p \in LeavesOf(w) /\ s \in LeavesOf(w)
              BY <2>1, <5>3
            <6> QED  BY <2>1, <2>2, <2>3, <2>6, <5>3, <6>1
          <5> QED  BY <5>1, <5>2, <5>3
        <4>2. Before(w.span[home(p)], w.span[home(s)])
          BY <1>1, <3>1, <4>1 DEF InOrder
        <4> QED  BY <3>1, <4>2 DEF Before
      <3> QED  BY <3>2, <3>3
    <2>7. ASSUME NEW p \in LeavesOf(v), NEW s \in LeavesOf(v), v.rank[p] = v.rank[s]
          PROVE  p = s
      <3>1. \A x \in LeavesOf(w) : v.rank[x] # w.rank[q] + 1
        <4>1. ASSUME NEW x \in LeavesOf(w), v.rank[x] = w.rank[q] + 1 PROVE FALSE
          BY <2>1, <2>2, <2>3, <4>1
        <4> QED  BY <4>1
      <3>2. CASE p = new \/ s = new
        BY <2>1, <2>2, <2>7, <3>1, <3>2
      <3>3. CASE p # new /\ s # new
        <4>1. p \in LeavesOf(w) /\ s \in LeavesOf(w)
          BY <2>1, <3>3
        <4>2. w.rank[p] = w.rank[s]
          BY <2>1, <2>2, <2>3, <2>7, <4>1
        <4> QED  BY <1>1, <4>1, <4>2 DEF InOrder
      <3> QED  BY <3>2, <3>3
    <2>8. \A p, s \in LeavesOf(v) : /\ v.rank[p] < v.rank[s] => Before(v.span[p], v.span[s])
                                    /\ v.rank[p] = v.rank[s] => p = s
      BY <2>6, <2>7
    <2>9. InOrder(v)
      BY <2>4, <2>5, <2>8 DEF InOrder
    <2> QED  BY <2>9 DEF v
  <1> QED  BY <1>4, <1>5 DEF v

(* Below the root the halved shape is a shape of the same tree, ...        *)
LEMMA HalvedGood ==
    ASSUME NEW w, NEW r, NEW used, NEW q, NEW new, NEW sep, Splits(w, r, used, q, new, sep),
           q # r
    PROVE  Good(Halved(w, q, new, sep), r, used + 1)
  <1> DEFINE v == Halved(w, q, new, sep)
  <1>1. /\ Rooted(w, r, used) /\ q \in w.pages /\ new = used + 1 /\ used \in Nat /\ w \in Shapes
    BY DEF Splits, Good
  <1>2. /\ v \in Shapes /\ v.pages = w.pages \cup {new}
        /\ v.height[new] = w.height[q]
        /\ \A p \in w.pages : v.height[p] = w.height[p]
        /\ \A p \in w.pages \ {q} : v.span[p] = w.span[p]
    BY HalvedFacts
  <1>3. v.leaves <= w.leaves + 1 /\ w.leaves \in Nat
    BY <1>1, ShapeFacts DEF Halved
  <1> HIDE DEF v
  <1>4. r \in w.pages /\ w.height[r] \in Nat
    BY <1>1, ShapeFacts DEF Rooted
  <1>5. Rooted(v, r, used + 1)
    <2>1. r \in v.pages /\ v.span[r] = Keys
      BY <1>1, <1>2, <1>4 DEF Rooted
    <2>2. v.pages \subseteq 1..(used + 1)
      BY <1>1, <1>2 DEF Rooted
    <2>3. \A p \in v.pages : v.height[p] <= v.height[r]
      BY <1>1, <1>2, <1>4 DEF Rooted
    <2>4. v.height[r] < used + 1
      <3>1. w.height[r] < used
        BY <1>1 DEF Rooted
      <3> QED  BY <1>1, <1>2, <1>4, <3>1
    <2>5. v.leaves <= used + 1
      <3>1. w.leaves <= used /\ v.leaves \in Nat
        BY <1>1, <1>2, ShapeFacts DEF Rooted
      <3> QED  BY <1>1, <1>3, <3>1
    <2> QED  BY <2>1, <2>2, <2>3, <2>4, <2>5 DEF Rooted
  <1>6. Apart(v) /\ InOrder(v)
    BY HalvedApart, HalvedInOrder DEF v
  <1>7. Good(v, r, used + 1)
    BY <1>2, <1>5, <1>6 DEF Good
  <1> QED  BY <1>7 DEF v

(* ... and a split root gets a new root above its halves.                  *)
LEMMA CrownedFacts ==
    ASSUME NEW v \in Shapes, NEW r \in Pages, NEW top \in Pages, top \notin v.pages
    PROVE  LET c == Crowned(v, r, top)
           IN  /\ c \in Shapes /\ c.pages = v.pages \cup {top}
               /\ c.height[top] = v.height[r] + 1 /\ c.span[top] = Keys
               /\ \A p \in v.pages : /\ c.height[p] = v.height[p] /\ c.span[p] = v.span[p]
                                     /\ p # top
               /\ c.rank = v.rank /\ c.leaves = v.leaves
               /\ LeavesOf(c) = LeavesOf(v)
  <1> DEFINE c == Crowned(v, r, top)
  <1>1. /\ c.pages = v.pages \cup {top}
        /\ c.height = [v.height EXCEPT ![top] = v.height[r] + 1]
        /\ c.span = [v.span EXCEPT ![top] = Keys]
        /\ c.rank = v.rank /\ c.leaves = v.leaves
        /\ c = [pages |-> c.pages, height |-> c.height, span |-> c.span, rank |-> c.rank,
                leaves |-> c.leaves]
    BY DEF Crowned
  <1> HIDE DEF c
  <1>2. v.height[r] \in Nat /\ v.pages \subseteq Pages
    BY ShapeFacts
  <1>3. c.height \in [Pages -> Nat] /\ c.span \in [Pages -> SUBSET Keys] /\ c.pages \in SUBSET Pages
        /\ c.rank \in [Pages -> Nat] /\ c.leaves \in Nat
    BY <1>1, <1>2, ShapeFacts
  <1>4. c \in Shapes
    BY <1>1, <1>3 DEF Shapes
  <1>5. c.height[top] = v.height[r] + 1 /\ c.span[top] = Keys
    BY <1>1, ShapeFacts
  <1>6. \A p \in v.pages : c.height[p] = v.height[p] /\ c.span[p] = v.span[p] /\ p # top
    BY <1>1, <1>2, ShapeFacts
  <1>7. LeavesOf(c) = LeavesOf(v)
    <2>1. c.height[top] # 0
      BY <1>2, <1>5
    <2> QED  BY <1>1, <1>6, <2>1 DEF LeavesOf
  <1> QED  BY <1>1, <1>4, <1>5, <1>6, <1>7 DEF c

LEMMA CrownedGood ==
    ASSUME NEW w, NEW r, NEW used, NEW new, NEW top, NEW sep, Splits(w, r, used, r, new, sep),
           top = new + 1, top \in Pages
    PROVE  Good(Crowned(Halved(w, r, new, sep), r, top), top, used + 2)
  <1> DEFINE v == Halved(w, r, new, sep)
             c == Crowned(v, r, top)
  <1>1. /\ Rooted(w, r, used) /\ r \in w.pages /\ new = used + 1 /\ used \in Nat /\ w \in Shapes
    BY DEF Splits, Good
  <1>2. /\ v \in Shapes /\ v.pages = w.pages \cup {new} /\ r \in Pages
        /\ v.height[new] = w.height[r]
        /\ \A p \in w.pages : v.height[p] = w.height[p]
    BY HalvedFacts
  <1>3. Apart(v) /\ InOrder(v)
    BY HalvedApart, HalvedInOrder
  <1>4. v.leaves <= w.leaves + 1 /\ w.leaves \in Nat
    BY <1>1, ShapeFacts DEF Halved
  <1> HIDE DEF v
  <1>5. top = used + 2 /\ top \notin v.pages
    BY <1>1, <1>2 DEF Rooted
  <1>6. /\ c \in Shapes /\ c.pages = v.pages \cup {top}
        /\ c.height[top] = v.height[r] + 1 /\ c.span[top] = Keys
        /\ \A p \in v.pages : c.height[p] = v.height[p] /\ c.span[p] = v.span[p] /\ p # top
        /\ c.rank = v.rank /\ c.leaves = v.leaves /\ LeavesOf(c) = LeavesOf(v)
    BY <1>2, <1>5, CrownedFacts
  <1> HIDE DEF c
  <1>7. v.height[r] = w.height[r] /\ w.height[r] \in Nat
        /\ \A p \in v.pages : v.height[p] <= v.height[r] /\ v.height[p] \in Nat
    <2>1. \A p \in w.pages : w.height[p] \in Nat /\ w.height[p] <= w.height[r]
      BY <1>1, ShapeFacts DEF Rooted
    <2> QED  BY <1>1, <1>2, <2>1
  <1>8. Rooted(c, top, used + 2)
    <2>1. top \in c.pages /\ c.span[top] = Keys
      BY <1>6
    <2>2. c.pages \subseteq 1..(used + 2)
      BY <1>1, <1>2, <1>5, <1>6 DEF Rooted
    <2>3. \A p \in c.pages : c.height[p] <= c.height[top]
      BY <1>6, <1>7
    <2>4. c.height[top] < used + 2
      <3>1. w.height[r] < used
        BY <1>1 DEF Rooted
      <3> QED  BY <1>1, <1>6, <1>7, <3>1
    <2>5. c.leaves <= used + 2
      <3>1. w.leaves <= used /\ v.leaves \in Nat
        BY <1>1, <1>2, ShapeFacts DEF Rooted
      <3> QED  BY <1>1, <1>4, <1>6, <3>1
    <2> QED  BY <2>1, <2>2, <2>3, <2>4, <2>5 DEF Rooted
  <1>9. Apart(c)
    <2>1. \A p \in c.pages : c.span[p] # {}
      BY <1>3, <1>6, Numbers DEF Apart
    <2>2. ASSUME NEW p \in c.pages, NEW s \in c.pages, p # s, c.height[p] = c.height[s]
          PROVE  c.span[p] \cap c.span[s] = {}
      <3>1. p # top /\ s # top
        BY <1>6, <1>7, <2>2
      <3>2. p \in v.pages /\ s \in v.pages
        BY <1>6, <3>1
      <3> QED  BY <1>3, <1>6, <2>2, <3>2 DEF Apart
    <2> QED  BY <2>1, <2>2 DEF Apart
  <1>10. InOrder(c)
    <2>1. \A p \in LeavesOf(v) : c.span[p] = v.span[p] /\ c.rank[p] = v.rank[p]
      BY <1>6 DEF LeavesOf
    <2> QED  BY <1>3, <1>6, <2>1 DEF InOrder
  <1>11. Good(c, top, used + 2)
    BY <1>6, <1>8, <1>9, <1>10 DEF Good
  <1> QED  BY <1>11 DEF c, v

-----------------------------------------------------------------------------
(* The nodes after a split.                                                *)

(* A page is the child of one page only.                                   *)
LEMMA OneParent ==
    ASSUME NEW w \in Shapes, Apart(w), NEW p \in w.pages, NEW s \in w.pages, NEW n, NEW m,
           NEW may, NodeOK(n, p, w, may), NodeOK(m, s, w, may),
           NEW q, IsChild(q, n), IsChild(q, m)
    PROVE  /\ p = s /\ w.height[p] = w.height[q] + 1 /\ q \in w.pages
           /\ \E j \in DOMAIN n.children :
                /\ n.children[j] = q
                /\ \A i \in DOMAIN n.children : n.children[i] = q => i = j
  <1>1. \A x \in w.pages : w.height[x] \in Nat /\ w.span[x] \in SUBSET Keys
    BY ShapeFacts
  <1>2. InternalOK(n, p, w) /\ InternalOK(m, s, w)
    BY LeafFacts DEF NodeOK, LeafOK, IsChild, IsLeaf, Internals
  <1>3. PICK j \in DOMAIN n.children : n.children[j] = q
    BY DEF IsChild
  <1>4. PICK l \in DOMAIN m.children : m.children[l] = q
    BY DEF IsChild
  <1>5. /\ q \in w.pages /\ w.height[p] = w.height[q] + 1
        /\ w.span[q] = Share(n.keys, w.span[p], j)
    BY <1>2, <1>3 DEF InternalOK
  <1>6. w.height[s] = w.height[q] + 1 /\ w.span[q] = Share(m.keys, w.span[s], l)
    BY <1>2, <1>4 DEF InternalOK
  <1>7. w.span[q] \subseteq w.span[p] \cap w.span[s] /\ w.span[q] # {}
    BY <1>5, <1>6 DEF Share, Apart
  <1>8. p = s
    <2>1. w.height[p] = w.height[s]
      BY <1>5, <1>6
    <2> QED  BY <1>7, <2>1 DEF Apart
  <1>9. ASSUME NEW i \in DOMAIN n.children, n.children[i] = q PROVE i = j
    <2>1. w.span[q] = Share(n.keys, w.span[p], i)
      BY <1>2, <1>9 DEF InternalOK
    <2>2. DOMAIN n.children = 1..(Len(n.keys) + 1) /\ KeysOf(n.keys)
      BY <1>2, InternalFacts DEF InternalOK
    <2>3. PICK k : k \in w.span[q]
      BY <1>7
    <2>4. w.span[p] \in SUBSET Keys
      BY <1>1
    <2> DEFINE keys == n.keys
               S == w.span[p]
    <2>5. /\ KeysOf(keys) /\ S \in SUBSET Keys
          /\ i \in 1..(Len(keys) + 1) /\ j \in 1..(Len(keys) + 1)
          /\ k \in Share(keys, S, i) /\ k \in Share(keys, S, j)
      BY <1>5, <1>9, <2>1, <2>2, <2>3, <2>4
    <2> HIDE DEF keys, S
    <2> QED  BY <2>5, SharesApart
  <1> QED  BY <1>3, <1>5, <1>8, <1>9

(* A page that is neither split nor the parent of the page that is.        *)
LEMMA OthersStayOK ==
    ASSUME NEW w, NEW r, NEW used, NEW q, NEW new, NEW sep, Splits(w, r, used, q, new, sep),
           NEW p \in w.pages, p # q, NEW n, NEW may, NodeOK(n, p, w, may), ~IsChild(q, n)
    PROVE  NodeOK(n, p, Halved(w, q, new, sep), may)
  <1> DEFINE v == Halved(w, q, new, sep)
  <1>1. /\ w \in Shapes /\ v \in Shapes /\ q \in Pages /\ q # new /\ new \notin w.pages
        /\ v.pages = w.pages \cup {new} /\ v.height[new] = w.height[q]
        /\ \A s \in w.pages : v.height[s] = w.height[s]
        /\ \A s \in w.pages \ {q} : v.span[s] = w.span[s]
    BY HalvedFacts
  <1>2. /\ v.rank = [s \in Pages |-> IF w.height[q] # 0 THEN w.rank[s]
                                     ELSE IF s = new THEN w.rank[q] + 1
                                     ELSE IF w.rank[s] > w.rank[q] THEN w.rank[s] + 1
                                     ELSE w.rank[s]]
        /\ v.leaves = IF w.height[q] = 0 THEN w.leaves + 1 ELSE w.leaves
    BY DEF Halved
  <1>3. InOrder(w) /\ q \in w.pages
    BY DEF Splits, Good
  <1> HIDE DEF v
  <1>4. v.height[p] = w.height[p] /\ v.span[p] = w.span[p]
    BY <1>1
  <1>5. CASE w.height[p] = 0
    <2>1. LeafOK(n, w.span[p], may) /\ LinkOK(n, p, w)
      BY <1>5 DEF NodeOK
    <2>2. w.pages \subseteq Pages /\ LeavesOf(w) \subseteq w.pages /\ p \in LeavesOf(w)
          /\ LeavesOf(w) \subseteq LeavesOf(v)
      BY <1>1, <1>5, ShapeFacts DEF LeavesOf
    <2>3. /\ \A s \in LeavesOf(w) : w.rank[s] \in Nat /\ w.rank[s] <= w.leaves
          /\ w.leaves \in Nat /\ w.rank[q] \in Nat
      BY <1>1, <1>3, <2>2, ShapeFacts DEF InOrder
    <2>4. LinkOK(n, p, v)
      <3>1. CASE w.height[q] # 0
        <4>1. \A s \in LeavesOf(w) : v.rank[s] = w.rank[s]
          BY <1>2, <2>2, <3>1
        <4>2. v.leaves = w.leaves
          BY <1>2, <3>1
        <4> QED  BY <2>1, <2>2, <4>1, <4>2 DEF LinkOK
      <3>2. CASE w.height[q] = 0
        <4>1. q \in LeavesOf(w) /\ w.rank[q] <= w.leaves /\ v.leaves = w.leaves + 1
          BY <1>2, <1>3, <2>3, <3>2 DEF LeavesOf
        <4>2. \A s \in LeavesOf(w) : v.rank[s] = IF w.rank[s] > w.rank[q] THEN w.rank[s] + 1
                                                 ELSE w.rank[s]
          BY <1>1, <1>2, <2>2, <3>2
        <4>3. w.rank[p] # w.rank[q]
          BY <1>3, <2>2, <4>1 DEF InOrder
        <4>4. CASE w.rank[p] = w.leaves
          <5>1. w.rank[p] > w.rank[q]
            BY <2>2, <2>3, <4>1, <4>3, <4>4
          <5>2. v.rank[p] = v.leaves
            BY <2>2, <4>1, <4>2, <4>4, <5>1
          <5> QED  BY <2>1, <4>4, <5>2 DEF LinkOK
        <4>5. CASE w.rank[p] # w.leaves
          <5>1. n.next \in LeavesOf(w) /\ w.rank[n.next] = w.rank[p] + 1
            BY <2>1, <4>5 DEF LinkOK
          <5>2. v.rank[n.next] = v.rank[p] + 1
            BY <2>2, <2>3, <4>2, <4>3, <5>1
          <5>3. v.rank[p] # v.leaves
            BY <2>2, <2>3, <4>1, <4>2, <4>5
          <5> QED  BY <2>2, <5>1, <5>2, <5>3 DEF LinkOK
        <4> QED  BY <4>4, <4>5
      <3> QED  BY <3>1, <3>2
    <2>5. NodeOK(n, p, v, may)
      BY <1>4, <1>5, <2>1, <2>4 DEF NodeOK
    <2> QED  BY <2>5 DEF v
  <1>6. CASE w.height[p] # 0
    <2>1. InternalOK(n, p, w)
      BY <1>6 DEF NodeOK
    <2>2. \A i \in DOMAIN n.children :
            n.children[i] \in w.pages \ {q} /\ n.children[i] \in v.pages
            /\ v.height[n.children[i]] = w.height[n.children[i]]
            /\ v.span[n.children[i]] = w.span[n.children[i]]
      BY <1>1, <2>1 DEF InternalOK, IsChild
    <2>3. InternalOK(n, p, v)
      BY <1>4, <2>1, <2>2 DEF InternalOK
    <2>4. NodeOK(n, p, v, may)
      BY <1>4, <1>6, <2>3 DEF NodeOK
    <2> QED  BY <2>4 DEF v
  <1> QED  BY <1>5, <1>6

(* The parent with the separator and the new page.                         *)
LEMMA ParentOK ==
    ASSUME NEW w, NEW r, NEW used, NEW q, NEW new, NEW sep, Splits(w, r, used, q, new, sep),
           NEW p \in w.pages, NEW n, NEW may, NodeOK(n, p, w, may), IsChild(q, n)
    PROVE  LET m == Adoption(n, sep, new)
           IN  /\ NodeOK(m, p, Halved(w, q, new, sep), may)
               /\ Len(m.keys) = Len(n.keys) + 1
               /\ \A c : IsChild(c, n) => IsChild(c, m)
               /\ p # q
  <1> DEFINE v == Halved(w, q, new, sep)
             m == Adoption(n, sep, new)
             c == Len(n.keys)
             S == w.span[p]
  <1>1. /\ w \in Shapes /\ q \in Pages /\ new \in Pages /\ q # new /\ new \notin w.pages
        /\ v.pages = w.pages \cup {new} /\ v.height[new] = w.height[q]
        /\ \A s \in w.pages : v.height[s] = w.height[s]
        /\ v.span[new] = High(w.span[q], sep) /\ v.span[q] = Low(w.span[q], sep)
        /\ \A s \in w.pages \ {q} : v.span[s] = w.span[s]
    BY HalvedFacts
  <1>2. sep \in Keys /\ Low(w.span[q], sep) # {} /\ High(w.span[q], sep) # {} /\ Apart(w)
        /\ q \in w.pages
    BY DEF Splits, Good
  <1> HIDE DEF v, m
  <1>3. PICK j \in DOMAIN n.children :
            /\ n.children[j] = q
            /\ \A i \in DOMAIN n.children : n.children[i] = q => i = j
    BY <1>1, <1>2, OneParent
  <1>4. w.height[p] = w.height[q] + 1 /\ w.height[q] \in Nat /\ w.height[p] # 0
    <2>1. w.height[p] = w.height[q] + 1
      BY <1>1, <1>2, OneParent
    <2>2. w.height[q] \in Nat
      BY <1>1, ShapeFacts
    <2> QED  BY <2>1, <2>2
  <1>5. InternalOK(n, p, w)
    BY <1>4 DEF NodeOK
  <1>6. /\ n \in Internals /\ KeysOf(n.keys) /\ c > 0 /\ Len(n.children) = c + 1 /\ c \in Nat
        /\ DOMAIN n.children = 1..(c + 1) /\ S \in SUBSET Keys /\ j \in 1..(c + 1)
        /\ w.span[q] = Share(n.keys, S, j)
    BY <1>1, <1>3, <1>5, InternalFacts, ShapeFacts DEF InternalOK
  <1>7. Divided(n.keys, S, j, sep)
    BY <1>2, <1>6 DEF Divided
  <1> HIDE DEF S
  <1>8. /\ m \in Internals /\ KeysOf(m.keys)
        /\ Len(m.keys) = c + 1 /\ Len(m.children) = c + 2
        /\ \A i \in 1..(c + 2) :
             /\ m.children[i] = IF i <= j THEN n.children[i]
                                ELSE IF i = j + 1 THEN new ELSE n.children[i - 1]
             /\ Share(m.keys, S, i) = IF i < j THEN Share(n.keys, S, i)
                                      ELSE IF i = j THEN Low(Share(n.keys, S, j), sep)
                                      ELSE IF i = j + 1 THEN High(Share(n.keys, S, j), sep)
                                      ELSE Share(n.keys, S, i - 1)
    <2>1. /\ n \in Internals /\ KeysOf(n.keys) /\ Len(n.children) = Len(n.keys) + 1
          /\ S \in SUBSET Keys /\ j \in 1..(Len(n.keys) + 1) /\ sep \in Keys /\ new \in Pages
      BY <1>1, <1>2, <1>6
    <2>2. Adopts(m, n, S, j, sep, new)
      BY <2>1, <1>7, AdoptionOK DEF m
    <2> QED  BY <2>2 DEF Adopts
  <1>9. DOMAIN m.children = 1..(c + 2)
    BY <1>8, InternalFacts
  <1> HIDE DEF c
  <1>10. p # q
    BY <1>4
  <1>11. v.span[p] = S /\ v.height[p] = w.height[p]
    BY <1>1, <1>10 DEF S
  <1>12. ASSUME NEW i \in 1..(c + 1)
         PROVE  /\ n.children[i] \in w.pages /\ w.height[p] = w.height[n.children[i]] + 1
                /\ w.span[n.children[i]] = Share(n.keys, S, i)
    BY <1>5, <1>6 DEF InternalOK, S
  <1>13. ASSUME NEW i \in 1..(c + 2)
         PROVE  /\ m.children[i] \in v.pages /\ v.height[p] = v.height[m.children[i]] + 1
                /\ v.span[m.children[i]] = Share(m.keys, S, i)
    <2>1. CASE i = j
      <3>1. m.children[i] = q /\ Share(m.keys, S, i) = Low(w.span[q], sep)
        BY <1>3, <1>6, <1>8, <2>1
      <3> QED  BY <1>1, <1>2, <1>4, <1>11, <3>1
    <2>2. CASE i = j + 1
      <3>1. m.children[i] = new /\ Share(m.keys, S, i) = High(w.span[q], sep)
        BY <1>6, <1>8, <2>2
      <3> QED  BY <1>1, <1>4, <1>11, <3>1
    <2>3. CASE i < j
      <3>1. i \in 1..(c + 1) /\ i # j
        BY <1>6, <2>3
      <3>2. m.children[i] = n.children[i] /\ Share(m.keys, S, i) = Share(n.keys, S, i)
        <4>1. i <= j
          BY <1>6, <2>3
        <4> QED  BY <1>8, <2>3, <4>1
      <3>3. n.children[i] # q
        BY <1>3, <1>6, <3>1
      <3> QED  BY <1>1, <1>11, <1>12, <3>1, <3>2, <3>3
    <2>4. CASE i > j + 1
      <3>1. i - 1 \in 1..(c + 1) /\ i - 1 # j /\ ~(i <= j) /\ i # j + 1 /\ i # j /\ ~(i < j)
        BY <1>6, <2>4
      <3>2. m.children[i] = n.children[i - 1] /\ Share(m.keys, S, i) = Share(n.keys, S, i - 1)
        BY <1>8, <3>1
      <3>3. n.children[i - 1] # q
        BY <1>3, <1>6, <3>1
      <3> QED  BY <1>1, <1>11, <1>12, <3>1, <3>2, <3>3
    <2> QED  BY <1>6, <2>1, <2>2, <2>3, <2>4
  <1>14. InternalOK(m, p, v)
    <2>1. Len(m.keys) > 0 /\ Len(m.children) = Len(m.keys) + 1
      BY <1>6, <1>8
    <2> QED  BY <1>8, <1>9, <1>11, <1>13, <2>1 DEF InternalOK
  <1>15. NodeOK(m, p, v, may)
    BY <1>4, <1>11, <1>14 DEF NodeOK
  <1>16. ASSUME NEW x, IsChild(x, n) PROVE IsChild(x, m)
    <2>1. PICK i \in 1..(c + 1) : n.children[i] = x
      BY <1>6, <1>16 DEF IsChild
    <2>2. CASE i <= j
      <3>1. i \in 1..(c + 2)
        BY <1>6
      <3>2. m.children[i] = x
        BY <1>8, <2>1, <2>2, <3>1
      <3> QED  BY <1>8, <1>9, <3>1, <3>2 DEF IsChild
    <2>3. CASE ~(i <= j)
      <3>1. i + 1 \in 1..(c + 2) /\ ~(i + 1 <= j) /\ i + 1 # j + 1 /\ (i + 1) - 1 = i
        BY <1>6, <2>3
      <3>2. m.children[i + 1] = x
        BY <1>8, <2>1, <3>1
      <3> QED  BY <1>8, <1>9, <3>1, <3>2 DEF IsChild
    <2> QED  BY <2>2, <2>3
  <1> QED  BY <1>8, <1>10, <1>15, <1>16 DEF m, v, c

(* The halves of a leaf.                                                   *)
LEMMA LeafHalvesOK ==
    ASSUME NEW w, NEW r, NEW used, NEW q, NEW new, NEW sep, Splits(w, r, used, q, new, sep),
           q \in LeavesOf(w), NEW n \in Leaves, LinkOK(n, q, w), NEW may,
           NEW low, NEW high,
           EntriesOK(low, Low(w.span[q], sep), may), EntriesOK(high, High(w.span[q], sep), may)
    PROVE  /\ NodeOK(Leaf(low, new, n.prev), q, Halved(w, q, new, sep), may)
           /\ NodeOK(Leaf(high, n.next, q), new, Halved(w, q, new, sep), may)
  <1> DEFINE v == Halved(w, q, new, sep)
             L == Leaf(low, new, n.prev)
             R == Leaf(high, n.next, q)
  <1>1. /\ w \in Shapes /\ v \in Shapes /\ q \in Pages /\ new \in Pages /\ q # new
        /\ new \notin w.pages
        /\ v.pages = w.pages \cup {new} /\ v.height[new] = w.height[q]
        /\ \A s \in w.pages : v.height[s] = w.height[s]
        /\ v.span[new] = High(w.span[q], sep) /\ v.span[q] = Low(w.span[q], sep)
    BY HalvedFacts
  <1>2. q \in w.pages /\ w.height[q] = 0 /\ InOrder(w)
    BY DEF LeavesOf, Splits, Good
  <1>3. /\ v.rank = [s \in Pages |-> IF s = new THEN w.rank[q] + 1
                                     ELSE IF w.rank[s] > w.rank[q] THEN w.rank[s] + 1
                                     ELSE w.rank[s]]
        /\ v.leaves = w.leaves + 1
    BY <1>2 DEF Halved
  <1> HIDE DEF v
  <1>4. /\ w.rank[q] \in 1..w.leaves /\ w.leaves \in Nat /\ w.rank[q] \in Nat
        /\ \A s \in LeavesOf(w) : s \in Pages /\ s # new /\ w.rank[s] \in Nat
    BY <1>1, <1>2, ShapeFacts DEF InOrder, LeavesOf
  <1>5. v.rank[q] = w.rank[q] /\ v.rank[new] = w.rank[q] + 1
    <2>1. ~(w.rank[q] > w.rank[q])
      BY <1>4
    <2> QED  BY <1>1, <1>3, <2>1
  <1>6. LeavesOf(w) \subseteq LeavesOf(v) /\ new \in LeavesOf(v) /\ q \in LeavesOf(v)
    BY <1>1, <1>2 DEF LeavesOf
  <1>7. L \in Leaves /\ R \in Leaves
    <2>1. n.next \in Child /\ n.prev \in Child
      BY LeafFacts
    <2>2. low \in Seq(Entries) /\ high \in Seq(Entries)
      BY DEF EntriesOK
    <2>3. new \in Child /\ q \in Child
      BY <1>1 DEF Pages, Child
    <2> QED  BY <2>1, <2>2, <2>3 DEF Leaf, Leaves, Entries
  <1>8. /\ L.entries = low /\ L.next = new /\ R.entries = high /\ R.next = n.next
    BY DEF Leaf
  <1> HIDE DEF L, R
  <1>9. LinkOK(L, q, v)
    <2>1. v.rank[q] # v.leaves
      BY <1>3, <1>4, <1>5
    <2> QED  BY <1>5, <1>6, <1>8, <2>1 DEF LinkOK
  <1>10. LinkOK(R, new, v)
    <2>1. CASE w.rank[q] = w.leaves
      <3>1. n.next = None
        BY <2>1 DEF LinkOK
      <3> QED  BY <1>3, <1>5, <1>8, <2>1, <3>1 DEF LinkOK
    <2>2. CASE w.rank[q] # w.leaves
      <3>1. n.next \in LeavesOf(w) /\ w.rank[n.next] = w.rank[q] + 1
        BY <2>2 DEF LinkOK
      <3>2. v.rank[n.next] = v.rank[new] + 1
        <4>1. w.rank[n.next] > w.rank[q] /\ n.next \in Pages /\ n.next # new
          BY <1>4, <3>1
        <4> QED  BY <1>3, <1>5, <3>1, <4>1
      <3>3. v.rank[new] # v.leaves
        BY <1>3, <1>4, <1>5, <2>2
      <3> QED  BY <1>6, <1>8, <3>1, <3>2, <3>3 DEF LinkOK
    <2> QED  BY <2>1, <2>2
  <1>11. NodeOK(L, q, v, may)
    BY <1>1, <1>2, <1>7, <1>8, <1>9 DEF NodeOK, LeafOK
  <1>12. NodeOK(R, new, v, may)
    BY <1>1, <1>2, <1>7, <1>8, <1>10 DEF NodeOK, LeafOK
  <1> QED  BY <1>11, <1>12 DEF L, R, v

(* The middle key of a node cuts its span in two.                          *)
LEMMA MiddleDivides ==
    ASSUME NEW w \in Shapes, Apart(w), NEW q \in w.pages, w.height[q] # 0, NEW n, NEW may,
           NodeOK(n, q, w, may), Len(n.keys) = Order + 1,
           NEW mid, mid = Len(n.keys) \div 2, NEW sep, sep = n.keys[mid + 1]
    PROVE  sep \in Keys /\ Low(w.span[q], sep) # {} /\ High(w.span[q], sep) # {}
  <1> DEFINE S == w.span[q]
             c == Len(n.keys)
  <1>1. InternalOK(n, q, w)
    BY DEF NodeOK
  <1>2. /\ n \in Internals /\ KeysOf(n.keys) /\ Len(n.children) = c + 1
        /\ DOMAIN n.children = 1..(c + 1)
        /\ \A i \in DOMAIN n.children : n.children[i] \in w.pages
                                        /\ w.span[n.children[i]] = Share(n.keys, S, i)
    BY <1>1, InternalFacts DEF InternalOK
  <1>3. c = Order + 1 /\ mid + 1 \in 1..c /\ Order \in Nat /\ Order > 1
    BY Numbers
  <1>4. \A i \in 1..(c + 1) : Share(n.keys, S, i) # {}
    BY <1>2 DEF Apart
  <1>5. sep \in Keys /\ sep \in Int /\ \A i \in 1..c : n.keys[i] \in Int
    BY <1>2, <1>3, KeyFacts
  <1>6. S \in SUBSET Keys
    <2>1. q \in Pages
      BY ShapeFacts
    <2> QED  BY <2>1, ShapeFacts
  <1>7. Low(S, sep) # {}
    <2>1. PICK k : k \in Share(n.keys, S, mid + 1)
      BY <1>3, <1>4
    <2>2. k \in S /\ k < sep
      BY <1>3, <2>1 DEF Share
    <2> QED  BY <2>2 DEF Low
  <1>8. High(S, sep) # {}
    <2>1. PICK k : k \in Share(n.keys, S, mid + 2)
      <3>1. mid + 2 \in 1..(c + 1)
        BY <1>3
      <3> QED  BY <1>4, <3>1
    <2>2. mid + 2 > 1 /\ (mid + 2) - 1 = mid + 1
      BY <1>3
    <2>3. k \in S /\ sep <= k
      BY <2>1, <2>2 DEF Share
    <2> QED  BY <2>3 DEF High
  <1> QED  BY <1>5, <1>7, <1>8

(* The halves of an internal node.                                         *)
LEMMA InternalHalvesOK ==
    ASSUME NEW w, NEW r, NEW used, NEW q, NEW new, NEW sep, Splits(w, r, used, q, new, sep),
           w.height[q] # 0, NEW n, NEW may, NodeOK(n, q, w, may), Len(n.keys) = Order + 1,
           sep = n.keys[Len(n.keys) \div 2 + 1],
           NEW L, L = InternalHalves(n, q, new)[1].node,
           NEW R, R = InternalHalves(n, q, new)[2].node
    PROVE  /\ NodeOK(L, q, Halved(w, q, new, sep), may) /\ SizeOK(L, Order)
           /\ NodeOK(R, new, Halved(w, q, new, sep), may) /\ SizeOK(R, Order)
  <1> DEFINE v == Halved(w, q, new, sep)
             S == w.span[q]
             c == Len(n.keys)
             mid == c \div 2
             rest == Order - mid
  <1>1. /\ w \in Shapes /\ v \in Shapes /\ q \in Pages /\ new \in Pages /\ q # new
        /\ new \notin w.pages
        /\ v.pages = w.pages \cup {new} /\ v.height[new] = w.height[q]
        /\ \A s \in w.pages : v.height[s] = w.height[s]
        /\ v.span[new] = High(w.span[q], sep) /\ v.span[q] = Low(w.span[q], sep)
        /\ \A s \in w.pages \ {q} : v.span[s] = w.span[s]
    BY HalvedFacts
  <1>2. q \in w.pages /\ Apart(w)
    BY DEF Splits, Good
  <1>3. InternalOK(n, q, w)
    BY DEF NodeOK
  <1>4. /\ n \in Internals /\ KeysOf(n.keys) /\ Len(n.children) = c + 1
        /\ DOMAIN n.children = 1..(c + 1) /\ S \in SUBSET Keys
        /\ \A i \in DOMAIN n.children :
            /\ n.children[i] \in w.pages /\ w.height[q] = w.height[n.children[i]] + 1
            /\ w.span[n.children[i]] = Share(n.keys, S, i)
    BY <1>1, <1>3, InternalFacts, ShapeFacts DEF InternalOK
  <1>5. /\ mid \in 1..Order /\ rest \in 1..Order /\ Order \in Nat /\ c = Order + 1
        /\ mid + 1 + rest = c
    BY Numbers
  <1> HIDE DEF v
  <1>6. /\ L \in Internals /\ KeysOf(L.keys)
        /\ Len(L.keys) = mid /\ Len(L.children) = mid + 1
        /\ \A i \in 1..(mid + 1) : /\ L.children[i] = n.children[i]
                                   /\ Share(L.keys, Low(S, sep), i) = Share(n.keys, S, i)
        /\ R \in Internals /\ KeysOf(R.keys)
        /\ Len(R.keys) = rest /\ Len(R.children) = rest + 1
        /\ \A i \in 1..(rest + 1) :
             /\ R.children[i] = n.children[mid + 1 + i]
             /\ Share(R.keys, High(S, sep), i) = Share(n.keys, S, mid + 1 + i)
    <2>1. /\ n \in Internals /\ KeysOf(n.keys) /\ Len(n.children) = Len(n.keys) + 1
          /\ Len(n.keys) = Order + 1 /\ S \in SUBSET Keys /\ q \in Pages /\ new \in Pages
      BY <1>1, <1>4
    <2>2. AreHalves(L, R, n, S, mid, sep)
      BY <2>1, HalvesOK
    <2> QED  BY <2>2 DEF AreHalves
  <1>7. DOMAIN L.children = 1..(mid + 1) /\ DOMAIN R.children = 1..(rest + 1)
    BY <1>6, InternalFacts
  <1> HIDE DEF S, c, mid, rest
  <1>8. \A i \in 1..(c + 1) : /\ n.children[i] \in w.pages \ {q} /\ n.children[i] \in v.pages
                              /\ v.span[n.children[i]] = Share(n.keys, S, i)
                              /\ v.height[q] = v.height[n.children[i]] + 1
    <2>1. ASSUME NEW i \in 1..(c + 1)
          PROVE  n.children[i] \in w.pages \ {q}
      <3>1. w.height[n.children[i]] \in Nat /\ w.height[q] = w.height[n.children[i]] + 1
            /\ n.children[i] \in w.pages
        BY <1>1, <1>4, ShapeFacts
      <3> QED  BY <3>1
    <2> QED  BY <1>1, <1>2, <1>4, <2>1
  <1>9. ASSUME NEW i \in 1..(mid + 1)
        PROVE  /\ L.children[i] \in v.pages /\ v.height[q] = v.height[L.children[i]] + 1
               /\ v.span[L.children[i]] = Share(L.keys, v.span[q], i)
    <2>1. i \in 1..(c + 1)
      BY <1>5
    <2>2. v.span[q] = Low(S, sep)
      BY <1>1 DEF S
    <2> QED  BY <1>6, <1>8, <2>1, <2>2
  <1>10. ASSUME NEW i \in 1..(rest + 1)
         PROVE  /\ R.children[i] \in v.pages /\ v.height[new] = v.height[R.children[i]] + 1
                /\ v.span[R.children[i]] = Share(R.keys, v.span[new], i)
    <2>1. mid + 1 + i \in 1..(c + 1)
      BY <1>5
    <2>2. v.span[new] = High(S, sep) /\ v.height[new] = v.height[q]
      BY <1>1, <1>2 DEF S
    <2>3. R.children[i] = n.children[mid + 1 + i]
          /\ Share(R.keys, High(S, sep), i) = Share(n.keys, S, mid + 1 + i)
      BY <1>6
    <2>4. /\ n.children[mid + 1 + i] \in v.pages
          /\ v.span[n.children[mid + 1 + i]] = Share(n.keys, S, mid + 1 + i)
          /\ v.height[q] = v.height[n.children[mid + 1 + i]] + 1
      BY <1>8, <2>1
    <2> QED  BY <2>2, <2>3, <2>4
  <1>11. Len(L.keys) > 0 /\ Len(L.children) = Len(L.keys) + 1 /\ Len(L.keys) <= Order
         /\ Len(R.keys) > 0 /\ Len(R.children) = Len(R.keys) + 1 /\ Len(R.keys) <= Order
    BY <1>5, <1>6
  <1>12. InternalOK(L, q, v) /\ InternalOK(R, new, v)
    BY <1>6, <1>7, <1>9, <1>10, <1>11 DEF InternalOK
  <1>13. v.height[q] # 0 /\ v.height[new] # 0
    BY <1>1, <1>2
  <1>14. NodeOK(L, q, v, may) /\ NodeOK(R, new, v, may)
    BY <1>12, <1>13 DEF NodeOK
  <1>15. SizeOK(L, Order) /\ SizeOK(R, Order)
    BY <1>6, <1>11, InternalFacts DEF SizeOK
  <1> QED  BY <1>14, <1>15 DEF v

(* The tree after a split: the parent has adopted the new page, ...        *)
LEMMA SplitBelow ==
    ASSUME NEW w, NEW r, NEW used, NEW q, NEW new, NEW sep, Splits(w, r, used, q, new, sep),
           NEW may, NEW pgs, NEW p \in w.pages, NEW m, NodeOK(m, p, w, may),
           SizeOK(m, Order), IsChild(q, m), pgs[p] = Adoption(m, sep, new),
           \A s \in w.pages \ {p, q} : NodeOK(pgs[s], s, w, may) /\ SizeOK(pgs[s], Order),
           \A s \in {q, new} : NodeOK(pgs[s], s, Halved(w, q, new, sep), may)
                               /\ SizeOK(pgs[s], Order)
    PROVE  Good(Halved(w, q, new, sep), r, used + 1) /\ Tree(pgs, Halved(w, q, new, sep), may, p)
  <1> DEFINE v == Halved(w, q, new, sep)
  <1>1. /\ w \in Shapes /\ q \in Pages /\ new \in Pages /\ q # new /\ new \notin w.pages
        /\ v.pages = w.pages \cup {new}
    BY HalvedFacts
  <1>2. Apart(w) /\ q \in w.pages /\ Rooted(w, r, used)
    BY DEF Splits, Good
  <1>3. /\ NodeOK(pgs[p], p, v, may) /\ Len(pgs[p].keys) = Len(m.keys) + 1 /\ p # q
    BY ParentOK
  <1>4. w.height[p] = w.height[q] + 1
    BY <1>1, <1>2, OneParent
  <1>5. q # r
    <2>1. w.height[p] <= w.height[r] /\ w.height[q] \in Nat /\ w.height[r] \in Nat
      BY <1>1, <1>2, ShapeFacts DEF Rooted
    <2> QED  BY <1>4, <2>1
  <1>6. Good(v, r, used + 1)
    BY <1>5, HalvedGood
  <1>7. SizeOK(pgs[p], Order + 1)
    <2>1. w.height[p] # 0
      <3>1. w.height[q] \in Nat
        BY <1>1, ShapeFacts
      <3> QED  BY <1>4, <3>1
    <2>2. m \in Internals
      BY <2>1 DEF NodeOK, InternalOK
    <2>3. v.height[p] # 0
      BY <2>1, HalvedFacts
    <2>4. pgs[p] \in Internals
      BY <1>3, <2>3 DEF NodeOK, InternalOK
    <2>5. Len(m.keys) <= Order /\ Len(m.keys) \in Nat /\ ~IsLeaf(pgs[p])
      BY <2>2, <2>4, InternalFacts DEF SizeOK
    <2> QED  BY <1>3, <2>5, Numbers DEF SizeOK
  <1>8. ASSUME NEW s \in w.pages \ {p, q} PROVE NodeOK(pgs[s], s, v, may)
    <2>1. NodeOK(pgs[s], s, w, may)
      OBVIOUS
    <2>2. ~IsChild(q, pgs[s])
      BY <1>1, <1>2, <2>1, OneParent
    <2> QED  BY <2>1, <2>2, OthersStayOK
  <1> HIDE DEF v
  <1>9. Tree(pgs, v, may, p)
    <2>1. ASSUME NEW s \in v.pages
          PROVE  /\ NodeOK(pgs[s], s, v, may)
                 /\ SizeOK(pgs[s], IF s = p THEN Order + 1 ELSE Order)
      <3>1. CASE s = p
        BY <1>3, <1>7, <3>1
      <3>2. CASE s \in w.pages \ {p, q}
        BY <1>8, <3>2
      <3>3. CASE s \in {q, new}
        BY <1>1, <1>3, <3>3 DEF v
      <3> QED  BY <1>1, <3>1, <3>2, <3>3
    <2> QED  BY <2>1 DEF Tree
  <1> QED  BY <1>6, <1>9 DEF v

(* ... or the new root holds both halves of the old one.                   *)
LEMMA SplitAtRoot ==
    ASSUME NEW w, NEW r, NEW used, NEW new, NEW sep, Splits(w, r, used, r, new, sep),
           NEW top, top = new + 1, top \in Pages, NEW may, NEW pgs,
           pgs[top] = Internal(<<sep>>, <<r, new>>),
           \A s \in w.pages \ {r} : NodeOK(pgs[s], s, w, may) /\ SizeOK(pgs[s], Order),
           \A s \in {r, new} : NodeOK(pgs[s], s, Halved(w, r, new, sep), may)
                               /\ SizeOK(pgs[s], Order)
    PROVE  /\ Good(Crowned(Halved(w, r, new, sep), r, top), top, used + 2)
           /\ Tree(pgs, Crowned(Halved(w, r, new, sep), r, top), may, None)
  <1> DEFINE v == Halved(w, r, new, sep)
             c == Crowned(v, r, top)
  <1>1. /\ w \in Shapes /\ v \in Shapes /\ r \in Pages /\ new \in Pages /\ r # new
        /\ new \notin w.pages /\ v.pages = w.pages \cup {new}
        /\ v.height[new] = w.height[r] /\ \A p \in w.pages : v.height[p] = w.height[p]
        /\ v.span[new] = High(w.span[r], sep) /\ v.span[r] = Low(w.span[r], sep)
    BY HalvedFacts
  <1>2. Rooted(w, r, used) /\ r \in w.pages /\ new = used + 1 /\ used \in Nat /\ sep \in Keys
    BY DEF Splits, Good
  <1>3. Good(c, top, used + 2)
    BY CrownedGood
  <1>4. \A s \in w.pages \ {r} : NodeOK(pgs[s], s, v, may)
    <2>1. ASSUME NEW s \in w.pages \ {r} PROVE NodeOK(pgs[s], s, v, may)
      <3>1. NodeOK(pgs[s], s, w, may)
        OBVIOUS
      <3>2. w.height[s] <= w.height[r] /\ w.height[s] \in Nat /\ w.height[r] \in Nat
        BY <1>1, <1>2, ShapeFacts DEF Rooted
      <3>3. ASSUME IsChild(r, pgs[s]) PROVE FALSE
        <4>1. pgs[s] \in Internals
          BY <3>3 DEF IsChild
        <4>2. InternalOK(pgs[s], s, w)
          BY <3>1, <4>1, LeafFacts, InternalFacts DEF NodeOK, LeafOK
        <4>3. w.height[s] = w.height[r] + 1
          BY <3>3, <4>2 DEF IsChild, InternalOK
        <4> QED  BY <3>2, <4>3
      <3> QED  BY <3>1, <3>3, OthersStayOK
    <2> QED  BY <2>1
  <1> HIDE DEF v
  <1>5. top \notin v.pages
    BY <1>1, <1>2 DEF Rooted
  <1>6. /\ c \in Shapes /\ c.pages = v.pages \cup {top}
        /\ c.height[top] = v.height[r] + 1 /\ c.span[top] = Keys
        /\ \A p \in v.pages : c.height[p] = v.height[p] /\ c.span[p] = v.span[p] /\ p # top
        /\ c.rank = v.rank /\ c.leaves = v.leaves /\ LeavesOf(c) = LeavesOf(v)
    BY <1>1, <1>5, CrownedFacts
  <1> HIDE DEF c
  <1>7. ASSUME NEW s \in v.pages, NodeOK(pgs[s], s, v, may)
        PROVE  NodeOK(pgs[s], s, c, may)
    <2>1. CASE v.height[s] = 0
      <3>1. LinkOK(pgs[s], s, c)
        BY <1>6, <1>7, <2>1 DEF NodeOK, LinkOK
      <3> QED  BY <1>6, <1>7, <2>1, <3>1 DEF NodeOK
    <2>2. CASE v.height[s] # 0
      <3>1. InternalOK(pgs[s], s, v)
        BY <1>7, <2>2 DEF NodeOK
      <3>2. InternalOK(pgs[s], s, c)
        BY <1>6, <3>1 DEF InternalOK
      <3> QED  BY <1>6, <2>2, <3>2 DEF NodeOK
    <2> QED  BY <2>1, <2>2
  <1>8. NodeOK(pgs[top], top, c, may) /\ SizeOK(pgs[top], Order)
    <2> DEFINE n == Internal(<<sep>>, <<r, new>>)
    <2>1. /\ n.keys = <<sep>> /\ n.children = <<r, new>> /\ n \in Internals /\ ~IsLeaf(n)
          /\ Len(n.keys) = 1 /\ Len(n.children) = 2 /\ n.keys[1] = sep
          /\ n.children[1] = r /\ n.children[2] = new
          /\ DOMAIN n.keys = 1..1 /\ DOMAIN n.children = 1..2
      BY <1>1, <1>2 DEF Internal, Internals, IsLeaf
    <2> HIDE DEF n
    <2>2. KeysOf(n.keys)
      BY <2>1, InternalFacts DEF KeysOf, Sorted
    <2>3. w.span[r] = Keys
      BY <1>2 DEF Rooted
    <2>4. Share(n.keys, Keys, 1) = Low(Keys, sep) /\ Share(n.keys, Keys, 2) = High(Keys, sep)
      BY <2>1 DEF Share, Low, High
    <2>5. ASSUME NEW i \in DOMAIN n.children
          PROVE  /\ n.children[i] \in c.pages /\ c.height[top] = c.height[n.children[i]] + 1
                 /\ c.span[n.children[i]] = Share(n.keys, c.span[top], i)
      <3>1. CASE i = 1
        BY <1>1, <1>2, <1>6, <2>1, <2>3, <2>4, <3>1
      <3>2. CASE i = 2
        BY <1>1, <1>2, <1>6, <2>1, <2>3, <2>4, <3>2
      <3> QED  BY <2>1, <3>1, <3>2
    <2>6. Len(n.keys) > 0 /\ Len(n.children) = Len(n.keys) + 1
      BY <2>1
    <2>7. InternalOK(n, top, c)
      BY <2>1, <2>2, <2>5, <2>6 DEF InternalOK
    <2>8. c.height[top] # 0
      <3>1. v.height[r] \in Nat
        BY <1>1, ShapeFacts
      <3> QED  BY <1>6, <3>1
    <2>9. SizeOK(n, Order)
      BY <2>1, Numbers DEF SizeOK
    <2> QED  BY <2>7, <2>8, <2>9 DEF NodeOK, n
  <1>9. Tree(pgs, c, may, None)
    <2>1. ASSUME NEW s \in c.pages
          PROVE  NodeOK(pgs[s], s, c, may) /\ SizeOK(pgs[s], Order)
      <3>1. CASE s = top
        BY <1>8, <3>1
      <3>2. CASE s \in w.pages \ {r}
        BY <1>1, <1>4, <1>7, <3>2
      <3>3. CASE s \in {r, new}
        BY <1>1, <1>2, <1>7, <3>3 DEF v
      <3> QED  BY <1>1, <1>6, <3>1, <3>2, <3>3
    <2>2. \A s \in c.pages : s # None
      BY <1>6, ShapeFacts, Numbers DEF Pages, None
    <2> QED  BY <2>1, <2>2 DEF Tree
  <1> QED  BY <1>3, <1>9 DEF c, v

-----------------------------------------------------------------------------
(* Finding a leaf.                                                         *)

(* The way down, one page longer with each step until it stops.            *)
Descent(f, pgs, r, k) ==
    /\ f \in [Nat -> Seq(Pages) \ {<<>>}]
    /\ f[0] = <<r>>
    /\ \A d \in Nat : f[d + 1] = IF Stops(pgs[Last(f[d])]) THEN f[d]
                                 ELSE Append(f[d], ChooseChild(pgs[Last(f[d])], k))
    /\ f[MaxPages] = Trail(pgs, r, k)

LEMMA TrailDescends ==
    ASSUME NEW pgs, NEW r \in Pages, NEW k,
           \A p \in Pages : ~Stops(pgs[p]) => ChooseChild(pgs[p], k) \in Pages
    PROVE  \E f : Descent(f, pgs, r, k)
  <1> DEFINE S == Seq(Pages) \ {<<>>}
             first == <<r>>
             next(t) == IF Stops(pgs[Last(t)]) THEN t ELSE Append(t, ChooseChild(pgs[Last(t)], k))
             step == [d \in Nat |-> [t \in S |-> next(t)]]
             Body(f) == [d \in Nat |-> IF d = 0 THEN <<r>> ELSE next(f[d - 1])]
             walk == CHOOSE f : f = Body(f)
  <1>1. first \in S
    OBVIOUS
  <1>2. \A t \in S : next(t) \in S /\ Last(t) \in Pages
    <2>1. ASSUME NEW t \in S PROVE next(t) \in S /\ Last(t) \in Pages
      <3>1. t \in Seq(Pages) /\ Last(t) \in Pages
        BY FrontProperties
      <3>2. CASE Stops(pgs[Last(t)])
        BY <3>1, <3>2
      <3>3. CASE ~Stops(pgs[Last(t)])
        <4>1. ChooseChild(pgs[Last(t)], k) \in Pages
          BY <3>1, <3>3
        <4>2. \A e \in Pages : Append(t, e) \in Seq(Pages) /\ Append(t, e) # <<>>
          BY <3>1, AppendProperties
        <4> QED  BY <3>1, <3>3, <4>1, <4>2
      <3> QED  BY <3>2, <3>3
    <2> QED  BY <2>1
  <1>3. step \in [Nat -> [S -> S]]
    BY <1>2
  <1>4. PICK g : g \in [Nat -> S] /\ g[0] = <<r>> /\ \A d \in Nat : g[d + 1] = next(g[d])
    <2>1. \A d \in Nat, t \in S : step[d][t] = next(t)
      OBVIOUS
    <2> HIDE DEF S, first, step, next
    <2>2. PICK g : IsWalk(g, S, first, step)
      BY <1>1, <1>3, WalkExists
    <2>3. g \in [Nat -> S] /\ g[0] = first /\ \A d \in Nat : g[d + 1] = step[d][g[d]]
      BY <2>2 DEF IsWalk
    <2>4. \A d \in Nat : g[d + 1] = next(g[d])
      BY <2>1, <2>3
    <2> QED  BY <2>3, <2>4 DEF first
  <1> HIDE DEF S, next, step
  <1>5. g = Body(g)
    <2>1. ASSUME NEW d \in Nat PROVE g[d] = IF d = 0 THEN <<r>> ELSE next(g[d - 1])
      <3>1. CASE d = 0
        BY <1>4, <3>1
      <3>2. CASE d # 0
        <4>1. d - 1 \in Nat /\ (d - 1) + 1 = d
          BY <3>2
        <4> QED  BY <1>4, <3>2, <4>1
      <3> QED  BY <3>1, <3>2
    <2>2. g = [d \in Nat |-> g[d]]
      BY <1>4
    <2> QED  BY <2>1, <2>2
  <1>6. walk = Body(walk)
    BY <1>5
  <1>7. Trail(pgs, r, k) = walk[MaxPages]
    BY DEF Trail, next
  <1> HIDE DEF walk
  <1>8. walk[0] = <<r>> /\ \A d \in Nat : walk[d + 1] = next(walk[d])
    <2>1. \A d \in Nat : walk[d] = IF d = 0 THEN <<r>> ELSE next(walk[d - 1])
      BY <1>6
    <2>2. \A d \in Nat : d + 1 \in Nat /\ d + 1 # 0 /\ (d + 1) - 1 = d
      OBVIOUS
    <2> QED  BY <2>1, <2>2
  <1>9. walk \in [Nat -> S]
    <2> DEFINE P == {d \in Nat : walk[d] \in S}
    <2>1. 0 \in P
      BY <1>1, <1>8
    <2>2. \A d \in P : d + 1 \in P
      BY <1>2, <1>8
    <2>3. P = Nat
      <3>1. P \in SUBSET Nat
        OBVIOUS
      <3> HIDE DEF P
      <3> QED  BY <2>1, <2>2, <3>1, Induction
    <2>4. walk = [d \in Nat |-> walk[d]]
      <3>1. \A f : Body(f) = [d \in Nat |-> Body(f)[d]]
        OBVIOUS
      <3> QED  BY <1>6, <3>1
    <2> QED  BY <2>3, <2>4
  <1>10. Descent(walk, pgs, r, k)
    BY <1>7, <1>8, <1>9 DEF Descent, S, next
  <1> QED  BY <1>10

Readable(pgs) == pgs \in [Pages -> Leaves \cup Internals] /\ \A p \in Pages : Whole(pgs[p])

LEMMA WholeChoice ==
    ASSUME NEW n \in Leaves \cup Internals, Whole(n), ~Stops(n), NEW k
    PROVE  ChooseChild(n, k) \in Pages
  <1>1. n \in Internals /\ n.children # <<>> /\ Len(n.children) = Len(n.keys) + 1
    BY LeafFacts DEF Whole, Stops
  <1>2. /\ Len(n.keys) \in Nat /\ DOMAIN n.keys = 1..Len(n.keys)
        /\ DOMAIN n.children = 1..(Len(n.keys) + 1)
        /\ \A i \in DOMAIN n.children : n.children[i] \in Pages
    BY <1>1, InternalFacts
  <1> DEFINE above == {i \in DOMAIN n.keys : k < n.keys[i]}
  <1>3. CASE above = {}
    <2>1. Len(n.keys) + 1 \in DOMAIN n.children
      BY <1>2
    <2>2. ChooseChild(n, k) = n.children[Len(n.keys) + 1]
      BY <1>1, <1>3 DEF ChooseChild, Last
    <2> QED  BY <1>2, <2>1, <2>2
  <1>4. CASE above # {}
    <2>1. ChooseChild(n, k) = n.children[Min(above)]
      BY <1>4 DEF ChooseChild
    <2>2. above \in SUBSET Nat /\ above \subseteq DOMAIN n.children
      BY <1>2
    <2> HIDE DEF above
    <2>3. Min(above) \in above
      BY <1>4, <2>2, MinOf
    <2> QED  BY <1>2, <2>1, <2>2, <2>3
  <1> QED  BY <1>3, <1>4

(* In pages that can be read, the way down is a sequence of pages.         *)
LEMMA TrailIsTyped ==
    ASSUME NEW pgs, Readable(pgs), NEW r \in Pages, NEW k
    PROVE  /\ Trail(pgs, r, k) \in Seq(Pages) /\ Trail(pgs, r, k) # <<>>
           /\ Last(Trail(pgs, r, k)) \in Pages
  <1>1. \A p \in Pages : ~Stops(pgs[p]) => ChooseChild(pgs[p], k) \in Pages
    BY WholeChoice DEF Readable
  <1>2. PICK f : Descent(f, pgs, r, k)
    BY <1>1, TrailDescends
  <1>3. f \in [Nat -> Seq(Pages) \ {<<>>}] /\ f[MaxPages] = Trail(pgs, r, k) /\ MaxPages \in Nat
    BY <1>2, Numbers DEF Descent
  <1>4. Trail(pgs, r, k) \in Seq(Pages) \ {<<>>}
    BY <1>3
  <1> DEFINE t == Trail(pgs, r, k)
  <1> HIDE DEF t
  <1>5. t \in Seq(Pages) /\ t # <<>>
    BY <1>4 DEF t
  <1>6. Last(t) \in Pages
    BY <1>5, FrontProperties
  <1> QED  BY <1>5, <1>6 DEF t

(* A way down in a tree, as far as it goes.                                *)
Along(t, pgs, w, r, k) ==
    /\ t \in Seq(Pages) /\ t # <<>> /\ t[1] = r
    /\ \A i \in DOMAIN t : /\ t[i] \in w.pages /\ k \in w.span[t[i]]
                           /\ w.height[t[i]] + i = w.height[r] + 1
    /\ \A i \in 1..(Len(t) - 1) : IsChild(t[i + 1], pgs[t[i]])

LEMMA NodesOfTree ==
    ASSUME NEW w \in Shapes, NEW pgs, NEW may, NEW wide, Tree(pgs, w, may, wide),
           NEW p \in w.pages
    PROVE  /\ NodeOK(pgs[p], p, w, may) /\ w.height[p] \in Nat /\ w.span[p] \in SUBSET Keys
           /\ p \in Pages /\ p # None
           /\ w.height[p] = 0 => pgs[p] \in Leaves /\ Stops(pgs[p])
           /\ w.height[p] # 0 => InternalOK(pgs[p], p, w) /\ ~Stops(pgs[p])
  <1>1. NodeOK(pgs[p], p, w, may)
    BY DEF Tree
  <1>2. p \in Pages /\ w.height[p] \in Nat /\ w.span[p] \in SUBSET Keys /\ p # None
    BY ShapeFacts, Numbers DEF Pages, None
  <1>3. w.height[p] = 0 => pgs[p] \in Leaves /\ Stops(pgs[p])
    BY <1>1, LeafFacts DEF NodeOK, LeafOK, Stops
  <1>4. ASSUME w.height[p] # 0 PROVE InternalOK(pgs[p], p, w) /\ ~Stops(pgs[p])
    <2>1. InternalOK(pgs[p], p, w)
      BY <1>1, <1>4 DEF NodeOK
    <2>2. pgs[p] \in Internals /\ Len(pgs[p].children) > 0
      BY <2>1, InternalFacts DEF InternalOK
    <2> QED  BY <2>1, <2>2, InternalFacts DEF Stops
  <1> QED  BY <1>1, <1>2, <1>3, <1>4

(* Where the key goes next.                                                *)
LEMMA NextPage ==
    ASSUME NEW w \in Shapes, NEW p \in w.pages, w.height[p] # 0, NEW n, InternalOK(n, p, w),
           NEW k \in w.span[p]
    PROVE  /\ ChooseChild(n, k) \in w.pages /\ IsChild(ChooseChild(n, k), n)
           /\ k \in w.span[ChooseChild(n, k)]
           /\ w.height[p] = w.height[ChooseChild(n, k)] + 1
  <1>1. n \in Internals /\ KeysOf(n.keys) /\ Len(n.children) = Len(n.keys) + 1
    BY DEF InternalOK
  <1>2. w.span[p] \in SUBSET Keys
    BY ShapeFacts
  <1>3. PICK i \in DOMAIN n.children :
            ChooseChild(n, k) = n.children[i] /\ k \in Share(n.keys, w.span[p], i)
    BY <1>1, <1>2, ChoosesTheShare
  <1> QED  BY <1>1, <1>3 DEF InternalOK, IsChild

(* From the root of a tree every key is found its leaf, the tree's height  *)
(* below.                                                                  *)
LEMMA TrailOK ==
    ASSUME NEW w, NEW r, NEW used, used <= MaxPages, used \in Nat, Good(w, r, used),
           NEW pgs, NEW may, NEW wide, Tree(pgs, w, may, wide), Readable(pgs), NEW k \in Keys
    PROVE  LET t == Trail(pgs, r, k)
           IN  /\ Along(t, pgs, w, r, k) /\ Len(t) = w.height[r] + 1
               /\ Last(t) \in LeavesOf(w) /\ k \in w.span[Last(t)]
  <1>1. /\ w \in Shapes /\ r \in w.pages /\ w.span[r] = Keys /\ w.height[r] < used
        /\ \A p \in w.pages : p \in Pages /\ w.height[p] \in Nat /\ w.height[p] <= w.height[r]
    BY ShapeFacts DEF Good, Rooted
  <1> DEFINE h == w.height[r]
  <1>2. \A p \in Pages : ~Stops(pgs[p]) => ChooseChild(pgs[p], k) \in Pages
    BY WholeChoice DEF Readable
  <1>3. PICK f : Descent(f, pgs, r, k)
    BY <1>1, <1>2, TrailDescends
  <1> DEFINE P == {d \in Nat : /\ Along(f[d], pgs, w, r, k)
                               /\ Len(f[d]) = IF d <= h THEN d + 1 ELSE h + 1}
  <1>4. 0 \in P
    <2>1. f[0] = <<r>> /\ f[0] \in Seq(Pages) /\ DOMAIN f[0] = {1} /\ Len(f[0]) = 1 /\ f[0] # <<>>
      BY <1>1, <1>3 DEF Descent
    <2>2. Along(f[0], pgs, w, r, k)
      <3>1. \A i \in DOMAIN f[0] : /\ f[0][i] \in w.pages /\ k \in w.span[f[0][i]]
                                   /\ w.height[f[0][i]] + i = w.height[r] + 1
        BY <1>1, <2>1
      <3>2. 1..(Len(f[0]) - 1) = {}
        BY <2>1
      <3> QED  BY <2>1, <3>1, <3>2 DEF Along
    <2>3. Len(f[0]) = IF 0 <= h THEN 0 + 1 ELSE h + 1
      BY <1>1, <2>1
    <2> HIDE DEF h
    <2> QED  BY <2>2, <2>3
  <1>5. ASSUME NEW d \in P PROVE d + 1 \in P
    <2> DEFINE t == f[d]
               p == Last(t)
               m == Len(t)
    <2>1. /\ d \in Nat /\ Along(t, pgs, w, r, k) /\ m = IF d <= h THEN d + 1 ELSE h + 1
          /\ t \in Seq(Pages) /\ h \in Nat
      BY <1>1 DEF Along
    <2>2. f[d + 1] = IF Stops(pgs[p]) THEN t ELSE Append(t, ChooseChild(pgs[p], k))
      BY <1>3, <2>1 DEF Descent
    <2> HIDE DEF t
    <2>3. m \in Nat /\ m # 0 /\ DOMAIN t = 1..m /\ p = t[m] /\ m \in DOMAIN t
      <3>1. m \in Nat /\ m # 0 /\ DOMAIN t = 1..m
        BY <2>1, LenProperties
      <3> QED  BY <3>1 DEF Last
    <2>4. p \in w.pages /\ k \in w.span[p] /\ w.height[p] + m = h + 1 /\ w.height[p] \in Nat
      BY <1>1, <2>1, <2>3 DEF Along
    <2> HIDE DEF p, m, h
    <2>5. CASE w.height[p] = 0
      <3>1. Stops(pgs[p])
        BY <1>1, <2>4, <2>5, NodesOfTree
      <3>2. f[d + 1] = t /\ m = h + 1
        BY <2>1, <2>2, <2>3, <2>4, <2>5, <3>1
      <3>3. m = IF d + 1 <= h THEN (d + 1) + 1 ELSE h + 1
        BY <2>1, <3>2
      <3> QED  BY <2>1, <3>2, <3>3 DEF m
    <2>6. CASE w.height[p] # 0
      <3> DEFINE c == ChooseChild(pgs[p], k)
                 u == Append(t, c)
      <3>1. InternalOK(pgs[p], p, w) /\ ~Stops(pgs[p])
        BY <1>1, <2>4, <2>6, NodesOfTree
      <3>2. c \in w.pages /\ IsChild(c, pgs[p]) /\ k \in w.span[c] /\ w.height[p] = w.height[c] + 1
        BY <1>1, <2>4, <2>6, <3>1, NextPage
      <3>3. f[d + 1] = u /\ c \in Pages /\ w.height[c] \in Nat
        BY <1>1, <2>2, <3>1, <3>2
      <3> HIDE DEF c
      <3>4. /\ u \in Seq(Pages) /\ u # <<>> /\ Len(u) = m + 1
            /\ \A i \in 1..m : u[i] = t[i]
            /\ u[m + 1] = c
        BY <2>1, <3>3, AppendProperties DEF m
      <3> HIDE DEF u
      <3>5. DOMAIN u = 1..(m + 1)
        BY <3>4, LenProperties
      <3>6. m <= h /\ d <= h /\ m + 1 = (d + 1) + 1 /\ d + 1 <= h
        BY <2>1, <2>3, <2>4, <2>6
      <3>7. Along(u, pgs, w, r, k)
        <4>1. u[1] = r
          <5>1. 1 \in 1..m /\ t[1] = r
            BY <2>1, <2>3 DEF Along
          <5> QED  BY <3>4, <5>1
        <4>2. ASSUME NEW i \in 1..(m + 1)
              PROVE  u[i] \in w.pages /\ k \in w.span[u[i]] /\ w.height[u[i]] + i = w.height[r] + 1
          <5>1. CASE i = m + 1
            <6>1. w.height[c] + (m + 1) = h + 1
              BY <2>3, <2>4, <3>2, <3>3
            <6> QED  BY <3>2, <3>4, <5>1, <6>1 DEF h
          <5>2. CASE i # m + 1
            <6>1. i \in 1..m
              BY <2>3, <5>2
            <6> QED  BY <2>1, <2>3, <3>4, <6>1 DEF Along
          <5> QED  BY <5>1, <5>2
        <4>3. ASSUME NEW i \in 1..m PROVE IsChild(u[i + 1], pgs[u[i]])
          <5>1. CASE i = m
            BY <2>3, <3>2, <3>4, <5>1
          <5>2. CASE i # m
            <6>1. i \in 1..(m - 1) /\ i + 1 \in 1..m
              BY <2>3, <5>2
            <6>2. IsChild(t[i + 1], pgs[t[i]])
              BY <2>1, <6>1 DEF Along, m
            <6> QED  BY <3>4, <6>1, <6>2
          <5> QED  BY <5>1, <5>2
        <4>4. Len(u) - 1 = m
          BY <2>3, <3>4
        <4> QED  BY <3>4, <3>5, <4>1, <4>2, <4>3, <4>4 DEF Along
      <3> QED  BY <2>1, <3>3, <3>4, <3>6, <3>7
    <2> QED  BY <2>5, <2>6
  <1>6. P = Nat
    <2>1. P \in SUBSET Nat
      OBVIOUS
    <2> HIDE DEF P
    <2> QED  BY <1>4, <1>5, <2>1, Induction
  <1>7. MaxPages \in P
    BY <1>6, Numbers
  <1> DEFINE t == Trail(pgs, r, k)
  <1>8. Along(t, pgs, w, r, k) /\ Len(t) = h + 1 /\ h \in Nat
    <2>1. ~(MaxPages <= h) /\ h \in Nat
      BY <1>1, Numbers
    <2> QED  BY <1>3, <1>7, <2>1 DEF Descent
  <1> HIDE DEF t, h
  <1>9. Last(t) = t[h + 1] /\ h + 1 \in DOMAIN t
    <2>1. t \in Seq(Pages)
      BY <1>8 DEF Along
    <2>2. DOMAIN t = 1..(h + 1)
      BY <1>8, <2>1, LenProperties
    <2> QED  BY <1>8, <2>2 DEF Last
  <1>10. Last(t) \in w.pages /\ k \in w.span[Last(t)] /\ w.height[Last(t)] + (h + 1) = h + 1
    BY <1>8, <1>9 DEF Along, h
  <1>11. w.height[Last(t)] = 0
    <2>1. w.height[Last(t)] \in Nat
      BY <1>1, <1>10
    <2> QED  BY <1>8, <1>10, <2>1
  <1>12. Last(t) \in LeavesOf(w)
    BY <1>10, <1>11 DEF LeavesOf
  <1> QED  BY <1>8, <1>10, <1>12 DEF t, h

LEMMA GetOK ==
    ASSUME NEW w, NEW r, NEW used, used <= MaxPages, used \in Nat, Good(w, r, used),
           NEW pgs, NEW may, NEW wide, Tree(pgs, w, may, wide), Readable(pgs), NEW k \in Keys
    PROVE  Get(pgs, r, k) \in may[k]
  <1> DEFINE q == Last(Trail(pgs, r, k))
             leaf == pgs[q]
  <1>1. q \in LeavesOf(w) /\ k \in w.span[q]
    BY TrailOK
  <1>2. Get(pgs, r, k) = IF IsLeaf(leaf) /\ HasKey(leaf, k)
                         THEN leaf.entries[At(leaf, k)].val ELSE NoValue
    BY DEF Get
  <1> HIDE DEF q
  <1>3. LeafOK(leaf, w.span[q], may)
    BY <1>1 DEF Tree, NodeOK, LeavesOf
  <1>4. IsLeaf(leaf) /\ EntriesOK(leaf.entries, w.span[q], may)
    BY <1>3, LeafFacts DEF LeafOK
  <1>5. CASE HasKey(leaf, k)
    <2>1. At(leaf, k) \in DOMAIN leaf.entries /\ leaf.entries[At(leaf, k)].key = k
      BY <1>5, AtIsThere
    <2>2. leaf.entries[At(leaf, k)].val \in may[leaf.entries[At(leaf, k)].key]
      BY <1>4, <2>1 DEF EntriesOK
    <2> QED  BY <1>2, <1>4, <1>5, <2>1, <2>2
  <1>6. CASE ~HasKey(leaf, k)
    <2>1. \A i \in DOMAIN leaf.entries : leaf.entries[i].key # k
      BY <1>6 DEF HasKey
    <2> QED  BY <1>1, <1>2, <1>4, <1>6, <2>1 DEF EntriesOK
  <1> QED  BY <1>5, <1>6

-----------------------------------------------------------------------------
(* What keeps a tree a tree.                                               *)

LEMMA GoodWithMore ==
    ASSUME NEW w, NEW r, NEW used \in Nat, Good(w, r, used)
    PROVE  Good(w, r, used + 1)
  <1>1. w \in Shapes /\ Rooted(w, r, used)
    BY DEF Good
  <1>2. r \in Pages /\ w.height[r] \in Nat /\ w.leaves \in Nat
    BY <1>1, ShapeFacts DEF Rooted
  <1>3. Rooted(w, r, used + 1)
    <2>1. w.pages \subseteq 1..(used + 1)
      BY <1>1 DEF Rooted
    <2>2. w.height[r] < used + 1 /\ w.leaves <= used + 1
      BY <1>1, <1>2 DEF Rooted
    <2> QED  BY <1>1, <2>1, <2>2 DEF Rooted
  <1> QED  BY <1>3 DEF Good

(* The same pages with the same or more values allowed below each.         *)
LEMMA NodeWithMore ==
    ASSUME NEW n, NEW p, NEW w, NEW may, NEW more, NodeOK(n, p, w, may),
           w.height[p] = 0 => \A k \in w.span[p] : may[k] \subseteq more[k]
    PROVE  NodeOK(n, p, w, more)
  <1>1. CASE w.height[p] = 0
    <2>1. LeafOK(n, w.span[p], may) /\ LinkOK(n, p, w)
      BY <1>1 DEF NodeOK
    <2>2. LeafOK(n, w.span[p], more)
      <3>1. EntriesOK(n.entries, w.span[p], may) /\ n \in Leaves
        BY <2>1 DEF LeafOK
      <3>2. EntriesOK(n.entries, w.span[p], more)
        BY <1>1, <3>1, MoreIsAllowed
      <3> QED  BY <3>1, <3>2 DEF LeafOK
    <2> QED  BY <1>1, <2>1, <2>2 DEF NodeOK
  <1>2. CASE w.height[p] # 0
    BY <1>2 DEF NodeOK
  <1> QED  BY <1>1, <1>2

LEMMA TreeWithMore ==
    ASSUME NEW w \in Shapes, NEW pgs, NEW may, NEW wide, NEW more, Tree(pgs, w, may, wide),
           \A k \in Keys : may[k] \subseteq more[k]
    PROVE  Tree(pgs, w, more, wide)
  <1>1. ASSUME NEW p \in w.pages PROVE NodeOK(pgs[p], p, w, more)
    <2>1. NodeOK(pgs[p], p, w, may) /\ w.span[p] \in SUBSET Keys
      BY NodesOfTree
    <2> QED  BY <2>1, NodeWithMore
  <1> QED  BY <1>1 DEF Tree

(* Only the pages of the shape matter.                                     *)
LEMMA TreeOfSame ==
    ASSUME NEW w, NEW pgs, NEW may, NEW wide, NEW others, Tree(pgs, w, may, wide),
           \A p \in w.pages : others[p] = pgs[p]
    PROVE  Tree(others, w, may, wide)
  BY DEF Tree

(* One leaf is written, with what its key has from now on.                 *)
LEMMA TreeWithLeaf ==
    ASSUME NEW w, NEW r, NEW used, Good(w, r, used), NEW pgs, NEW may, Tree(pgs, w, may, None),
           NEW q \in LeavesOf(w), NEW k \in w.span[q], NEW n, NEW more, NodeOK(n, q, w, more),
           SizeOK(n, Order), \A l \in Keys \ {k} : may[l] \subseteq more[l],
           NEW others, others[q] = n, \A p \in w.pages \ {q} : others[p] = pgs[p]
    PROVE  Tree(others, w, more, None)
  <1>1. w \in Shapes /\ Apart(w) /\ q \in w.pages /\ w.height[q] = 0
    BY DEF Good, LeavesOf
  <1>2. ASSUME NEW p \in w.pages
        PROVE  /\ NodeOK(others[p], p, w, more)
               /\ SizeOK(others[p], IF p = None THEN Order + 1 ELSE Order)
    <2>1. p # None /\ NodeOK(pgs[p], p, w, may) /\ w.span[p] \in SUBSET Keys
      BY <1>1, NodesOfTree
    <2>2. CASE p = q
      BY <2>1, <2>2
    <2>3. CASE p # q
      <3>1. w.height[p] = 0 => \A l \in w.span[p] : may[l] \subseteq more[l]
        <4>1. ASSUME w.height[p] = 0 PROVE k \notin w.span[p]
          BY <1>1, <2>3, <4>1 DEF Apart
        <4> QED  BY <2>1, <4>1
      <3>2. NodeOK(pgs[p], p, w, more)
        BY <2>1, <3>1, NodeWithMore
      <3>3. SizeOK(pgs[p], Order) /\ others[p] = pgs[p]
        BY <2>1, <2>3 DEF Tree
      <3> QED  BY <2>1, <3>2, <3>3
    <2> QED  BY <2>2, <2>3
  <1> QED  BY <1>2 DEF Tree

-----------------------------------------------------------------------------
(* The steps.                                                              *)

Nodes == Leaves \cup Internals
Writes == [page : Pages, node : Nodes] \cup [page : {None}, root : Pages]
Splitting == [left : Pages, sep : Keys, right : Pages, path : Seq(Pages)]

LEMMA TypeFacts ==
    ASSUME TypeOK
    PROVE  /\ cache \in [Pages -> Nodes] /\ file \in [Pages -> Nodes]
           /\ work \in Seq(Writes) /\ (Climbs => up \in Splitting)
           /\ count \in 1..(MaxPages + 1) /\ count \in Nat
           /\ header \in [root : Child, count : 1..(MaxPages + 1)]
           /\ allowed \in [Keys -> SUBSET (Values \cup {NoValue})]
  BY Numbers DEF TypeOK, Nodes, Writes, Splitting, Climbs

LEMMA WriteFacts ==
    /\ \A x \in Writes : x.page # None => x.page \in Pages /\ x.node \in Nodes
    /\ \A x \in Writes : x.page = None => x.root \in Pages
    /\ \A x \in Writes : x.page \in Pages \cup {None}
    /\ \A p \in Pages, n \in Nodes : WriteOf(p, n) \in Writes /\ WriteOf(p, n).page = p
                                     /\ WriteOf(p, n).node = n
    /\ \A p \in Pages : RootIs(p) \in Writes /\ RootIs(p).page = None /\ RootIs(p).root = p
    /\ \A p \in Pages : p # None /\ p \in Nat /\ p \in Child
  BY Numbers DEF Writes, WriteOf, RootIs, Pages, None, Child

LEMMA BlankFacts ==
    /\ BlankLeaf \in Leaves /\ BlankLeaf \in Nodes /\ Whole(BlankLeaf)
    /\ BlankInternal \in Internals /\ BlankInternal \in Nodes /\ Whole(BlankInternal)
    /\ BlankLeaf.entries = <<>> /\ BlankLeaf.next = None /\ IsLeaf(BlankLeaf)
  <1>1. BlankLeaf \in Leaves
    BY Numbers DEF BlankLeaf, Leaf, Leaves, Child, None
  <1>2. BlankInternal \in Internals
    BY DEF BlankInternal, Internal, Internals
  <1>3. Whole(BlankLeaf) /\ Whole(BlankInternal)
    BY DEF Whole, BlankLeaf, BlankInternal, Leaf, Internal, IsLeaf
  <1>4. BlankLeaf.entries = <<>> /\ BlankLeaf.next = None /\ IsLeaf(BlankLeaf)
    BY DEF BlankLeaf, Leaf, IsLeaf
  <1> QED  BY <1>1, <1>2, <1>3, <1>4 DEF Nodes

LEMMA ReadableFacts ==
    ASSUME IInv
    PROVE  Readable(cache) /\ Readable(file)
  BY TypeFacts DEF IInv, Sound, Readable, Nodes

LEMMA WorkFacts ==
    ASSUME work \in Seq(Writes)
    PROVE  /\ Len(work) \in Nat /\ DOMAIN work = 1..Len(work)
           /\ work # <<>> => /\ Len(work) > 0 /\ Head(work) = work[1] /\ work[1] \in Writes
                             /\ Tail(work) \in Seq(Writes) /\ Len(Tail(work)) = Len(work) - 1
                             /\ \A i \in 1..(Len(work) - 1) : Tail(work)[i] = work[i + 1]
           /\ \A i \in DOMAIN work : work[i] \in Writes
           /\ Len(work) > 0 => work # <<>>
  <1>1. Len(work) \in Nat /\ DOMAIN work = 1..Len(work)
        /\ \A i \in DOMAIN work : work[i] \in Writes
    BY LenProperties, ElementOfSeq
  <1>2. ASSUME work # <<>>
        PROVE  /\ Len(work) > 0 /\ Head(work) = work[1] /\ work[1] \in Writes
               /\ Tail(work) \in Seq(Writes) /\ Len(Tail(work)) = Len(work) - 1
               /\ \A i \in 1..(Len(work) - 1) : Tail(work)[i] = work[i + 1]
    <2>1. Len(work) \in Nat \ {0}
      BY <1>2, EmptySeq
    <2>2. /\ Tail(work) \in Seq(Writes) /\ Len(Tail(work)) = Len(work) - 1
          /\ \A i \in 1..Len(Tail(work)) : Tail(work)[i] = work[i + 1]
      BY <1>2, HeadTailProperties
    <2>3. 1 \in DOMAIN work
      BY <1>1, <2>1
    <2> QED  BY <1>1, <2>1, <2>2, <2>3
  <1>3. Len(work) > 0 => work # <<>>
    BY EmptySeq
  <1> QED  BY <1>1, <1>2, <1>3

-----------------------------------------------------------------------------
(* Starting, crashing and what goes wrong.                                 *)

LEMMA InitInv == Init => IInv
  <1> SUFFICES ASSUME Init PROVE IInv
    OBVIOUS
  <1> USE DEF Init, NewDatabase
  <1>2. cache \in [Pages -> Nodes] /\ file \in [Pages -> Nodes]
    BY BlankFacts
  <1>3. TypeOK
    <2>1. {cache, file} \subseteq [Pages -> Leaves \cup Internals]
      BY <1>2 DEF Nodes
    <2>2. op.key \in Keys \cup {None} /\ op.val \in Values \cup {NoValue}
      BY DEF Entry
    <2>3. root \in Child /\ count \in 1..(MaxPages + 1)
          /\ header \in [root : Child, count : 1..(MaxPages + 1)] /\ faults \in 0..MaxFaults
      BY Numbers DEF Child, None
    <2>4. work \in Seq([page : Pages, node : Leaves \cup Internals]
                       \cup [page : {None}, root : Pages])
      OBVIOUS
    <2>5. allowed \in [Keys -> SUBSET (Values \cup {NoValue})]
      OBVIOUS
    <2>6. pc \in {"down", "idle", "busy"} /\ {began, cutShort} \subseteq BOOLEAN /\ up = NoUp
      OBVIOUS
    <2> QED  BY <2>1, <2>2, <2>3, <2>4, <2>5, <2>6 DEF TypeOK
  <1>4. Resting
    BY DEF Resting
  <1>5. Headed
    BY DEF Headed
  <1>6. Pending
    BY DEF Pending, Climbs
  <1>7. Sound
    BY BlankFacts DEF Sound
  <1>8. Shaped
    BY DEF Shaped
  <1> QED  BY <1>3, <1>4, <1>5, <1>6, <1>7, <1>8 DEF IInv

(* The shape of a new tree, the leaf p alone.                              *)
Sapling(p) ==
    [pages |-> {p}, height |-> [s \in Pages |-> 0],
     span |-> [s \in Pages |-> Keys], rank |-> [s \in Pages |-> 1], leaves |-> 1]

LEMMA SaplingOK ==
    ASSUME NEW pgs, pgs[1] = BlankLeaf, NEW may, \A k \in Keys : NoValue \in may[k]
    PROVE  Good(Sapling(1), 1, 1) /\ Tree(pgs, Sapling(1), may, None)
  <1> DEFINE w == Sapling(1)
  <1>1. 1 \in Pages
    BY Numbers DEF Pages
  <1>2. /\ w.pages = {1} /\ w.height[1] = 0 /\ w.span[1] = Keys /\ w.rank[1] = 1 /\ w.leaves = 1
    BY <1>1 DEF Sapling
  <1>3. w \in Shapes
    BY <1>1 DEF Sapling, Shapes
  <1> HIDE DEF w
  <1>4. LeavesOf(w) = {1}
    BY <1>2 DEF LeavesOf
  <1>5. Rooted(w, 1, 1)
    BY <1>2 DEF Rooted
  <1>6. Apart(w)
    BY <1>2, Numbers DEF Apart
  <1>7. InOrder(w)
    BY <1>2, <1>4 DEF InOrder
  <1>8. Good(w, 1, 1)
    BY <1>3, <1>5, <1>6, <1>7 DEF Good
  <1>9. EntriesOK(<<>>, Keys, may)
    BY DEF EntriesOK
  <1>10. NodeOK(pgs[1], 1, w, may)
    BY <1>2, <1>9, BlankFacts DEF NodeOK, LeafOK, LinkOK
  <1>11. SizeOK(pgs[1], Order)
    BY BlankFacts, Numbers DEF SizeOK
  <1>12. Tree(pgs, w, may, None)
    BY <1>2, <1>10, <1>11 DEF Tree, None
  <1> QED  BY <1>8, <1>12 DEF w

LEMMA OpenInv ==
    ASSUME IInv, Open
    PROVE  IInv'
  <1>1. /\ cache \in [Pages -> Nodes] /\ file \in [Pages -> Nodes]
        /\ header \in [root : Child, count : 1..(MaxPages + 1)]
        /\ MaxPages \in Nat /\ MaxPages > 1
    BY TypeFacts, Numbers DEF IInv
  <1>2. /\ pc = "down" /\ work = <<>> /\ up = NoUp /\ ~began /\ pc' = "idle"
        /\ cache' = file' /\ root' = header'.root /\ count' = header'.count
        /\ UNCHANGED <<op, work, up, began, faults, allowed, cutShort>>
    BY DEF Open, IInv, Resting
  <1>3. /\ file' \in [Pages -> Nodes] /\ \A p \in Pages : Whole(file'[p])
        /\ root' \in Pages /\ count' \in 1..(MaxPages + 1)
        /\ header' \in [root : Child, count : 1..(MaxPages + 1)]
        /\ header' = [root |-> root', count |-> count']
    <2>1. CASE header.root = None
      <3>1. header.count = 1
        BY <2>1 DEF IInv, Headed
      <3>2. file' = [file EXCEPT ![1] = BlankLeaf] /\ header' = [root |-> 1, count |-> 2]
        BY <2>1, <3>1 DEF Open
      <3>3. 1 \in Pages /\ 1 \in Child /\ 2 \in 1..(MaxPages + 1)
        BY <1>1 DEF Pages, Child
      <3>4. file' \in [Pages -> Nodes] /\ \A p \in Pages : Whole(file'[p])
        BY <1>1, <3>2, BlankFacts DEF IInv, Sound
      <3> QED  BY <1>2, <3>2, <3>3, <3>4
    <2>2. CASE header.root # None
      <3>1. file' = file /\ header' = header
        BY <2>2 DEF Open
      <3>2. header.root \in Pages
        BY <1>1, <2>2 DEF Pages, Child, None
      <3> QED  BY <1>1, <1>2, <3>1, <3>2 DEF IInv, Sound
    <2> QED  BY <2>1, <2>2
  <1>4. TypeOK'
    <2>1. {cache, file}' \subseteq [Pages -> Leaves \cup Internals]
      BY <1>2, <1>3 DEF Nodes
    <2>2. root' \in Child
      BY <1>3, WriteFacts
    <2> QED  BY <1>2, <1>3, <2>1, <2>2 DEF IInv, TypeOK
  <1>5. Resting'
    BY <1>2, <1>3 DEF IInv, Resting
  <1>6. Headed'
    BY <1>2, <1>3, WriteFacts DEF Headed
  <1>7. Pending'
    BY <1>2 DEF Pending, Climbs
  <1>8. Sound'
    BY <1>2, <1>3 DEF Sound
  <1>9. ASSUME ~cutShort PROVE Standing'
    <2>1. CASE header.root = None
      <3>1. header.count = 1 /\ \A k \in Keys : NoValue \in allowed[k]
        BY <2>1 DEF IInv, Headed
      <3>2. file' = [file EXCEPT ![1] = BlankLeaf] /\ header' = [root |-> 1, count |-> 2]
        BY <2>1, <3>1 DEF Open
      <3>3. file'[1] = BlankLeaf /\ root' = 1 /\ count' - 1 = 1
        BY <1>1, <1>2, <3>2 DEF Pages
      <3>4. /\ Good(Sapling(1), root', count' - 1) /\ Tree(file', Sapling(1), allowed', None)
            /\ Tree(cache', Sapling(1), allowed', None)
        BY <1>2, <3>1, <3>3, SaplingOK
      <3>5. StandingAs(Sapling(1))'
        BY <1>2, <3>4 DEF StandingAs
      <3> QED  BY <3>4, <3>5 DEF Standing, Good
    <2>2. CASE header.root # None
      <3>1. OnDisk
        BY <1>2, <1>9, <2>2 DEF IInv, Shaped
      <3>2. PICK w \in Shapes : OnDiskAs(w)
        BY <3>1 DEF OnDisk
      <3>3. file' = file /\ header' = header
        BY <2>2 DEF Open
      <3>4. StandingAs(w)'
        BY <1>2, <3>2, <3>3 DEF OnDiskAs, StandingAs
      <3> QED  BY <3>4 DEF Standing
    <2> QED  BY <2>1, <2>2
  <1>10. Shaped'
    BY <1>2, <1>9 DEF Shaped
  <1> QED  BY <1>4, <1>5, <1>6, <1>7, <1>8, <1>10 DEF IInv

LEMMA CrashInv ==
    ASSUME IInv, Crash
    PROVE  IInv'
  <1>1. /\ pc # "down" /\ pc' = "down" /\ cutShort' = (cutShort \/ began)
        /\ cache' = file /\ root' = None /\ count' = 1
        /\ UNCHANGED <<file, header, allowed>>
        /\ work' = <<>> /\ up' = NoUp /\ began' = FALSE /\ op' = Entry(None, NoValue)
        /\ faults < MaxFaults /\ faults' = faults + 1
    BY DEF Crash, Rest, Fault
  <1>2. header.root # None
    BY <1>1 DEF IInv, Headed
  <1>3. TypeOK'
    <2>1. faults' \in 0..MaxFaults
      BY <1>1, Numbers DEF IInv, TypeOK
    <2>2. /\ op'.key \in Keys \cup {None} /\ op'.val \in Values \cup {NoValue}
          /\ work' \in Seq([page : Pages, node : Leaves \cup Internals]
                           \cup [page : {None}, root : Pages])
      BY <1>1 DEF Entry
    <2>3. root' \in Child /\ count' \in 1..(MaxPages + 1)
      BY <1>1, Numbers DEF Child, None
    <2>4. cutShort' \in BOOLEAN /\ began' \in BOOLEAN
      BY <1>1 DEF IInv, TypeOK
    <2> QED  BY <1>1, <2>1, <2>2, <2>3, <2>4 DEF IInv, TypeOK
  <1>4. Resting'
    BY <1>1 DEF Resting
  <1>5. Headed'
    BY <1>1, <1>2 DEF Headed
  <1>6. Pending'
    BY <1>1 DEF Pending, Climbs
  <1>7. Sound'
    BY <1>1 DEF IInv, Sound
  <1>8. ASSUME ~cutShort' PROVE OnDisk'
    <2>1. ~cutShort /\ ~began
      BY <1>1, <1>8 DEF IInv, TypeOK
    <2>2. Standing
      BY <1>1, <2>1 DEF IInv, Shaped, TypeOK
    <2>3. PICK w \in Shapes : StandingAs(w)
      BY <2>2 DEF Standing
    <2>4. header.root = root /\ header.count = count
      BY <1>1, <2>1 DEF IInv, Headed
    <2>5. OnDiskAs(w)'
      BY <1>1, <2>3, <2>4 DEF StandingAs, OnDiskAs
    <2> QED  BY <2>5 DEF OnDisk
  <1>9. Shaped'
    BY <1>1, <1>8 DEF Shaped
  <1> QED  BY <1>3, <1>4, <1>5, <1>6, <1>7, <1>9 DEF IInv

LEMMA EvictInv ==
    ASSUME IInv, NEW p \in Pages, Evict(p)
    PROVE  IInv'
  <1>1. /\ pc = "idle" /\ cache' = [cache EXCEPT ![p] = file[p]]
        /\ UNCHANGED <<pc, op, work, up, began, root, count, file, header, faults,
                       allowed, cutShort>>
        /\ work = <<>> /\ up = NoUp
    BY DEF Evict, IInv, Resting
  <1>2. cache \in [Pages -> Nodes] /\ file \in [Pages -> Nodes]
    BY TypeFacts DEF IInv
  <1>3. cache' \in [Pages -> Nodes]
        /\ \A s \in Pages : cache'[s] = IF s = p THEN file[s] ELSE cache[s]
    BY <1>1, <1>2
  <1>4. TypeOK'
    <2>1. {cache, file}' \subseteq [Pages -> Leaves \cup Internals]
      BY <1>1, <1>2, <1>3 DEF Nodes
    <2> QED  BY <1>1, <2>1 DEF IInv, TypeOK
  <1>5. Resting'
    BY <1>1 DEF IInv, Resting
  <1>6. Headed' /\ Pending'
    BY <1>1 DEF IInv, Headed, Pending, Climbs
  <1>7. Sound'
    BY <1>1, <1>3 DEF IInv, Sound
  <1>8. ASSUME ~cutShort PROVE Standing'
    <2>1. PICK w \in Shapes : StandingAs(w)
      BY <1>1, <1>8 DEF IInv, Shaped, Standing
    <2>2. Tree(cache', w, allowed, None)
      <3>1. \A s \in w.pages : s \in Pages
        BY ShapeFacts
      <3> QED  BY <1>3, <2>1, <3>1 DEF StandingAs, Tree
    <2>3. StandingAs(w)'
      BY <1>1, <2>1, <2>2 DEF StandingAs
    <2> QED  BY <2>3 DEF Standing
  <1>9. Shaped'
    BY <1>1, <1>8 DEF Shaped
  <1> QED  BY <1>4, <1>5, <1>6, <1>7, <1>9 DEF IInv

(* The operation gives up before it has written a page: nothing changed.   *)
LEMMA ReturnTypes ==
    ASSUME Return
    PROVE  /\ pc' = "idle" /\ work' = <<>> /\ up' = NoUp /\ began' = FALSE
           /\ op'.key \in Keys \cup {None} /\ op'.val \in Values \cup {NoValue}
           /\ work' \in Seq([page : Pages, node : Leaves \cup Internals]
                            \cup [page : {None}, root : Pages])
  BY DEF Return, Rest, Entry

LEMMA PageFullInv ==
    ASSUME IInv, PageFull
    PROVE  IInv'
  <1>1. /\ pc = "busy" /\ Return /\ cutShort' = (cutShort \/ began)
        /\ UNCHANGED <<cache, file, root, count, header, faults, allowed>>
    BY DEF PageFull
  <1>2. /\ pc' = "idle" /\ work' = <<>> /\ up' = NoUp /\ began' = FALSE
        /\ op'.key \in Keys \cup {None} /\ op'.val \in Values \cup {NoValue}
        /\ work' \in Seq([page : Pages, node : Leaves \cup Internals]
                         \cup [page : {None}, root : Pages])
    BY <1>1, ReturnTypes
  <1>3. TypeOK'
    <2>1. {began, cutShort}' \subseteq BOOLEAN
      BY <1>1, <1>2 DEF IInv, TypeOK
    <2> QED  BY <1>1, <1>2, <2>1 DEF IInv, TypeOK
  <1>4. Resting'
    BY <1>1, <1>2 DEF IInv, Resting
  <1>5. Headed'
    BY <1>1, <1>2 DEF IInv, Headed
  <1>6. Pending' /\ Sound'
    BY <1>1, <1>2 DEF IInv, Pending, Climbs, Sound
  <1>7. ASSUME ~cutShort' PROVE Standing'
    <2>1. ~cutShort /\ ~began
      BY <1>1, <1>7 DEF IInv, TypeOK
    <2>2. PICK w \in Shapes : StandingAs(w)
      BY <1>1, <2>1 DEF IInv, Shaped, Standing
    <2>3. StandingAs(w)'
      BY <1>1, <1>2, <2>2 DEF StandingAs
    <2> QED  BY <2>3 DEF Standing
  <1>8. Shaped'
    BY <1>2, <1>7 DEF Shaped
  <1> QED  BY <1>3, <1>4, <1>5, <1>6, <1>8 DEF IInv

(* The value in progress is one that its key may have.                     *)
LEMMA MayFacts ==
    ASSUME IInv, pc = "busy"
    PROVE  /\ May \in [Keys -> SUBSET (Values \cup {NoValue})] /\ op.key \in Keys
           /\ May[op.key] = {op.val} /\ \A k \in Keys \ {op.key} : May[k] = allowed[k]
           /\ \A k \in Keys : May[k] \subseteq allowed[k]
  <1>1. /\ allowed \in [Keys -> SUBSET (Values \cup {NoValue})]
        /\ op.key \in Keys /\ op.val \in allowed[op.key]
    BY TypeFacts DEF IInv, Resting
  <1> QED  BY <1>1 DEF May

LEMMA WriteFailsInv ==
    ASSUME IInv, WriteFails
    PROVE  IInv'
  <1> DEFINE x == work[1]
  <1>1. /\ pc = "busy" /\ work # <<>> /\ Return /\ faults < MaxFaults /\ faults' = faults + 1
        /\ cutShort' = (cutShort \/ began \/ up # NoUp)
        /\ UNCHANGED <<file, count, header, allowed>>
    BY DEF WriteFails, Fault
  <1>2. /\ pc' = "idle" /\ work' = <<>> /\ up' = NoUp /\ began' = FALSE
        /\ op'.key \in Keys \cup {None} /\ op'.val \in Values \cup {NoValue}
        /\ work' \in Seq([page : Pages, node : Leaves \cup Internals]
                         \cup [page : {None}, root : Pages])
    BY <1>1, ReturnTypes
  <1>3. /\ cache \in [Pages -> Nodes] /\ file \in [Pages -> Nodes] /\ work \in Seq(Writes)
        /\ root \in Pages /\ cutShort \in BOOLEAN /\ began \in BOOLEAN
    BY <1>1, TypeFacts DEF IInv, Resting, TypeOK
  <1>4. Head(work) = x /\ x \in Writes /\ 1 \in DOMAIN work
    BY <1>1, <1>3, WorkFacts
  <1> HIDE DEF x
  <1>5. \/ /\ x.page # None /\ x.page \in Pages /\ x.node \in Nodes
           /\ cache' = [cache EXCEPT ![x.page] = x.node] /\ root' = root
        \/ x.page = None /\ x.root \in Pages /\ root' = x.root /\ cache' = cache
    BY <1>4, WriteFacts DEF WriteFails
  <1>6. root' \in Pages /\ cache' \in [Pages -> Nodes]
    BY <1>3, <1>5
  <1>7. TypeOK'
    <2>1. {began, cutShort}' \subseteq BOOLEAN
      BY <1>1, <1>2, <1>3
    <2>2. faults' \in 0..MaxFaults
      BY <1>1, Numbers DEF IInv, TypeOK
    <2>3. {cache, file}' \subseteq [Pages -> Leaves \cup Internals] /\ root' \in Child
      BY <1>1, <1>3, <1>6, WriteFacts DEF Nodes
    <2> QED  BY <1>1, <1>2, <2>1, <2>2, <2>3 DEF IInv, TypeOK
  <1>8. Resting'
    BY <1>1, <1>2, <1>6 DEF IInv, Resting
  <1>9. Pending'
    BY <1>2 DEF Pending, Climbs
  <1>10. Sound'
    <2>1. x.page # None => Whole(x.node)
      BY <1>4 DEF IInv, Sound, x
    <2>2. \A p \in Pages : Whole(cache[p]) /\ Whole(file[p])
      BY DEF IInv, Sound
    <2>3. \A p \in Pages : Whole(cache'[p])
      BY <1>3, <1>5, <2>1, <2>2
    <2> QED  BY <1>1, <1>2, <2>2, <2>3 DEF Sound
  <1>11. ASSUME ~cutShort'
         PROVE  ~cutShort /\ ~began /\ up = NoUp /\ x.page # None
    <2>1. ~cutShort /\ ~began /\ up = NoUp
      BY <1>1, <1>3, <1>11
    <2>2. x.page # None
      BY <1>1, <2>1 DEF IInv, Pending, x
    <2> QED  BY <2>1, <2>2
  <1>12. Headed'
    <2>1. header.root # None
      BY <1>1 DEF IInv, Headed
    <2>2. ~cutShort' => header = [root |-> root, count |-> count] /\ root' = root
      BY <1>1, <1>5, <1>11 DEF IInv, Headed
    <2> QED  BY <1>1, <1>2, <2>1, <2>2 DEF Headed
  <1>13. ASSUME ~cutShort' PROVE Standing'
    <2>1. PICK w \in Shapes : StandingAs(w)
      BY <1>1, <1>11, <1>13 DEF IInv, Shaped, Standing
    <2>2. /\ Good(w, root, count - 1) /\ OneLeaf(w)
          /\ Tree(cache, w, allowed, None) /\ Tree(file, w, allowed, None)
      BY <1>1, <1>11, <1>13, <2>1 DEF StandingAs
    <2>3. /\ x.page \in LeavesOf(w) /\ op.key \in w.span[x.page]
          /\ NodeOK(x.node, x.page, w, May) /\ SizeOK(x.node, Order)
      BY <2>2 DEF OneLeaf, x
    <2>4. w.span[x.page] \in SUBSET Keys /\ x.page \in w.pages /\ w.pages \subseteq Pages
      BY <2>3, ShapeFacts DEF LeavesOf
    <2>5. NodeOK(x.node, x.page, w, allowed)
      <3>1. \A k \in w.span[x.page] : May[k] \subseteq allowed[k]
        BY <1>1, <2>4, MayFacts
      <3> QED  BY <2>3, <3>1, NodeWithMore
    <2>6. /\ cache' = [cache EXCEPT ![x.page] = x.node] /\ root' = root
      BY <1>5, <1>11, <1>13
    <2>7. cache'[x.page] = x.node /\ \A p \in w.pages \ {x.page} : cache'[p] = cache[p]
      BY <1>3, <2>4, <2>6
    <2>8. Tree(cache', w, allowed, None)
      BY <2>2, <2>3, <2>5, <2>7, TreeWithLeaf
    <2>9. StandingAs(w)'
      BY <1>1, <1>2, <2>2, <2>6, <2>8 DEF StandingAs
    <2> QED  BY <2>9 DEF Standing
  <1>14. Shaped'
    BY <1>2, <1>13 DEF Shaped
  <1> QED  BY <1>7, <1>8, <1>9, <1>10, <1>12, <1>14 DEF IInv

-----------------------------------------------------------------------------
(* Put and Delete, as far as deciding what to write.                       *)

(* Even in a tree that lost keys, an insertion gives a sequence of entries.*)
LEMMA InsertedIsTyped ==
    ASSUME NEW n \in Leaves, NEW k \in Keys, NEW v \in Values
    PROVE  /\ Inserted(n, k, v) \in Seq(Entries)
           /\ Len(Inserted(n, k, v)) = Len(n.entries) + 1
  <1> DEFINE s == n.entries
             T == {i \in DOMAIN n.entries : k < n.entries[i].key}
  <1>1. s \in Seq(Entries) /\ Len(s) \in Nat /\ DOMAIN s = 1..Len(s)
    BY LeafFacts
  <1>2. T \in SUBSET (1..Len(s))
    BY <1>1
  <1>3. Inserted(n, k, v) = InsertAt(s, FirstOf(T, s), Entry(k, v))
    BY DEF Inserted
  <1> HIDE DEF T, s
  <1>4. FirstOf(T, s) \in 1..(Len(s) + 1)
    <2>1. CASE T = {}
      BY <1>1, <2>1 DEF FirstOf
    <2>2. CASE T # {}
      <3>1. T \in SUBSET Nat
        BY <1>2
      <3>2. Min(T) \in T
        BY <2>2, <3>1, MinOf
      <3>3. FirstOf(T, s) = Min(T)
        BY <2>2 DEF FirstOf
      <3>4. FirstOf(T, s) \in 1..Len(s)
        BY <1>2, <3>2, <3>3
      <3> QED  BY <1>1, <3>4
    <2> QED  BY <2>1, <2>2
  <1>5. Entry(k, v) \in Entries
    BY DEF Entry, Entries
  <1>6. /\ InsertAt(s, FirstOf(T, s), Entry(k, v)) \in Seq(Entries)
        /\ Len(InsertAt(s, FirstOf(T, s), Entry(k, v))) = Len(s) + 1
    <2> DEFINE a == FirstOf(T, s)
               e == Entry(k, v)
    <2>1. s \in Seq(Entries) /\ a \in 1..(Len(s) + 1) /\ e \in Entries
      BY <1>1, <1>4, <1>5
    <2> HIDE DEF a, e
    <2>2. HasAt(InsertAt(s, a, e), s, a, e, Entries)
      BY <2>1, InsertAtProperties
    <2> QED  BY <2>2 DEF HasAt, a, e
  <1> QED  BY <1>3, <1>6 DEF s

(* What every start of an operation has in common.                         *)
LEMMA StartFacts ==
    ASSUME IInv, NEW k \in Keys, NEW v \in Values \cup {NoValue}, Start(k, v),
           IsLeaf(LeafFor(k))
    PROVE  /\ pc = "idle" /\ pc' = "busy" /\ op' = Entry(k, v) /\ op'.key = k /\ op'.val = v
           /\ began' = FALSE /\ root' = root /\ faults' = faults /\ cutShort' = cutShort
           /\ root \in Pages /\ up = NoUp /\ work = <<>> /\ header.root # None
           /\ cache \in [Pages -> Nodes] /\ file \in [Pages -> Nodes]
           /\ allowed' \in [Keys -> SUBSET (Values \cup {NoValue})]
           /\ \A l \in Keys : allowed[l] \subseteq allowed'[l]
           /\ v \in allowed'[k] /\ May' \in [Keys -> SUBSET (Values \cup {NoValue})]
           /\ May'[k] = {v} /\ \A l \in Keys \ {k} : May'[l] = allowed[l]
           /\ LeafPage(k) \in Pages /\ LeafFor(k) \in Leaves
           /\ Trail(cache, root, k) \in Seq(Pages) /\ Trail(cache, root, k) # <<>>
  <1>1. /\ pc = "idle" /\ pc' = "busy" /\ op' = Entry(k, v) /\ began' = FALSE
        /\ root' = root /\ faults' = faults /\ cutShort' = cutShort
        /\ allowed' = [allowed EXCEPT ![k] = @ \cup {v}]
    BY DEF Start
  <1>2. root \in Pages /\ up = NoUp /\ work = <<>> /\ header.root # None
    BY <1>1 DEF IInv, Resting, Headed
  <1>3. /\ cache \in [Pages -> Nodes] /\ file \in [Pages -> Nodes]
        /\ allowed \in [Keys -> SUBSET (Values \cup {NoValue})]
    BY TypeFacts DEF IInv
  <1>4. /\ allowed' \in [Keys -> SUBSET (Values \cup {NoValue})]
        /\ \A l \in Keys : allowed[l] \subseteq allowed'[l]
        /\ v \in allowed'[k]
        /\ \A l \in Keys \ {k} : allowed'[l] = allowed[l]
    BY <1>1, <1>3
  <1>5. op'.key = k /\ op'.val = v
    BY <1>1 DEF Entry
  <1>6. May' = [allowed' EXCEPT ![k] = {v}]
    BY <1>5 DEF May
  <1>7. /\ May' \in [Keys -> SUBSET (Values \cup {NoValue})]
        /\ May'[k] = {v} /\ \A l \in Keys \ {k} : May'[l] = allowed[l]
    BY <1>4, <1>6
  <1>8. /\ Trail(cache, root, k) \in Seq(Pages) /\ Trail(cache, root, k) # <<>>
        /\ LeafPage(k) \in Pages
    BY <1>2, ReadableFacts, TrailIsTyped DEF LeafPage
  <1>9. LeafFor(k) \in Leaves
    BY <1>3, <1>8, InternalFacts DEF LeafFor, Nodes
  <1> QED  BY <1>1, <1>2, <1>3, <1>4, <1>5, <1>7, <1>8, <1>9

(* New entries keep a leaf of the key k in order, with the value v.        *)
Keeps(old, entries, k, v) ==
    \A S \in SUBSET Keys :
        \A may, more \in [Keys -> SUBSET (Values \cup {NoValue})] :
            /\ k \in S /\ EntriesOK(old, S, may)
            /\ more[k] = {v} /\ \A l \in Keys \ {k} : more[l] = may[l]
            => EntriesOK(entries, S, more)

LEMMA WritesOneLeaf ==
    ASSUME IInv, NEW k \in Keys, NEW v \in Values \cup {NoValue}, Start(k, v),
           IsLeaf(LeafFor(k)), NEW entries \in Seq(Entries), WriteEntries(k, entries),
           Len(LeafFor(k).entries) <= Order => Len(entries) <= Order,
           Keeps(LeafFor(k).entries, entries, k, v)
    PROVE  IInv'
  <1> DEFINE p == LeafPage(k)
             n == LeafFor(k)
             m == [n EXCEPT !.entries = entries]
  <1>1. /\ pc = "idle" /\ pc' = "busy" /\ op' = Entry(k, v) /\ op'.key = k /\ op'.val = v
        /\ began' = FALSE /\ root' = root /\ faults' = faults /\ cutShort' = cutShort
        /\ root \in Pages /\ header.root # None
        /\ allowed' \in [Keys -> SUBSET (Values \cup {NoValue})]
        /\ \A l \in Keys : allowed[l] \subseteq allowed'[l]
        /\ v \in allowed'[k] /\ May' \in [Keys -> SUBSET (Values \cup {NoValue})]
        /\ May'[k] = {v} /\ \A l \in Keys \ {k} : May'[l] = allowed[l]
        /\ p \in Pages /\ n \in Leaves
    BY StartFacts
  <1>2. /\ work' = <<WriteOf(p, m)>> /\ up' = NoUp
        /\ UNCHANGED <<cache, file, count, header>>
    BY DEF WriteEntries
  <1>3. m \in Leaves /\ m.entries = entries /\ m.next = n.next /\ IsLeaf(m)
    BY <1>1, LeafFacts DEF Leaves, IsLeaf, Entries
  <1> HIDE DEF p, n, m
  <1>4. /\ Len(work') = 1 /\ work' # <<>> /\ DOMAIN work' = {1}
        /\ work'[1].page = p /\ work'[1].node = m /\ work'[1] \in Writes /\ p # None
        /\ work' \in Seq(Writes)
    <2>1. WriteOf(p, m) \in Writes /\ WriteOf(p, m).page = p /\ WriteOf(p, m).node = m
          /\ p # None
      BY <1>1, <1>3, WriteFacts DEF Nodes
    <2> DEFINE x == WriteOf(p, m)
    <2> HIDE DEF x
    <2>2. work' = <<x>>
      BY <1>2 DEF x
    <2>3. x \in Writes /\ x.page = p /\ x.node = m
      BY <2>1 DEF x
    <2> QED  BY <2>1, <2>2, <2>3
  <1>5. TypeOK'
    <2>1. work' \in Seq([page : Pages, node : Leaves \cup Internals]
                        \cup [page : {None}, root : Pages])
      BY <1>4 DEF Writes, Nodes
    <2> QED  BY <1>1, <1>2, <2>1 DEF IInv, TypeOK
  <1>6. Resting'
    BY <1>1, <1>2, <1>4 DEF IInv, Resting
  <1>7. Headed'
    BY <1>1, <1>2 DEF IInv, Headed
  <1>8. Pending'
    BY <1>2, <1>4 DEF Pending, Climbs
  <1>9. Sound'
    BY <1>2, <1>3, <1>4 DEF IInv, Sound, Whole
  <1>10. ASSUME ~cutShort PROVE Standing'
    <2>1. PICK w \in Shapes : StandingAs(w)
      BY <1>1, <1>10 DEF IInv, Shaped, Standing
    <2>2. /\ Good(w, root, count - 1)
          /\ Tree(cache, w, allowed, None) /\ Tree(file, w, allowed, None)
      BY <2>1 DEF StandingAs
    <2>3. p \in LeavesOf(w) /\ k \in w.span[p]
      <3>1. count - 1 \in Nat /\ count - 1 <= MaxPages
        BY TypeFacts, Numbers DEF IInv
      <3>2. Readable(cache)
        BY ReadableFacts
      <3> DEFINE used == count - 1
      <3> HIDE DEF used
      <3>3. used \in Nat /\ used <= MaxPages /\ Good(w, root, used)
        BY <2>2, <3>1 DEF used
      <3> QED  BY <2>2, <3>2, <3>3, TrailOK DEF LeafPage, p
    <2>4. p \in w.pages /\ w.height[p] = 0 /\ w.span[p] \in SUBSET Keys
      BY <2>3, ShapeFacts DEF LeavesOf
    <2>5. EntriesOK(n.entries, w.span[p], allowed) /\ LinkOK(n, p, w) /\ SizeOK(n, Order)
      <3>1. n = cache[p] /\ p # None
        BY <1>4 DEF n, p, LeafFor
      <3>2. NodeOK(n, p, w, allowed) /\ SizeOK(n, Order)
        BY <2>2, <2>4, <3>1 DEF Tree
      <3> QED  BY <2>4, <3>2 DEF NodeOK, LeafOK
    <2>6. EntriesOK(entries, w.span[p], May')
      <3>1. Keeps(n.entries, entries, k, v)
        BY DEF n
      <3>2. allowed \in [Keys -> SUBSET (Values \cup {NoValue})]
        BY TypeFacts DEF IInv
      <3> QED  BY <1>1, <2>3, <2>4, <2>5, <3>1, <3>2 DEF Keeps
    <2>7. NodeOK(m, p, w, May') /\ SizeOK(m, Order)
      <3>1. LinkOK(m, p, w)
        BY <1>3, <2>5 DEF LinkOK
      <3>2. Len(entries) <= Order
        BY <1>1, <2>5, LeafFacts DEF SizeOK, n
      <3> QED  BY <1>3, <2>4, <2>6, <3>1, <3>2 DEF NodeOK, LeafOK, SizeOK
    <2>8. OneLeaf(w)'
      BY <1>1, <1>4, <2>3, <2>7 DEF OneLeaf
    <2>9. Tree(cache, w, allowed', None) /\ Tree(file, w, allowed', None)
      BY <1>1, <2>2, TreeWithMore
    <2>10. StandingAs(w)'
      BY <1>1, <1>2, <2>2, <2>8, <2>9 DEF StandingAs
    <2> QED  BY <2>10 DEF Standing
  <1>11. Shaped'
    BY <1>1, <1>2, <1>10 DEF Shaped, Climbs
  <1> QED  BY <1>5, <1>6, <1>7, <1>8, <1>9, <1>11 DEF IInv

LEMMA UpdateInv ==
    ASSUME IInv, NEW k \in Keys, NEW v \in Values, Update(k, v)
    PROVE  IInv'
  <1> DEFINE n == LeafFor(k)
             a == At(n, k)
             entries == [n.entries EXCEPT ![a].val = v]
  <1>1. Start(k, v) /\ IsLeaf(n) /\ HasKey(n, k) /\ WriteEntries(k, entries)
    BY DEF Update
  <1>2. v \in Values \cup {NoValue}
    OBVIOUS
  <1>3. n \in Leaves
    BY <1>1, <1>2, StartFacts
  <1>4. a \in DOMAIN n.entries /\ n.entries[a].key = k
    BY <1>1, AtIsThere
  <1> HIDE DEF n, a
  <1>5. entries \in Seq(Entries) /\ Len(entries) = Len(n.entries)
    <2>1. n.entries \in Seq(Entries)
      BY <1>3, LeafFacts
    <2>2. \A e \in Entries : [e EXCEPT !.val = v] \in Entries
      BY DEF Entries
    <2>3. n.entries[a] \in Entries
      BY <1>3, <1>4, LeafFacts
    <2>4. entries = [n.entries EXCEPT ![a] = [n.entries[a] EXCEPT !.val = v]]
      OBVIOUS
    <2>5. [n.entries[a] EXCEPT !.val = v] \in Entries
      BY <2>2, <2>3
    <2> HIDE DEF entries
    <2> QED  BY <1>4, <2>1, <2>4, <2>5, ExceptSeq
  <1>6. Keeps(n.entries, entries, k, v)
    <2>1. ASSUME NEW S \in SUBSET Keys, NEW may \in [Keys -> SUBSET (Values \cup {NoValue})],
                 NEW more \in [Keys -> SUBSET (Values \cup {NoValue})],
                 k \in S, EntriesOK(n.entries, S, may), more[k] = {v},
                 \A l \in Keys \ {k} : more[l] = may[l]
          PROVE  EntriesOK(entries, S, more)
      <3>1. v \in more[n.entries[a].key] /\ \A l \in S \ {n.entries[a].key} : more[l] = may[l]
        BY <1>4, <2>1
      <3> QED  BY <1>4, <2>1, <3>1, UpdatedOK
    <2> QED  BY <2>1 DEF Keeps
  <1> HIDE DEF entries
  <1>7. Len(n.entries) <= Order => Len(entries) <= Order
    BY <1>5
  <1> QED  BY <1>1, <1>2, <1>5, <1>6, <1>7, WritesOneLeaf DEF n

LEMMA DeleteInv ==
    ASSUME IInv, NEW k \in Keys, Delete(k)
    PROVE  IInv'
  <1> DEFINE n == LeafFor(k)
             a == At(n, k)
             entries == RemoveAt(n.entries, a)
  <1>1. Start(k, NoValue) /\ IsLeaf(n) /\ HasKey(n, k) /\ WriteEntries(k, entries)
    BY DEF Delete
  <1>2. NoValue \in Values \cup {NoValue}
    OBVIOUS
  <1>3. n \in Leaves
    BY <1>1, <1>2, StartFacts
  <1>4. a \in DOMAIN n.entries /\ n.entries[a].key = k
    BY <1>1, AtIsThere
  <1> HIDE DEF n, a
  <1>5. entries \in Seq(Entries) /\ Len(entries) = Len(n.entries) - 1 /\ Len(n.entries) \in Nat
    BY <1>3, <1>4, LeafFacts, RemoveAtProperties
  <1>6. Keeps(n.entries, entries, k, NoValue)
    <2>1. ASSUME NEW S \in SUBSET Keys, NEW may \in [Keys -> SUBSET (Values \cup {NoValue})],
                 NEW more \in [Keys -> SUBSET (Values \cup {NoValue})],
                 k \in S, EntriesOK(n.entries, S, may), more[k] = {NoValue},
                 \A l \in Keys \ {k} : more[l] = may[l]
          PROVE  EntriesOK(entries, S, more)
      <3>1. NoValue \in more[n.entries[a].key]
            /\ \A l \in S \ {n.entries[a].key} : more[l] = may[l]
        BY <1>4, <2>1
      <3> QED  BY <1>4, <2>1, <3>1, DeletedOK
    <2> QED  BY <2>1 DEF Keeps
  <1> HIDE DEF entries
  <1>7. Len(n.entries) <= Order => Len(entries) <= Order
    BY <1>5, Numbers
  <1> QED  BY <1>1, <1>2, <1>5, <1>6, <1>7, WritesOneLeaf DEF n

LEMMA InsertInv ==
    ASSUME IInv, NEW k \in Keys, NEW v \in Values, Insert(k, v)
    PROVE  IInv'
  <1> DEFINE n == LeafFor(k)
             entries == Inserted(n, k, v)
  <1>1. /\ Start(k, v) /\ IsLeaf(n) /\ ~HasKey(n, k) /\ Len(n.entries) < Order
        /\ WriteEntries(k, entries)
    BY DEF Insert
  <1>2. v \in Values \cup {NoValue}
    OBVIOUS
  <1>3. n \in Leaves
    BY <1>1, <1>2, StartFacts
  <1> HIDE DEF n
  <1>5. entries \in Seq(Entries) /\ Len(entries) = Len(n.entries) + 1 /\ Len(n.entries) \in Nat
    BY <1>3, LeafFacts, InsertedIsTyped
  <1>6. Keeps(n.entries, entries, k, v)
    <2>1. ASSUME NEW S \in SUBSET Keys, NEW may \in [Keys -> SUBSET (Values \cup {NoValue})],
                 NEW more \in [Keys -> SUBSET (Values \cup {NoValue})],
                 k \in S, EntriesOK(n.entries, S, may), more[k] = {v},
                 \A l \in Keys \ {k} : more[l] = may[l]
          PROVE  EntriesOK(entries, S, more)
      <3>1. v \in more[k] /\ \A l \in S \ {k} : more[l] = may[l]
        BY <2>1
      <3> QED  BY <1>1, <2>1, <3>1, InsertedOK
    <2> QED  BY <2>1 DEF Keeps
  <1> HIDE DEF entries
  <1>7. Len(n.entries) <= Order => Len(entries) <= Order
    BY <1>1, <1>5, Numbers
  <1> QED  BY <1>1, <1>2, <1>5, <1>6, <1>7, WritesOneLeaf DEF n

-----------------------------------------------------------------------------
(* The writes. What the pages are going to be does not change when one of  *)
(* the writes is done.                                                     *)

LEMMA AdoptedIsAdoption ==
    /\ Adopted = Adoption(cache[Last(up.path)], up.sep, up.right)
    /\ Adopted' = Adoption(cache'[Last(up'.path)], up'.sep, up'.right)
  BY DEF Adopted, Adoption

LEMMA WorkIsShort ==
    ASSUME IInv, work # <<>>
    PROVE  /\ work \in Seq(Writes) /\ Len(work) \in {1, 2} /\ Head(work) = work[1]
           /\ DOMAIN work = 1..Len(work) /\ \A i \in 1..Len(work) : work[i] \in Writes
           /\ Len(work) = 1 => Tail(work) = <<>>
           /\ Len(work) = 2 => Tail(work) = <<work[2]>> /\ work[1].page # work[2].page
                               /\ work[1].page \in Pages
  <1>1. work \in Seq(Writes) /\ Len(work) <= 2
    BY TypeFacts DEF IInv, Pending
  <1>2. /\ Len(work) \in Nat /\ DOMAIN work = 1..Len(work) /\ Len(work) > 0 /\ Head(work) = work[1]
        /\ Tail(work) \in Seq(Writes) /\ Len(Tail(work)) = Len(work) - 1
        /\ \A i \in 1..(Len(work) - 1) : Tail(work)[i] = work[i + 1]
        /\ \A i \in DOMAIN work : work[i] \in Writes
    BY <1>1, WorkFacts
  <1>3. Len(work) = 1 => Tail(work) = <<>>
    <2>1. Len(work) = 1 => Len(Tail(work)) = 0
      BY <1>2
    <2> QED  BY <1>2, <2>1, EmptySeq
  <1>4. Len(work) = 2 => Tail(work) = <<work[2]>>
    <2> DEFINE t == Tail(work)
    <2>1. t \in Seq(Writes)
      BY <1>2
    <2>2. ASSUME Len(work) = 2 PROVE Len(t) = 1 /\ t[1] = work[2]
      <3>1. Len(t) = 1 /\ 1 \in 1..(Len(work) - 1) /\ 1 + 1 = 2
        BY <1>2, <2>2
      <3>2. t[1] = work[1 + 1]
        BY <1>2, <3>1
      <3> QED  BY <3>1, <3>2
    <2> HIDE DEF t
    <2>3. Len(work) = 2 => t = <<work[2]>>
      BY <2>1, <2>2
    <2> QED  BY <2>3 DEF t
  <1>5. Len(work) = 2 => work[1].page # work[2].page /\ work[1].page \in Pages
    BY DEF IInv, Pending
  <1> QED  BY <1>1, <1>2, <1>3, <1>4, <1>5

LEMMA FutureIsKept ==
    ASSUME IInv, work # <<>>, work' = Tail(work), up' = up, count' = count,
           work[1].page # None,
           cache' = [cache EXCEPT ![work[1].page] = work[1].node],
           file' = [file EXCEPT ![work[1].page] = work[1].node]
    PROVE  Future(cache)' = Future(cache) /\ Future(file)' = Future(file)
  <1>1. /\ Len(work) \in {1, 2} /\ (Len(work) = 1 => work' = <<>>)
        /\ (Len(work) = 2 => work' = <<work[2]>> /\ work[1].page # work[2].page)
        /\ DOMAIN work = 1..Len(work)
    BY WorkIsShort
  <1>2. cache \in [Pages -> Nodes] /\ file \in [Pages -> Nodes]
    BY TypeFacts DEF IInv
  <1>3. (Climbs' <=> Climbs) /\ (Grows' <=> Grows) /\ Joint' = Joint
    BY DEF Climbs, Grows, Joint
  <1>4. Climbs => work[1].page # Joint
    <2>1. 1 \in DOMAIN work
      BY <1>1
    <2> QED  BY <2>1 DEF IInv, Pending
  <1>5. ASSUME Climbs PROVE Joined' = Joined
    <2>1. CASE Grows
      BY <1>3, <2>1 DEF Joined
    <2>2. CASE ~Grows
      <3>1. Joint = Last(up.path)
        BY <2>2 DEF Joint
      <3>2. cache'[Last(up.path)] = cache[Last(up.path)]
        BY <1>2, <1>4, <1>5, <3>1
      <3>3. Adopted' = Adopted
        BY <3>2, AdoptedIsAdoption
      <3> QED  BY <1>3, <2>2, <3>3 DEF Joined
    <2> QED  BY <2>1, <2>2
  <1>6. ASSUME NEW p \in Pages
        PROVE  Coming(cache, p)' = Coming(cache, p) /\ Coming(file, p)' = Coming(file, p)
    <2>1. CASE p = work[1].page
      <3>1. Coming(cache, p) = work[1].node /\ Coming(file, p) = work[1].node
        BY <2>1 DEF Coming
      <3>2. cache'[p] = work[1].node /\ file'[p] = work[1].node
        BY <1>2, <2>1
      <3>3. ~(work' # <<>> /\ work'[1].page = p) /\ ~(Len(work') = 2 /\ work'[2].page = p)
        BY <1>1, <2>1
      <3>4. ~(Climbs' /\ p = Joint')
        BY <1>3, <1>4, <2>1
      <3> QED  BY <3>1, <3>2, <3>3, <3>4 DEF Coming
    <2>2. CASE p # work[1].page
      <3>1. cache'[p] = cache[p] /\ file'[p] = file[p]
        BY <1>2, <2>2
      <3>2. CASE Len(work) = 1
        <4>1. work' = <<>> /\ Len(work') # 2 /\ Len(work) # 2
          BY <1>1, <3>2
        <4> QED  BY <1>3, <1>5, <2>2, <3>1, <4>1 DEF Coming
      <3>3. CASE Len(work) = 2
        <4>1. \A x : <<x>> # <<>> /\ <<x>>[1] = x /\ Len(<<x>>) # 2
          OBVIOUS
        <4>2. work' # <<>> /\ work'[1] = work[2] /\ Len(work') # 2
          BY <1>1, <3>3, <4>1
        <4> QED  BY <1>3, <1>5, <2>2, <3>1, <3>3, <4>2 DEF Coming
      <3> QED  BY <1>1, <3>2, <3>3
    <2> QED  BY <2>1, <2>2
  <1> QED  BY <1>6 DEF Future

(* When the operation returns, what its pages were going to be is there.   *)
LEMMA BecomesStanding ==
    ASSUME NEW w \in Shapes, BecomingAs(w), ~Climbs, pc' = "idle",
           root' = NextRoot, count' = count, allowed' = May,
           \A p \in Pages : cache'[p] = Future(cache)[p] /\ file'[p] = Future(file)[p]
    PROVE  StandingAs(w)'
  <1>1. Used = count - 1 /\ Wide = None
    BY DEF Grows, Used, Wide
  <1>2. /\ Good(w, NextRoot, Used)
        /\ Tree(Future(cache), w, May, None) /\ Tree(Future(file), w, May, None)
    BY <1>1 DEF BecomingAs
  <1>3. \A p \in w.pages : p \in Pages
    BY ShapeFacts
  <1>4. Tree(cache', w, allowed', None) /\ Tree(file', w, allowed', None)
    BY <1>2, <1>3, TreeOfSame
  <1>5. Good(w, root', count' - 1)
    BY <1>1, <1>2
  <1> QED  BY <1>4, <1>5 DEF StandingAs

LEMMA AcknowledgeFacts ==
    ASSUME Acknowledge
    PROVE  /\ pc' = "idle" /\ work' = <<>> /\ up' = NoUp /\ began' = FALSE
           /\ op'.key \in Keys \cup {None} /\ op'.val \in Values \cup {NoValue}
           /\ work' \in Seq([page : Pages, node : Leaves \cup Internals]
                            \cup [page : {None}, root : Pages])
           /\ allowed' = May
  BY ReturnTypes DEF Acknowledge, May

LEMMA SetRootPageInv ==
    ASSUME IInv, SetRootPage
    PROVE  IInv'
  <1>1. /\ pc = "busy" /\ work # <<>> /\ Head(work).page = None /\ root' = Head(work).root
        /\ header' = [root |-> root', count |-> count] /\ Proceed
        /\ UNCHANGED <<cache, file, count, faults, cutShort>>
    BY DEF SetRootPage
  <1>2. /\ Len(work) \in {1, 2} /\ Head(work) = work[1] /\ DOMAIN work = 1..Len(work)
        /\ work[1] \in Writes /\ (Len(work) = 2 => work[1].page \in Pages)
    BY <1>1, WorkIsShort
  <1>3. work[1].page = None /\ root' \in Pages /\ None \notin Pages /\ 1 \in DOMAIN work
    BY <1>1, <1>2, WriteFacts
  <1>4. Len(work) = 1 /\ ~Climbs /\ began /\ up = NoUp
    <2>1. Len(work) = 1 /\ began /\ (Climbs => work[1].page \in Pages)
      BY <1>1, <1>2, <1>3 DEF IInv, Pending
    <2> QED  BY <1>3, <2>1 DEF Climbs
  <1>5. Acknowledge
    BY <1>1, <1>4 DEF Proceed
  <1>6. /\ pc' = "idle" /\ work' = <<>> /\ up' = NoUp /\ began' = FALSE
        /\ op'.key \in Keys \cup {None} /\ op'.val \in Values \cup {NoValue}
        /\ work' \in Seq([page : Pages, node : Leaves \cup Internals]
                         \cup [page : {None}, root : Pages])
        /\ allowed' = May
    BY <1>5, AcknowledgeFacts
  <1>7. /\ May \in [Keys -> SUBSET (Values \cup {NoValue})]
        /\ count \in 1..(MaxPages + 1) /\ root' \in Child
    BY <1>1, <1>3, MayFacts, TypeFacts, WriteFacts DEF IInv
  <1>8. TypeOK'
    BY <1>1, <1>6, <1>7 DEF IInv, TypeOK
  <1>9. Resting'
    BY <1>1, <1>3, <1>6 DEF IInv, Resting
  <1>10. Headed'
    BY <1>1, <1>3, <1>6, WriteFacts DEF Headed
  <1>11. Pending' /\ Sound'
    BY <1>1, <1>6 DEF IInv, Pending, Climbs, Sound
  <1>12. ASSUME ~cutShort PROVE Standing'
    <2>1. PICK w \in Shapes : BecomingAs(w)
      BY <1>1, <1>4, <1>12 DEF IInv, Shaped, Becoming
    <2>2. NextRoot = root'
      BY <1>1, <1>2, <1>3, <1>4 DEF NextRoot, Grows
    <2>3. \A p \in Pages : cache'[p] = Future(cache)[p] /\ file'[p] = Future(file)[p]
      BY <1>1, <1>3, <1>4 DEF Future, Coming
    <2>4. StandingAs(w)'
      BY <1>1, <1>4, <1>6, <2>1, <2>2, <2>3, BecomesStanding
    <2> QED  BY <2>4 DEF Standing
  <1>13. Shaped'
    BY <1>1, <1>6, <1>12 DEF Shaped
  <1> QED  BY <1>8, <1>9, <1>10, <1>11, <1>13 DEF IInv

LEMMA WritePageInv ==
    ASSUME IInv, WritePage
    PROVE  IInv'
  <1> DEFINE q == work[1].page
             n == work[1].node
  <1>1. /\ pc = "busy" /\ work # <<>> /\ Head(work).page # None
        /\ cache' = [cache EXCEPT ![Head(work).page] = Head(work).node]
        /\ file' = [file EXCEPT ![Head(work).page] = Head(work).node]
        /\ Proceed /\ UNCHANGED <<root, count, header, faults, cutShort>>
    BY DEF WritePage
  <1>2. /\ Len(work) \in {1, 2} /\ Head(work) = work[1] /\ DOMAIN work = 1..Len(work)
        /\ work \in Seq(Writes) /\ work[1] \in Writes
        /\ (Len(work) = 1 => Tail(work) = <<>>)
        /\ (Len(work) = 2 => Tail(work) = <<work[2]>> /\ work[2] \in Writes)
        /\ 1 \in DOMAIN work
    BY <1>1, WorkIsShort
  <1>3. /\ q \in Pages /\ q # None /\ n \in Nodes
        /\ cache' = [cache EXCEPT ![q] = n] /\ file' = [file EXCEPT ![q] = n]
    BY <1>1, <1>2, WriteFacts
  <1>4. Whole(n)
    BY <1>2, <1>3 DEF IInv, Sound
  <1>5. /\ cache \in [Pages -> Nodes] /\ file \in [Pages -> Nodes] /\ count \in 1..(MaxPages + 1)
        /\ May \in [Keys -> SUBSET (Values \cup {NoValue})]
        /\ \A p \in Pages : Whole(cache[p]) /\ Whole(file[p])
    BY <1>1, TypeFacts, MayFacts DEF IInv, Sound
  <1> HIDE DEF n, q
  <1>6. /\ cache' \in [Pages -> Nodes] /\ file' \in [Pages -> Nodes]
        /\ {cache, file}' \subseteq [Pages -> Leaves \cup Internals]
    BY <1>3, <1>5 DEF Nodes
  <1>7. \A p \in Pages : Whole(cache'[p]) /\ Whole(file'[p])
    BY <1>3, <1>4, <1>5
  <1>8. CASE Len(work) = 1 /\ up = NoUp /\ Acknowledge
    <2>1. /\ pc' = "idle" /\ work' = <<>> /\ up' = NoUp /\ began' = FALSE
          /\ op'.key \in Keys \cup {None} /\ op'.val \in Values \cup {NoValue}
          /\ work' \in Seq([page : Pages, node : Leaves \cup Internals]
                           \cup [page : {None}, root : Pages])
          /\ allowed' = May
      BY <1>8, AcknowledgeFacts
    <2>2. TypeOK'
      BY <1>1, <1>5, <1>6, <2>1 DEF IInv, TypeOK
    <2>3. Resting' /\ Headed'
      BY <1>1, <2>1 DEF IInv, Resting, Headed
    <2>4. Pending' /\ Sound'
      BY <1>7, <2>1 DEF Pending, Climbs, Sound
    <2>5. ASSUME ~cutShort PROVE Standing'
      <3>1. CASE began
        <4>1. PICK w \in Shapes : BecomingAs(w)
          BY <1>1, <2>5, <3>1 DEF IInv, Shaped, Becoming
        <4>2. ~Climbs /\ NextRoot = root'
          BY <1>1, <1>3, <1>8 DEF Climbs, Grows, NextRoot, q
        <4>3. \A p \in Pages : cache'[p] = Future(cache)[p] /\ file'[p] = Future(file)[p]
          BY <1>1, <1>3, <1>5, <1>8, <4>2 DEF Future, Coming, q, n
        <4>4. StandingAs(w)'
          BY <1>1, <2>1, <4>1, <4>2, <4>3, BecomesStanding
        <4> QED  BY <4>4 DEF Standing
      <3>2. CASE ~began
        <4>1. PICK w \in Shapes : StandingAs(w)
          BY <1>1, <2>5, <3>2 DEF IInv, Shaped, Standing
        <4>2. /\ Good(w, root, count - 1) /\ OneLeaf(w)
              /\ Tree(cache, w, allowed, None) /\ Tree(file, w, allowed, None)
          BY <1>1, <1>8, <4>1 DEF StandingAs
        <4>3. /\ q \in LeavesOf(w) /\ op.key \in w.span[q]
              /\ NodeOK(n, q, w, May) /\ SizeOK(n, Order)
          BY <4>2 DEF OneLeaf, q, n
        <4>4. \A l \in Keys \ {op.key} : allowed[l] \subseteq May[l]
          BY <1>1, MayFacts
        <4>5. /\ cache'[q] = n /\ \A p \in w.pages \ {q} : cache'[p] = cache[p]
              /\ file'[q] = n /\ \A p \in w.pages \ {q} : file'[p] = file[p]
          <5>1. \A p \in w.pages : p \in Pages
            BY ShapeFacts
          <5> QED  BY <1>3, <1>5, <5>1
        <4>6. Tree(cache', w, May, None)
          BY <4>2, <4>3, <4>4, <4>5, TreeWithLeaf
        <4>7. Tree(file', w, May, None)
          BY <4>2, <4>3, <4>4, <4>5, TreeWithLeaf
        <4>8. StandingAs(w)'
          BY <1>1, <2>1, <4>2, <4>6, <4>7 DEF StandingAs
        <4> QED  BY <4>8 DEF Standing
      <3> QED  BY <3>1, <3>2
    <2>6. Shaped'
      BY <1>1, <2>1, <2>5 DEF Shaped
    <2> QED  BY <2>2, <2>3, <2>4, <2>6 DEF IInv
  <1>9. CASE /\ Len(work) > 1 \/ up # NoUp
             /\ work' = Tail(work) /\ began' = TRUE /\ UNCHANGED <<pc, op, up, allowed>>
    <2>1. /\ (Len(work) = 1 => work' = <<>> /\ up # NoUp)
          /\ (Len(work) = 2 => work' = <<work[2]>>)
      BY <1>2, <1>9
    <2>2. /\ work' \in Seq(Writes) /\ Len(work') <= 1
          /\ \A i \in DOMAIN work' : work'[i] = work[2] /\ Len(work) = 2
      <3>1. CASE Len(work) = 1
        BY <2>1, <3>1
      <3>2. CASE Len(work) = 2
        <4>1. \A x \in Writes : <<x>> \in Seq(Writes) /\ Len(<<x>>) <= 1
                                /\ \A i \in DOMAIN <<x>> : <<x>>[i] = x
          OBVIOUS
        <4> QED  BY <1>2, <2>1, <3>2, <4>1
      <3> QED  BY <1>2, <3>1, <3>2
    <2>3. TypeOK'
      <3>1. work' \in Seq([page : Pages, node : Leaves \cup Internals]
                          \cup [page : {None}, root : Pages])
        BY <2>2 DEF Writes, Nodes
      <3>2. {began, cutShort}' \subseteq BOOLEAN
        BY <1>1, <1>9 DEF IInv, TypeOK
      <3> QED  BY <1>1, <1>6, <1>9, <3>1, <3>2 DEF IInv, TypeOK
    <2>4. Resting'
      <3>1. work' = <<>> => up # NoUp
        <4>1. \A x : <<x>> # <<>>
          OBVIOUS
        <4> QED  BY <1>2, <2>1, <4>1
      <3> QED  BY <1>1, <1>9, <3>1 DEF IInv, Resting
    <2>5. Headed'
      BY <1>1, <1>9 DEF IInv, Headed
    <2>6. Climbs' = Climbs /\ Grows' = Grows /\ Joint' = Joint /\ Used' = Used /\ Wide' = Wide
          /\ May' = May
      BY <1>1, <1>9 DEF Climbs, Grows, Joint, Used, Wide, May
    <2>7. Pending'
      <3>1. Climbs => /\ count + Len(up.path) <= MaxPages
                      /\ \A i \in DOMAIN work' : work'[i].page \in Pages \ {Joint}
        BY <1>2, <2>2 DEF IInv, Pending
      <3>2. Len(work') <= 2 /\ Len(work') # 2
        <4>1. Len(work') \in Nat
          BY <2>2, LenProperties
        <4> QED  BY <2>2, <4>1
      <3> QED  BY <1>1, <1>9, <2>6, <3>1, <3>2 DEF Pending
    <2>8. Sound'
      BY <1>2, <1>7, <2>2 DEF IInv, Sound
    <2>9. Future(cache)' = Future(cache) /\ Future(file)' = Future(file)
      BY <1>1, <1>3, <1>9, FutureIsKept DEF q, n
    <2>10. NextRoot' = NextRoot
      <3>1. CASE Grows
        BY <1>1, <2>6, <3>1 DEF NextRoot
      <3>2. CASE ~Grows /\ Len(work) = 1
        BY <1>1, <1>3, <2>1, <2>6, <3>2 DEF NextRoot, q
      <3>3. CASE ~Grows /\ Len(work) = 2
        <4>1. \A x : <<x>> # <<>> /\ <<x>>[1] = x /\ Len(<<x>>) = 1
          OBVIOUS
        <4>2. work' # <<>> /\ work'[Len(work')] = work[2]
          BY <2>1, <3>3, <4>1
        <4> QED  BY <1>1, <2>6, <3>3, <4>2 DEF NextRoot
      <3> QED  BY <1>2, <3>1, <3>2, <3>3
    <2>11. ASSUME ~cutShort PROVE Becoming'
      <3>1. began \/ Climbs
        <4>1. ASSUME ~began, ~Climbs PROVE FALSE
          <5>1. Standing /\ up = NoUp
            BY <1>1, <2>11, <4>1 DEF IInv, Shaped, Climbs
          <5>2. Len(work) = 1
            BY <1>1, <5>1 DEF Standing, StandingAs, OneLeaf
          <5> QED  BY <1>9, <5>1, <5>2
        <4> QED  BY <4>1
      <3>2. PICK w \in Shapes : BecomingAs(w)
        BY <1>1, <2>11, <3>1 DEF IInv, Shaped, Becoming
      <3>3. OnPath(w)'
        BY <1>1, <1>9, <2>6, <2>9, <3>2 DEF BecomingAs, OnPath
      <3>4. BecomingAs(w)'
        BY <2>6, <2>9, <2>10, <3>2, <3>3 DEF BecomingAs
      <3> QED  BY <3>4 DEF Becoming
    <2>12. Shaped'
      BY <1>1, <1>9, <2>11 DEF Shaped
    <2> QED  BY <2>3, <2>4, <2>5, <2>7, <2>8, <2>12 DEF IInv
  <1> QED  BY <1>1, <1>8, <1>9 DEF Proceed

-----------------------------------------------------------------------------
(* The splits. The separator and the new page go to the last page of the   *)
(* path, or to a new root.                                                 *)

(* The way from the root down to the page that is split.                   *)
LeadsTo(path, q, w, pgs) ==
    /\ path \in Seq(Pages)
    /\ \A i \in DOMAIN path : path[i] \in w.pages /\ w.height[path[i]] + i = w.height[root] + 1
    /\ w.height[q] + Len(path) = w.height[root]
    /\ \A i \in 1..(Len(path) - 1) : IsChild(path[i + 1], pgs[path[i]])
    /\ IF path = <<>> THEN q = root ELSE path[1] = root /\ IsChild(q, pgs[Last(path)])

(* What the two halves are.                                                *)
Halving(w, q, sep, L, R, may) ==
    LET v == Halved(w, q, count, sep)
    IN  /\ NodeOK(L, q, v, may) /\ SizeOK(L, Order)
        /\ NodeOK(R, count, v, may) /\ SizeOK(R, Order)

OthersOK(pgs, w, q, may) ==
    \A s \in w.pages \ {q} : NodeOK(pgs[s], s, w, may) /\ SizeOK(pgs[s], Order)

LEMMA PathFacts ==
    ASSUME NEW w \in Shapes, NEW q \in w.pages, root \in w.pages, NEW path, NEW pgs,
           LeadsTo(path, q, w, pgs)
    PROVE  /\ Len(path) \in Nat /\ DOMAIN path = 1..Len(path)
           /\ path # <<>> => /\ Len(path) \in DOMAIN path /\ Last(path) = path[Len(path)]
                             /\ Last(path) \in w.pages
           /\ \A i \in DOMAIN path : path[i] \in w.pages /\ path[i] # q
           /\ \A i \in 1..(Len(path) - 1) : path[i] # Last(path)
  <1>1. /\ path \in Seq(Pages) /\ Len(path) \in Nat /\ DOMAIN path = 1..Len(path)
        /\ (path # <<>> => Len(path) > 0)
    BY LenProperties, EmptySeq DEF LeadsTo
  <1>2. \A s \in w.pages : w.height[s] \in Nat
    BY ShapeFacts
  <1>3. ASSUME NEW i \in DOMAIN path PROVE path[i] \in w.pages /\ path[i] # q
    <2>1. path[i] \in w.pages /\ w.height[path[i]] + i = w.height[root] + 1
          /\ w.height[q] + Len(path) = w.height[root]
      BY DEF LeadsTo
    <2>2. ASSUME path[i] = q PROVE FALSE
      <3>1. w.height[q] + i = w.height[root] + 1 /\ i \in 1..Len(path)
        BY <1>1, <2>1, <2>2
      <3> QED  BY <1>1, <1>2, <2>1, <3>1
    <2> QED  BY <2>1, <2>2
  <1>4. Last(path) = path[Len(path)]
    BY DEF Last
  <1>5. ASSUME NEW i \in 1..(Len(path) - 1) PROVE path[i] # Last(path)
    <2>1. i \in DOMAIN path /\ Len(path) \in DOMAIN path /\ i < Len(path)
      BY <1>1
    <2>2. /\ w.height[path[i]] + i = w.height[root] + 1
          /\ w.height[path[Len(path)]] + Len(path) = w.height[root] + 1
          /\ path[i] \in w.pages
      BY <2>1 DEF LeadsTo
    <2> QED  BY <1>1, <1>2, <1>4, <2>1, <2>2
  <1> QED  BY <1>1, <1>3, <1>4, <1>5

LEMMA SplitBecomes ==
    ASSUME NEW w, NEW q, NEW sep, NEW L \in Nodes, NEW R \in Nodes, NEW path,
           Splits(w, root, count - 1, q, count, sep),
           root' = root, count' = count + 1, count \in Nat, count + 1 + Len(path) <= MaxPages,
           work' = <<WriteOf(q, L), WriteOf(count, R)>>,
           up' = [left |-> q, sep |-> sep, right |-> count, path |-> path],
           LeadsTo(path, q, w, cache), NEW may, may = May', Halving(w, q, sep, L, R, may),
           OthersOK(cache, w, q, may), OthersOK(file, w, q, may),
           \A s \in Pages \ {count} : cache'[s] = cache[s] /\ file'[s] = file[s]
    PROVE  Becoming' /\ Pending' /\ Climbs'
  <1> DEFINE p == Last(path)
             top == count + 1
  <1>0. PICK v : v = Halved(w, q, count, sep)
    OBVIOUS
  <1>1. /\ Good(w, root, count - 1) /\ w \in Shapes /\ q \in w.pages /\ count \in Pages
        /\ sep \in Keys /\ root \in w.pages /\ v \in Shapes /\ q # count /\ count \notin w.pages
        /\ v.pages = w.pages \cup {count} /\ \A s \in w.pages : v.height[s] = w.height[s]
    <2>1. /\ Good(w, root, count - 1) /\ q \in w.pages /\ count \in Pages /\ sep \in Keys
      BY DEF Splits
    <2>2. root \in w.pages
      BY <2>1 DEF Good, Rooted
    <2> DEFINE used == count - 1
               h == Halved(w, q, count, sep)
    <2>3. Splits(w, root, used, q, count, sep)
      OBVIOUS
    <2> HIDE DEF used
    <2>4. /\ w \in Shapes /\ h \in Shapes /\ q # count /\ count \notin w.pages
          /\ h.pages = w.pages \cup {count} /\ \A s \in w.pages : h.height[s] = w.height[s]
      BY <2>3, HalvedFacts
    <2>5. h = v
      BY <1>0
    <2> HIDE DEF h
    <2> QED  BY <2>1, <2>2, <2>4, <2>5
  <1>2. /\ Len(path) \in Nat /\ DOMAIN path = 1..Len(path)
        /\ (path # <<>> => Len(path) \in DOMAIN path /\ p = path[Len(path)] /\ p \in w.pages)
        /\ \A i \in DOMAIN path : path[i] \in w.pages /\ path[i] # q
        /\ \A i \in 1..(Len(path) - 1) : path[i] # p
    BY <1>1, PathFacts
  <1>3. \A s \in w.pages : s \in Pages /\ s # None /\ s # count /\ s # top /\ w.height[s] \in Nat
    <2>1. w.pages \subseteq 1..(count - 1) /\ w.pages \subseteq Pages
      BY <1>1, ShapeFacts DEF Good, Rooted
    <2> QED  BY <1>1, <2>1, ShapeFacts, WriteFacts
  <1>4. MaxPages \in Nat /\ top <= MaxPages /\ top \in Pages
    BY <1>2, Numbers DEF Pages
  <1>5. /\ Len(work') = 2 /\ work' # <<>> /\ DOMAIN work' = {1, 2}
        /\ work'[1].page = q /\ work'[1].node = L /\ work'[2].page = count /\ work'[2].node = R
    <2> DEFINE x == WriteOf(q, L)
               y == WriteOf(count, R)
    <2>1. x.page = q /\ x.node = L /\ y.page = count /\ y.node = R
      BY <1>1, <1>3, WriteFacts
    <2> HIDE DEF x, y
    <2>2. work' = <<x, y>>
      BY DEF x, y
    <2>3. Len(<<x, y>>) = 2 /\ <<x, y>> # <<>> /\ <<x, y>>[1] = x /\ <<x, y>>[2] = y
          /\ DOMAIN <<x, y>> = {1, 2}
      OBVIOUS
    <2> QED  BY <2>1, <2>2, <2>3
  <1>6. /\ Climbs' /\ up'.path = path /\ (Grows' <=> path = <<>>)
        /\ Joint' = IF path = <<>> THEN top ELSE p
        /\ Joined' = IF path = <<>> THEN Internal(<<sep>>, <<q, count>>)
                     ELSE Adoption(cache'[p], sep, count)
    <2>1. up'.path = path /\ up'.left = q /\ up'.sep = sep /\ up'.right = count
      OBVIOUS
    <2>2. Climbs'
      <3>1. up'.left # NoUp.left
        BY <1>1, <1>3, <2>1 DEF NoUp
      <3> QED  BY <3>1 DEF Climbs
    <2>3. Grows' <=> path = <<>>
      BY <2>1, <2>2 DEF Grows
    <2>4. Joint' = IF path = <<>> THEN top ELSE p
      BY <2>1, <2>3 DEF Joint
    <2>5. Joined' = IF path = <<>> THEN Internal(<<sep>>, <<q, count>>) ELSE Adopted'
      BY <2>1, <2>3 DEF Joined
    <2>6. Adopted' = Adoption(cache'[p], sep, count)
      BY <2>1, AdoptedIsAdoption
    <2> QED  BY <2>1, <2>2, <2>3, <2>4, <2>5, <2>6
  <1> HIDE DEF p, top
  <1>7. PICK fc : fc = Future(cache)'
    OBVIOUS
  <1>8. PICK ff : ff = Future(file)'
    OBVIOUS
  <1>9. \A s \in Pages :
          /\ fc[s] = IF s = q THEN L ELSE IF s = count THEN R
                     ELSE IF s = Joint' THEN Joined' ELSE cache[s]
          /\ ff[s] = IF s = q THEN L ELSE IF s = count THEN R
                     ELSE IF s = Joint' THEN Joined' ELSE file[s]
    BY <1>5, <1>6, <1>7, <1>8 DEF Future, Coming
  <1>10. \A s \in {q, count} : /\ NodeOK(fc[s], s, v, may) /\ SizeOK(fc[s], Order)
                               /\ NodeOK(ff[s], s, v, may) /\ SizeOK(ff[s], Order)
    BY <1>0, <1>1, <1>3, <1>9 DEF Halving
  <1>11. Pending'
    <2>1. work'[1].page \in Pages \ {Joint'} /\ work'[2].page \in Pages \ {Joint'}
      <3>1. CASE path = <<>>
        <4>1. Joint' = top /\ q # top /\ count # top
          BY <1>1, <1>3, <1>6, <3>1 DEF top
        <4> QED  BY <1>1, <1>3, <1>5, <4>1
      <3>2. CASE path # <<>>
        <4>1. Joint' = p /\ q # p /\ count # p
          BY <1>2, <1>3, <1>6, <3>2
        <4> QED  BY <1>1, <1>3, <1>5, <4>1
      <3> QED  BY <3>1, <3>2
    <2>2. count' + Len(up'.path) <= MaxPages
      BY <1>6
    <2> QED  BY <1>1, <1>3, <1>5, <2>1, <2>2 DEF Pending
  <1>12. CASE path = <<>>
    <2>0. PICK c : c = Crowned(v, root, top)
      OBVIOUS
    <2>1. q = root
      BY <1>12 DEF LeadsTo
    <2>2. Joint' = top /\ Joined' = Internal(<<sep>>, <<root, count>>)
      BY <1>6, <1>12, <2>1
    <2>3. fc[top] = Joined' /\ ff[top] = Joined'
      <3>1. top # q /\ top # count
        BY <1>1, <1>3 DEF top
      <3> QED  BY <1>4, <1>9, <2>2, <3>1
    <2>4. \A s \in w.pages \ {root} : /\ NodeOK(fc[s], s, w, may) /\ SizeOK(fc[s], Order)
                                      /\ NodeOK(ff[s], s, w, may) /\ SizeOK(ff[s], Order)
      <3>1. ASSUME NEW s \in w.pages \ {root} PROVE fc[s] = cache[s] /\ ff[s] = file[s]
        BY <1>3, <1>9, <2>1, <2>2
      <3> QED  BY <2>1, <3>1 DEF OthersOK
    <2> DEFINE used == count - 1
    <2>5. used + 2 = count' /\ top = count + 1
      BY DEF top
    <2> HIDE DEF used
    <2>6. Splits(w, root, used, root, count, sep)
      BY <2>1 DEF used
    <2>7. /\ \A s \in {root, count} : NodeOK(fc[s], s, Halved(w, root, count, sep), may)
                                      /\ SizeOK(fc[s], Order)
          /\ \A s \in {root, count} : NodeOK(ff[s], s, Halved(w, root, count, sep), may)
                                      /\ SizeOK(ff[s], Order)
          /\ v = Halved(w, root, count, sep)
      BY <1>0, <1>10, <2>1
    <2>8. Good(c, top, used + 2) /\ Tree(fc, c, may, None)
      BY <1>4, <2>0, <2>2, <2>3, <2>4, <2>5, <2>6, <2>7, SplitAtRoot
    <2>9. Tree(ff, c, may, None)
      BY <1>4, <2>0, <2>2, <2>3, <2>4, <2>5, <2>6, <2>7, SplitAtRoot
    <2>10. Grows' /\ NextRoot' = top /\ Used' = count' /\ Wide' = None
      BY <1>6, <1>12 DEF NextRoot, Used, Wide, top
    <2>11. OnPath(c)'
      BY <1>6, <1>12 DEF OnPath
    <2>12. BecomingAs(c)'
      BY <1>7, <1>8, <2>5, <2>8, <2>9, <2>10, <2>11 DEF BecomingAs
    <2>13. c \in Shapes
      BY <2>8 DEF Good
    <2> QED  BY <1>6, <1>11, <2>12, <2>13 DEF Becoming
  <1>13. CASE path # <<>>
    <2>1. /\ p \in w.pages /\ Joint' = p /\ Joined' = Adoption(cache[p], sep, count)
          /\ p # q /\ p # count /\ p \in Pages
      BY <1>2, <1>3, <1>6, <1>13
    <2>2. fc[p] = Adoption(cache[p], sep, count) /\ ff[p] = Adoption(cache[p], sep, count)
      BY <1>9, <2>1
    <2>3. /\ NodeOK(cache[p], p, w, may) /\ SizeOK(cache[p], Order) /\ IsChild(q, cache[p])
      BY <1>13, <2>1 DEF OthersOK, LeadsTo, p
    <2>4. ASSUME NEW s \in w.pages \ {p, q} PROVE fc[s] = cache[s] /\ ff[s] = file[s]
      BY <1>3, <1>9, <2>1
    <2>5. \A s \in w.pages \ {p, q} : /\ NodeOK(fc[s], s, w, may) /\ SizeOK(fc[s], Order)
                                      /\ NodeOK(ff[s], s, w, may) /\ SizeOK(ff[s], Order)
      BY <2>4 DEF OthersOK
    <2> DEFINE used == count - 1
    <2>6. used + 1 = count /\ count' - 1 = count
      OBVIOUS
    <2> HIDE DEF used
    <2>7. Splits(w, root, used, q, count, sep)
      BY DEF used
    <2>8. /\ \A s \in {q, count} : NodeOK(fc[s], s, Halved(w, q, count, sep), may)
                                   /\ SizeOK(fc[s], Order)
          /\ \A s \in {q, count} : NodeOK(ff[s], s, Halved(w, q, count, sep), may)
                                   /\ SizeOK(ff[s], Order)
          /\ v = Halved(w, q, count, sep)
      BY <1>0, <1>10
    <2>9. Good(v, root, used + 1) /\ Tree(fc, v, may, p)
      BY <2>1, <2>2, <2>3, <2>5, <2>7, <2>8, SplitBelow
    <2>10. Tree(ff, v, may, p)
      BY <2>1, <2>2, <2>3, <2>5, <2>7, <2>8, SplitBelow
    <2>11. ~Grows' /\ NextRoot' = root /\ Used' = count' - 1 /\ Wide' = p
      BY <1>1, <1>3, <1>5, <1>6, <1>13, WriteFacts DEF NextRoot, Used, Wide, p
    <2>12. OnPath(v)'
      <3>1. ASSUME NEW i \in DOMAIN path
            PROVE  path[i] \in v.pages /\ v.height[path[i]] + i = v.height[root] + 1
        BY <1>1, <1>2 DEF LeadsTo
      <3>2. ASSUME NEW i \in 1..(Len(path) - 1) PROVE IsChild(path[i + 1], fc[path[i]])
        <4>1. IsChild(path[i + 1], cache[path[i]])
          BY DEF LeadsTo
        <4>2. path[i] \in w.pages \ {p, q}
          BY <1>2
        <4> QED  BY <2>4, <4>1, <4>2
      <3>3. path[1] = root
        BY <1>13 DEF LeadsTo
      <3> QED  BY <1>6, <1>7, <3>1, <3>2, <3>3 DEF OnPath
    <2>13. BecomingAs(v)'
      BY <1>7, <1>8, <2>6, <2>9, <2>10, <2>11, <2>12 DEF BecomingAs
    <2> QED  BY <1>1, <1>6, <1>11, <2>13 DEF Becoming
  <1> QED  BY <1>12, <1>13

-----------------------------------------------------------------------------
(* insertIntoParent.                                                       *)

LEMMA ClimbFacts ==
    ASSUME IInv, Climbing
    PROVE  /\ pc = "busy" /\ work = <<>> /\ began /\ Climbs /\ up \in Splitting /\ cutShort = FALSE
           /\ count + Len(up.path) <= MaxPages /\ count \in Nat /\ count \in Pages
           /\ Len(up.path) \in Nat /\ root \in Pages /\ root # None /\ Becoming
           /\ header = [root |-> root, count |-> count]
           /\ cache \in [Pages -> Nodes] /\ file \in [Pages -> Nodes]
           /\ \A p \in Pages : Whole(cache[p]) /\ Whole(file[p])
           /\ \A p \in Pages :
                /\ Future(cache)[p] = IF p = Joint THEN Joined ELSE cache[p]
                /\ Future(file)[p] = IF p = Joint THEN Joined ELSE file[p]
  <1>1. pc = "busy" /\ work = <<>> /\ began /\ Climbs
    BY DEF Climbing, IInv, Resting, Climbs
  <1>2. cutShort = FALSE
    BY <1>1 DEF IInv, Resting, Climbs, TypeOK
  <1>3. up \in Splitting /\ count \in 1..(MaxPages + 1) /\ count \in Nat
        /\ cache \in [Pages -> Nodes] /\ file \in [Pages -> Nodes]
    BY <1>1, TypeFacts DEF IInv
  <1>4. Len(up.path) \in Nat
    BY <1>3, LenProperties DEF Splitting
  <1>5. count + Len(up.path) <= MaxPages
    BY <1>1 DEF IInv, Pending
  <1>6. count \in Pages
    BY <1>3, <1>4, <1>5, Numbers DEF Pages
  <1>7. root \in Pages /\ root # None
    BY <1>1, WriteFacts DEF IInv, Resting
  <1>8. header = [root |-> root, count |-> count]
    BY <1>1, <1>2 DEF IInv, Headed
  <1>9. Becoming
    BY <1>1, <1>2 DEF IInv, Shaped
  <1>10. \A p \in Pages :
            /\ Future(cache)[p] = IF p = Joint THEN Joined ELSE cache[p]
            /\ Future(file)[p] = IF p = Joint THEN Joined ELSE file[p]
    <2>1. Len(<<>>) # 2
      OBVIOUS
    <2> QED  BY <1>1, <2>1 DEF Future, Coming
  <1>11. \A p \in Pages : Whole(cache[p]) /\ Whole(file[p])
    BY DEF IInv, Sound
  <1> QED  BY <1>1, <1>2, <1>3, <1>4, <1>5, <1>6, <1>7, <1>8, <1>9, <1>10, <1>11

LEMMA AllocateFacts ==
    ASSUME IInv, count \in Pages, root \in Pages, NEW n \in Nodes, Whole(n), Allocate(n)
    PROVE  /\ cache' \in [Pages -> Nodes] /\ file' \in [Pages -> Nodes]
           /\ {cache, file}' \subseteq [Pages -> Leaves \cup Internals]
           /\ \A p \in Pages : Whole(cache'[p]) /\ Whole(file'[p])
           /\ \A p \in Pages \ {count} : cache'[p] = cache[p] /\ file'[p] = file[p]
           /\ count' = count + 1 /\ count \in Nat /\ count' \in 1..(MaxPages + 1)
           /\ header' = [root |-> root, count |-> count']
           /\ header' \in [root : Child, count : 1..(MaxPages + 1)]
  <1>1. /\ cache' = [cache EXCEPT ![count] = n] /\ file' = [file EXCEPT ![count] = n]
        /\ count' = count + 1 /\ header' = [root |-> root, count |-> count']
    BY DEF Allocate
  <1>2. cache \in [Pages -> Nodes] /\ file \in [Pages -> Nodes]
        /\ \A p \in Pages : Whole(cache[p]) /\ Whole(file[p])
    BY TypeFacts DEF IInv, Sound
  <1>3. count \in Nat /\ count' \in 1..(MaxPages + 1)
    BY <1>1, Numbers DEF Pages
  <1>4. root \in Child
    BY WriteFacts
  <1>5. cache' \in [Pages -> Nodes] /\ file' \in [Pages -> Nodes]
    BY <1>1, <1>2
  <1>6. \A p \in Pages : Whole(cache'[p]) /\ Whole(file'[p])
    BY <1>1, <1>2
  <1>7. \A p \in Pages \ {count} : cache'[p] = cache[p] /\ file'[p] = file[p]
    BY <1>1, <1>2
  <1>8. {cache, file}' \subseteq [Pages -> Leaves \cup Internals]
    BY <1>5 DEF Nodes
  <1> QED  BY <1>1, <1>3, <1>4, <1>5, <1>6, <1>7, <1>8

LEMMA NewRootInv ==
    ASSUME IInv, NewRoot
    PROVE  IInv'
  <1> DEFINE n == Internal(<<up.sep>>, <<up.left, up.right>>)
  <1>1. /\ Climbing /\ up.path = <<>> /\ Allocate(BlankInternal)
        /\ work' = <<WriteOf(count, n), RootIs(count)>> /\ up' = NoUp
        /\ UNCHANGED <<pc, op, began, root, faults, allowed, cutShort>>
    BY DEF NewRoot
  <1>2. /\ pc = "busy" /\ work = <<>> /\ began /\ Climbs /\ up \in Splitting /\ cutShort = FALSE
        /\ count \in Nat /\ count \in Pages /\ root \in Pages /\ root # None /\ Becoming
        /\ \A p \in Pages :
             /\ Future(cache)[p] = IF p = Joint THEN Joined ELSE cache[p]
             /\ Future(file)[p] = IF p = Joint THEN Joined ELSE file[p]
    BY <1>1, ClimbFacts
  <1>3. /\ cache' \in [Pages -> Nodes] /\ file' \in [Pages -> Nodes]
        /\ {cache, file}' \subseteq [Pages -> Leaves \cup Internals]
        /\ \A p \in Pages : Whole(cache'[p]) /\ Whole(file'[p])
        /\ \A p \in Pages \ {count} : cache'[p] = cache[p] /\ file'[p] = file[p]
        /\ count' = count + 1 /\ count \in Nat /\ count' \in 1..(MaxPages + 1)
        /\ header' = [root |-> root, count |-> count']
        /\ header' \in [root : Child, count : 1..(MaxPages + 1)]
    BY <1>1, <1>2, BlankFacts, AllocateFacts
  <1>4. n \in Nodes /\ Whole(n) /\ Joined = n /\ Joint = count /\ Grows
    <2>1. up.sep \in Keys /\ up.left \in Pages /\ up.right \in Pages
      BY <1>2 DEF Splitting
    <2> DEFINE a == up.sep
               b == up.left
               c == up.right
    <2> HIDE DEF a, b, c
    <2>2. a \in Keys /\ b \in Pages /\ c \in Pages
      BY <2>1 DEF a, b, c
    <2>3. Internal(<<a>>, <<b, c>>) \in Internals /\ Whole(Internal(<<a>>, <<b, c>>))
      BY <2>2 DEF Internal, Internals, Whole
    <2>4. Grows
      BY <1>1, <1>2 DEF Grows
    <2> QED  BY <2>3, <2>4 DEF a, b, c, Nodes, Joined, Joint
  <1> HIDE DEF n
  <1>5. /\ work' # <<>> /\ Len(work') = 2 /\ DOMAIN work' = {1, 2} /\ work' \in Seq(Writes)
        /\ work'[1].page = count /\ work'[1].node = n /\ work'[2].page = None
        /\ work'[2].root = count /\ count # None
    <2> DEFINE x == WriteOf(count, n)
               y == RootIs(count)
    <2>1. /\ x \in Writes /\ y \in Writes /\ x.page = count /\ x.node = n
          /\ y.page = None /\ y.root = count /\ count # None
      BY <1>2, <1>4, WriteFacts
    <2> HIDE DEF x, y
    <2>2. work' = <<x, y>>
      BY <1>1 DEF x, y
    <2>3. /\ Len(<<x, y>>) = 2 /\ <<x, y>> # <<>> /\ <<x, y>>[1] = x /\ <<x, y>>[2] = y
          /\ DOMAIN <<x, y>> = {1, 2} /\ <<x, y>> \in Seq(Writes)
      BY <2>1
    <2> QED  BY <2>1, <2>2, <2>3
  <1>6. TypeOK'
    <2>1. work' \in Seq([page : Pages, node : Leaves \cup Internals]
                        \cup [page : {None}, root : Pages])
      BY <1>5 DEF Writes, Nodes
    <2> QED  BY <1>1, <1>3, <2>1 DEF IInv, TypeOK
  <1>7. Resting'
    BY <1>1, <1>2, <1>5 DEF IInv, Resting
  <1>8. Headed'
    BY <1>1, <1>2, <1>3 DEF Headed
  <1>9. Pending'
    BY <1>1, <1>2, <1>5 DEF Pending, Climbs
  <1>10. Sound'
    BY <1>3, <1>4, <1>5 DEF Sound
  <1>11. Becoming'
    <2>1. PICK w \in Shapes : BecomingAs(w)
      BY <1>2 DEF Becoming
    <2>2. ~Climbs' /\ ~Grows' /\ Wide' = None /\ Used' = count /\ NextRoot' = count
      BY <1>1, <1>3, <1>5 DEF Climbs, Grows, Wide, Used, NextRoot
    <2>3. Wide = None /\ Used = count /\ NextRoot = count /\ May' = May
      BY <1>1, <1>4 DEF Wide, Used, NextRoot, May
    <2>4. Future(cache)' = Future(cache) /\ Future(file)' = Future(file)
      <3>1. ASSUME NEW p \in Pages
            PROVE  Coming(cache, p)' = Future(cache)[p] /\ Coming(file, p)' = Future(file)[p]
        <4>1. p # None
          BY WriteFacts
        <4>2. CASE p = count
          BY <1>2, <1>4, <1>5, <4>2 DEF Coming
        <4>3. CASE p # count
          BY <1>2, <1>3, <1>4, <1>5, <2>2, <4>1, <4>3 DEF Coming
        <4> QED  BY <4>2, <4>3
      <3>2. /\ Future(cache) = [p \in Pages |-> Future(cache)[p]]
            /\ Future(file) = [p \in Pages |-> Future(file)[p]]
        BY DEF Future
      <3>3. /\ Future(cache)' = [p \in Pages |-> Coming(cache, p)']
            /\ Future(file)' = [p \in Pages |-> Coming(file, p)']
        BY DEF Future
      <3> QED  BY <3>1, <3>2, <3>3
    <2>5. OnPath(w)'
      BY <2>2 DEF OnPath
    <2>6. BecomingAs(w)'
      BY <2>1, <2>2, <2>3, <2>4, <2>5 DEF BecomingAs
    <2> QED  BY <2>6 DEF Becoming
  <1>12. Shaped'
    BY <1>1, <1>2, <1>11 DEF Shaped
  <1> QED  BY <1>6, <1>7, <1>8, <1>9, <1>10, <1>12 DEF IInv

(* The parent with the separator, as it is going to be.                    *)
LEMMA AdoptedFacts ==
    ASSUME IInv, Climbing, up.path # <<>>, NEW w \in Shapes, BecomingAs(w)
    PROVE  LET q == Last(up.path)
           IN  /\ q \in w.pages /\ q \in Pages /\ Joint = q /\ Joined = Adopted /\ Wide = q
               /\ w.height[q] # 0 /\ NodeOK(Adopted, q, w, May) /\ Adopted \in Internals
               /\ Whole(Adopted) /\ Len(Adopted.keys) \in Nat
               /\ Len(Adopted.keys) <= Order + 1 /\ Good(w, root, count - 1)
               /\ OthersOK(cache, w, q, May) /\ OthersOK(file, w, q, May)
               /\ LeadsTo(Front(up.path), q, w, cache)
               /\ Len(Front(up.path)) = Len(up.path) - 1
  <1> DEFINE q == Last(up.path)
             path == up.path
             front == Front(up.path)
  <1>1. /\ work = <<>> /\ Climbs /\ up \in Splitting /\ root \in Pages
        /\ \A p \in Pages :
             /\ Future(cache)[p] = IF p = Joint THEN Joined ELSE cache[p]
             /\ Future(file)[p] = IF p = Joint THEN Joined ELSE file[p]
    BY ClimbFacts
  <1>2. ~Grows /\ Joint = q /\ Joined = Adopted /\ Wide = q /\ NextRoot = root /\ Used = count - 1
    BY <1>1 DEF Grows, Joint, Joined, Wide, NextRoot, Used
  <1>3. /\ Good(w, root, count - 1) /\ Tree(Future(cache), w, May, q)
        /\ Tree(Future(file), w, May, q) /\ OnPath(w)
    BY <1>2 DEF BecomingAs
  <1>4. path \in Seq(Pages) /\ path # <<>>
    BY <1>1 DEF Splitting
  <1>5. /\ front \in Seq(Pages) /\ Len(front) = Len(path) - 1 /\ Len(path) \in Nat /\ Len(path) > 0
        /\ \A i \in 1..(Len(path) - 1) : front[i] = path[i]
        /\ DOMAIN front = 1..(Len(path) - 1) /\ DOMAIN path = 1..Len(path)
    BY <1>4, FrontProperties, LenProperties
  <1>6. /\ \A i \in DOMAIN path : path[i] \in w.pages /\ w.height[path[i]] + i = w.height[root] + 1
        /\ \A i \in 1..(Len(path) - 1) : IsChild(path[i + 1], Future(cache)[path[i]])
        /\ path[1] = root /\ q = path[Len(path)]
    BY <1>1, <1>3, <1>4 DEF OnPath, Last
  <1>7. q \in w.pages /\ q \in Pages /\ \A s \in w.pages : s \in Pages /\ w.height[s] \in Nat
    BY <1>5, <1>6, ShapeFacts
  <1> HIDE DEF q, path, front
  <1>8. /\ NodeOK(Adopted, q, w, May) /\ SizeOK(Adopted, Order + 1)
    <2>1. Future(cache)[q] = Adopted
      BY <1>1, <1>2, <1>7
    <2> QED  BY <1>3, <1>7, <2>1 DEF Tree
  <1>9. ~IsLeaf(Adopted)
    BY DEF Adopted, Internal, IsLeaf
  <1>10. w.height[q] # 0 /\ Adopted \in Internals /\ Len(Adopted.children) = Len(Adopted.keys) + 1
         /\ Len(Adopted.keys) \in Nat
    <2>1. w.height[q] # 0
      BY <1>8, <1>9, LeafFacts DEF NodeOK, LeafOK
    <2> QED  BY <1>8, <2>1, InternalFacts DEF NodeOK, InternalOK
  <1>11. Whole(Adopted) /\ Len(Adopted.keys) <= Order + 1
    BY <1>8, <1>9, <1>10 DEF Whole, SizeOK
  <1>12. \A s \in w.pages \ {q} : Future(cache)[s] = cache[s] /\ Future(file)[s] = file[s]
    BY <1>1, <1>2, <1>7
  <1>13. OthersOK(cache, w, q, May) /\ OthersOK(file, w, q, May)
    BY <1>3, <1>12 DEF Tree, OthersOK
  <1>14. /\ \A i \in 1..(Len(path) - 1) : path[i] \in w.pages \ {q} /\ path[i] = front[i]
    <2>1. ASSUME NEW i \in 1..(Len(path) - 1) PROVE path[i] # q
      <3>1. /\ w.height[path[i]] + i = w.height[root] + 1 /\ path[i] \in w.pages
            /\ w.height[q] + Len(path) = w.height[root] + 1 /\ i < Len(path)
        BY <1>5, <1>6
      <3> QED  BY <1>5, <1>7, <3>1
    <2> QED  BY <1>5, <1>6, <2>1
  <1>15. LeadsTo(front, q, w, cache)
    <2>1. \A i \in DOMAIN front : /\ front[i] \in w.pages
                                  /\ w.height[front[i]] + i = w.height[root] + 1
      BY <1>5, <1>6, <1>14
    <2>2. w.height[q] + Len(front) = w.height[root]
      <3>1. w.height[q] + Len(path) = w.height[root] + 1 /\ root \in w.pages
        BY <1>3, <1>5, <1>6 DEF Good, Rooted
      <3> QED  BY <1>5, <1>7, <3>1
    <2>3. \A i \in 1..(Len(path) - 1) : IsChild(path[i + 1], cache[path[i]])
      BY <1>6, <1>12, <1>14
    <2>4. \A i \in 1..(Len(front) - 1) : IsChild(front[i + 1], cache[front[i]])
      <3>1. ASSUME NEW i \in 1..(Len(front) - 1) PROVE IsChild(front[i + 1], cache[front[i]])
        <4>1. i \in 1..(Len(path) - 1) /\ i + 1 \in 1..(Len(path) - 1)
          BY <1>5
        <4> QED  BY <1>14, <2>3, <4>1
      <3> QED  BY <3>1
    <2>5. CASE front = <<>>
      <3>1. Len(front) = 0
        BY <2>5
      <3>2. Len(path) = 1
        BY <1>5, <3>1
      <3>3. q = root
        BY <1>6, <3>2
      <3> QED  BY <1>5, <2>1, <2>2, <2>4, <2>5, <3>3 DEF LeadsTo
    <2>6. CASE front # <<>>
      <3>1. Len(front) # 0
        BY <1>5, <2>6, EmptySeq
      <3>2. /\ 1 \in 1..(Len(path) - 1) /\ Len(path) - 1 \in 1..(Len(path) - 1)
            /\ (Len(path) - 1) + 1 = Len(path)
        BY <1>5, <3>1
      <3>3. front[1] = root
        BY <1>6, <1>14, <3>2
      <3>4. Last(front) = path[Len(path) - 1]
        BY <1>5, <1>14, <3>2 DEF Last
      <3>5. IsChild(path[(Len(path) - 1) + 1], cache[path[Len(path) - 1]])
        BY <2>3, <3>2
      <3>6. IsChild(q, cache[Last(front)])
        BY <1>6, <3>2, <3>4, <3>5
      <3> QED  BY <1>5, <2>1, <2>2, <2>4, <2>6, <3>3, <3>6 DEF LeadsTo
    <2> QED  BY <2>5, <2>6
  <1> QED  BY <1>2, <1>3, <1>5, <1>7, <1>8, <1>10, <1>11, <1>13, <1>15 DEF q, path, front

LEMMA InsertIntoParentInv ==
    ASSUME IInv, InsertIntoParent
    PROVE  IInv'
  <1> DEFINE q == Last(up.path)
  <1>1. /\ Climbing /\ up.path # <<>> /\ Len(Adopted.keys) <= Order
        /\ work' = <<WriteOf(q, Adopted)>> /\ up' = NoUp
        /\ UNCHANGED <<pc, op, began, cache, root, count, file, header, faults,
                       allowed, cutShort>>
    BY DEF InsertIntoParent
  <1>2. /\ pc = "busy" /\ work = <<>> /\ began /\ Climbs /\ cutShort = FALSE
        /\ root \in Pages /\ Becoming
        /\ \A p \in Pages :
             /\ Future(cache)[p] = IF p = Joint THEN Joined ELSE cache[p]
             /\ Future(file)[p] = IF p = Joint THEN Joined ELSE file[p]
    BY <1>1, ClimbFacts
  <1>3. PICK w \in Shapes : BecomingAs(w)
    BY <1>2 DEF Becoming
  <1>4. /\ q \in w.pages /\ q \in Pages /\ Joint = q /\ Joined = Adopted /\ Wide = q
        /\ Adopted \in Internals /\ Whole(Adopted) /\ Good(w, root, count - 1)
        /\ OthersOK(cache, w, q, May) /\ OthersOK(file, w, q, May)
    BY <1>1, <1>3, AdoptedFacts
  <1>4a. ~IsLeaf(Adopted)
    BY <1>4, InternalFacts
  <1> HIDE DEF q
  <1>5. /\ work' # <<>> /\ Len(work') = 1 /\ DOMAIN work' = {1} /\ work' \in Seq(Writes)
        /\ work'[1].page = q /\ work'[1].node = Adopted /\ q # None
    <2> DEFINE x == WriteOf(q, Adopted)
    <2>1. x \in Writes /\ x.page = q /\ x.node = Adopted /\ q # None
      BY <1>4, WriteFacts DEF Nodes
    <2> HIDE DEF x
    <2>2. work' = <<x>>
      BY <1>1 DEF x
    <2>3. Len(<<x>>) = 1 /\ <<x>> # <<>> /\ <<x>>[1] = x /\ DOMAIN <<x>> = {1}
          /\ <<x>> \in Seq(Writes)
      BY <2>1
    <2> QED  BY <2>1, <2>2, <2>3
  <1>6. TypeOK'
    <2>1. work' \in Seq([page : Pages, node : Leaves \cup Internals]
                        \cup [page : {None}, root : Pages])
      BY <1>5 DEF Writes, Nodes
    <2> QED  BY <1>1, <2>1 DEF IInv, TypeOK
  <1>7. Resting' /\ Headed'
    BY <1>1, <1>2, <1>5 DEF IInv, Resting, Headed
  <1>8. Pending' /\ Sound'
    BY <1>1, <1>4, <1>5 DEF IInv, Pending, Climbs, Sound
  <1>9. Becoming'
    <2>1. ~Climbs' /\ ~Grows' /\ Wide' = None /\ Used' = count - 1 /\ NextRoot' = root /\ May' = May
      BY <1>1, <1>5 DEF Climbs, Grows, Wide, Used, NextRoot, May
    <2>2. PICK fc : fc = Future(cache)'
      OBVIOUS
    <2>3. PICK ff : ff = Future(file)'
      OBVIOUS
    <2>4. \A p \in w.pages : /\ fc[p] = IF p = q THEN Adopted ELSE cache[p]
                             /\ ff[p] = IF p = q THEN Adopted ELSE file[p]
      <3>1. \A p \in w.pages : p \in Pages
        BY ShapeFacts
      <3> QED  BY <1>1, <1>5, <2>1, <2>2, <2>3, <3>1 DEF Future, Coming
    <2>5. NodeOK(Adopted, q, w, May) /\ SizeOK(Adopted, Order)
      BY <1>1, <1>3, <1>4a, AdoptedFacts DEF SizeOK, q
    <2>6. \A p \in w.pages : p # None
      BY ShapeFacts, WriteFacts
    <2>7. Tree(fc, w, May, None) /\ Tree(ff, w, May, None)
      BY <1>4, <2>4, <2>5, <2>6 DEF OthersOK, Tree
    <2>8. OnPath(w)'
      BY <2>1 DEF OnPath
    <2>9. BecomingAs(w)'
      BY <1>4, <2>1, <2>2, <2>3, <2>7, <2>8 DEF BecomingAs
    <2> QED  BY <2>9 DEF Becoming
  <1>10. Shaped'
    BY <1>1, <1>2, <1>9 DEF Shaped
  <1> QED  BY <1>6, <1>7, <1>8, <1>10 DEF IInv

(* What every split does to the operation in progress.                     *)
LEMMA SplitSteps ==
    ASSUME IInv, NEW q \in Pages, NEW L \in Nodes, NEW R \in Nodes, Whole(L), Whole(R),
           NEW n \in Nodes, Whole(n), Allocate(n), NEW sep \in Keys, NEW path \in Seq(Pages),
           work' = <<WriteOf(q, L), WriteOf(count, R)>>,
           up' = [left |-> q, sep |-> sep, right |-> count, path |-> path],
           ~cutShort, UNCHANGED <<root, faults, cutShort>>, pc # "down", pc' = "busy",
           began' \in BOOLEAN, op'.key \in Keys, op'.val \in Values \cup {NoValue},
           allowed' \in [Keys -> SUBSET (Values \cup {NoValue})], op'.val \in allowed'[op'.key],
           count \in Pages, Becoming', Pending', ~began' => Standing'
    PROVE  IInv'
  <1>1. root \in Pages /\ root # None
    BY WriteFacts DEF IInv, Resting
  <1>2. /\ cache' \in [Pages -> Nodes] /\ file' \in [Pages -> Nodes]
        /\ {cache, file}' \subseteq [Pages -> Leaves \cup Internals]
        /\ \A p \in Pages : Whole(cache'[p]) /\ Whole(file'[p])
        /\ count' \in 1..(MaxPages + 1)
        /\ header' = [root |-> root, count |-> count']
        /\ header' \in [root : Child, count : 1..(MaxPages + 1)]
    BY <1>1, AllocateFacts
  <1>3. /\ work' \in Seq(Writes) /\ work' # <<>> /\ DOMAIN work' = {1, 2}
        /\ work'[1].node = L /\ work'[2].node = R
    <2> DEFINE x == WriteOf(q, L)
               y == WriteOf(count, R)
    <2>1. x \in Writes /\ y \in Writes /\ x.node = L /\ y.node = R
      BY WriteFacts
    <2> HIDE DEF x, y
    <2>2. work' = <<x, y>>
      BY DEF x, y
    <2>3. /\ <<x, y>> \in Seq(Writes) /\ <<x, y>> # <<>> /\ DOMAIN <<x, y>> = {1, 2}
          /\ <<x, y>>[1] = x /\ <<x, y>>[2] = y
      BY <2>1
    <2> QED  BY <2>1, <2>2, <2>3
  <1>4. TypeOK'
    <2>1. work' \in Seq([page : Pages, node : Leaves \cup Internals]
                        \cup [page : {None}, root : Pages])
      BY <1>3 DEF Writes, Nodes
    <2>2. up' \in {NoUp} \cup [left : Pages, sep : Keys, right : Pages, path : Seq(Pages)]
      OBVIOUS
    <2>3. {began, cutShort}' \subseteq BOOLEAN
      BY DEF IInv, TypeOK
    <2>4. pc' \in {"down", "idle", "busy"} /\ root' \in Child /\ faults' \in 0..MaxFaults
      BY DEF IInv, TypeOK
    <2>5. op'.key \in Keys \cup {None}
      OBVIOUS
    <2> QED  BY <1>2, <2>1, <2>2, <2>3, <2>4, <2>5 DEF TypeOK
  <1>5. Resting'
    BY <1>1, <1>3 DEF Resting
  <1>6. Headed'
    BY <1>1, <1>2 DEF Headed
  <1>7. Sound'
    BY <1>2, <1>3 DEF Sound
  <1>8. Shaped'
    BY DEF Shaped
  <1> QED  BY <1>4, <1>5, <1>6, <1>7, <1>8 DEF IInv

LEMMA SplitParentInv ==
    ASSUME IInv, SplitParent
    PROVE  IInv'
  <1> DEFINE q == Last(up.path)
             n == Adopted
             path == Front(up.path)
             mid == Len(n.keys) \div 2
             sep == n.keys[mid + 1]
             L == InternalHalves(n, q, count)[1].node
             R == InternalHalves(n, q, count)[2].node
  <1>1. /\ Climbing /\ up.path # <<>> /\ Len(n.keys) > Order
        /\ work' = InternalHalves(n, q, count)
        /\ up' = [left |-> q, sep |-> sep, right |-> count, path |-> path]
        /\ Allocate(BlankInternal)
        /\ UNCHANGED <<pc, op, began, root, faults, allowed, cutShort>>
    BY DEF SplitParent
  <1>2. /\ pc = "busy" /\ work = <<>> /\ began /\ Climbs /\ up \in Splitting /\ cutShort = FALSE
        /\ count + Len(up.path) <= MaxPages /\ count \in Nat /\ count \in Pages
        /\ root \in Pages /\ Becoming
    BY <1>1, ClimbFacts
  <1>3. PICK w \in Shapes : BecomingAs(w)
    BY <1>2 DEF Becoming
  <1>4. /\ q \in w.pages /\ q \in Pages
        /\ w.height[q] # 0 /\ NodeOK(n, q, w, May) /\ n \in Internals /\ Len(n.keys) \in Nat
        /\ Len(n.keys) <= Order + 1 /\ Good(w, root, count - 1)
        /\ OthersOK(cache, w, q, May) /\ OthersOK(file, w, q, May)
        /\ LeadsTo(path, q, w, cache) /\ Len(path) = Len(up.path) - 1
    BY <1>1, <1>3, AdoptedFacts
  <1>5. /\ cache' \in [Pages -> Nodes] /\ file' \in [Pages -> Nodes]
        /\ \A p \in Pages \ {count} : cache'[p] = cache[p] /\ file'[p] = file[p]
        /\ count' = count + 1 /\ header' = [root |-> root, count |-> count']
    BY <1>1, <1>2, BlankFacts, AllocateFacts
  <1>6. /\ \A a, b : WriteOf(a, b).node = b
        /\ \A a, b : <<a, b>>[1] = a /\ <<a, b>>[2] = b
    BY DEF WriteOf
  <1>7. InternalHalves(n, q, count) = <<WriteOf(q, L), WriteOf(count, R)>>
        /\ ~IsLeaf(L) /\ ~IsLeaf(R)
    <2> DEFINE nl == Internal(SubSeq(n.keys, 1, mid), SubSeq(n.children, 1, mid + 1))
               nr == Internal(SubSeq(n.keys, mid + 2, Len(n.keys)),
                              SubSeq(n.children, mid + 2, Len(n.children)))
    <2>1. InternalHalves(n, q, count) = <<WriteOf(q, nl), WriteOf(count, nr)>>
      BY DEF InternalHalves
    <2>2. ~IsLeaf(nl) /\ ~IsLeaf(nr)
      BY DEF Internal, IsLeaf
    <2> HIDE DEF nl, nr
    <2>3. InternalHalves(n, q, count)[1].node = nl /\ InternalHalves(n, q, count)[2].node = nr
      BY <1>6, <2>1
    <2> QED  BY <2>1, <2>2, <2>3
  <1>8. Len(n.keys) = Order + 1
    BY <1>1, <1>4, Numbers
  <1>9. mid = Len(n.keys) \div 2 /\ sep = n.keys[mid + 1] /\ sep = n.keys[Len(n.keys) \div 2 + 1]
        /\ L = InternalHalves(n, q, count)[1].node /\ R = InternalHalves(n, q, count)[2].node
    OBVIOUS
  <1> HIDE DEF q, n, path, mid, sep, L, R
  <1>10. Apart(w)
    BY <1>4 DEF Good
  <1>11. sep \in Keys /\ Low(w.span[q], sep) # {} /\ High(w.span[q], sep) # {}
    BY <1>4, <1>8, <1>9, <1>10, MiddleDivides
  <1>12. Splits(w, root, count - 1, q, count, sep)
    <2>1. count - 1 \in Nat /\ count = (count - 1) + 1
      BY <1>2, Numbers DEF Pages
    <2> QED  BY <1>2, <1>4, <1>11, <2>1 DEF Splits
  <1>13. Halving(w, q, sep, L, R, May)
    <2> DEFINE used == count - 1
    <2>1. Splits(w, root, used, q, count, sep)
      BY <1>12
    <2> HIDE DEF used
    <2>2. w.height[q] # 0 /\ NodeOK(n, q, w, May) /\ Len(n.keys) = Order + 1
      BY <1>4, <1>8
    <2>3. /\ NodeOK(L, q, Halved(w, q, count, sep), May) /\ SizeOK(L, Order)
          /\ NodeOK(R, count, Halved(w, q, count, sep), May) /\ SizeOK(R, Order)
      BY <1>9, <2>1, <2>2, InternalHalvesOK
    <2> QED  BY <2>3 DEF Halving
  <1>14. L \in Nodes /\ R \in Nodes /\ Whole(L) /\ Whole(R)
    <2> DEFINE v == Halved(w, q, count, sep)
    <2>1. NodeOK(L, q, v, May) /\ NodeOK(R, count, v, May)
      BY <1>13 DEF Halving
    <2> HIDE DEF v
    <2>2. \A m, p : NodeOK(m, p, v, May) /\ ~IsLeaf(m) => InternalOK(m, p, v)
      BY LeafFacts DEF NodeOK, LeafOK
    <2>3. InternalOK(L, q, v) /\ InternalOK(R, count, v)
      BY <1>7, <2>1, <2>2
    <2> QED  BY <2>3 DEF InternalOK, Whole, Nodes
  <1>15. work' = <<WriteOf(q, L), WriteOf(count, R)>>
    BY <1>1, <1>7
  <1>16. PICK may : may = May
    OBVIOUS
  <1>17. may = May' /\ Halving(w, q, sep, L, R, may)
         /\ OthersOK(cache, w, q, may) /\ OthersOK(file, w, q, may)
    BY <1>1, <1>4, <1>13, <1>16 DEF May
  <1>18. count + 1 + Len(path) <= MaxPages /\ path \in Seq(Pages)
    <2>1. Len(up.path) \in Nat
      BY <1>2, LenProperties DEF Splitting
    <2>2. path \in Seq(Pages)
      BY <1>4 DEF LeadsTo
    <2>3. \A a, b, c \in Nat : a + b <= c => a + 1 + (b - 1) <= c
      OBVIOUS
    <2>4. count \in Nat /\ MaxPages \in Nat /\ count + Len(up.path) <= MaxPages
      BY <1>2, Numbers
    <2>5. count + 1 + (Len(up.path) - 1) <= MaxPages
      BY <2>1, <2>3, <2>4
    <2> QED  BY <1>4, <2>2, <2>5
  <1>19. root' = root
    BY <1>1
  <1>20. /\ up' = [left |-> q, sep |-> sep, right |-> count, path |-> path]
         /\ Allocate(BlankInternal)
    BY <1>1
  <1>21. Becoming' /\ Pending' /\ Climbs'
    BY <1>2, <1>4, <1>5, <1>12, <1>14, <1>15, <1>17, <1>18, <1>19, <1>20, SplitBecomes
  <1>22. /\ op'.key \in Keys /\ op'.val \in Values \cup {NoValue}
         /\ allowed' \in [Keys -> SUBSET (Values \cup {NoValue})]
         /\ op'.val \in allowed'[op'.key]
    BY <1>1, <1>2, TypeFacts DEF IInv, TypeOK, Resting
  <1>23. /\ ~cutShort /\ UNCHANGED <<root, faults, cutShort>> /\ pc # "down" /\ pc' = "busy"
         /\ began' \in BOOLEAN /\ began'
    BY <1>1, <1>2 DEF IInv, TypeOK
  <1> QED  BY <1>2, <1>4, <1>11, <1>14, <1>15, <1>18, <1>20, <1>21, <1>22, <1>23, BlankFacts,
              SplitSteps

(* When one key is about to have a value, only its leaf has to change.     *)
LEMMA OthersStayWithMore ==
    ASSUME NEW w, NEW r, NEW used, Good(w, r, used), NEW pgs, NEW may, Tree(pgs, w, may, None),
           NEW q \in LeavesOf(w), NEW k \in w.span[q], NEW more,
           \A l \in Keys \ {k} : more[l] = may[l]
    PROVE  OthersOK(pgs, w, q, more)
  <1>1. w \in Shapes /\ Apart(w) /\ q \in w.pages /\ w.height[q] = 0
    BY DEF Good, LeavesOf
  <1>2. ASSUME NEW s \in w.pages \ {q}
        PROVE  NodeOK(pgs[s], s, w, more) /\ SizeOK(pgs[s], Order)
    <2>1. s # None /\ NodeOK(pgs[s], s, w, may) /\ w.span[s] \in SUBSET Keys
      BY <1>1, NodesOfTree
    <2>2. ASSUME w.height[s] = 0 PROVE k \notin w.span[s]
      BY <1>1, <2>2 DEF Apart
    <2>3. w.height[s] = 0 => \A l \in w.span[s] : may[l] \subseteq more[l]
      BY <2>1, <2>2
    <2>4. NodeOK(pgs[s], s, w, more)
      BY <2>1, <2>3, NodeWithMore
    <2> QED  BY <2>1, <2>4 DEF Tree
  <1> QED  BY <1>2 DEF OthersOK

LEMMA InsertAndSplitInv ==
    ASSUME IInv, NEW k \in Keys, NEW v \in Values, InsertAndSplit(k, v)
    PROVE  IInv'
  <1> DEFINE q == LeafPage(k)
             n == LeafFor(k)
             entries == Inserted(n, k, v)
             mid == Len(entries) \div 2
             sep == entries[mid + 1].key
             low == SubSeq(entries, 1, mid)
             high == SubSeq(entries, mid + 1, Len(entries))
             L == Leaf(low, count, n.prev)
             R == Leaf(high, n.next, q)
             trail == Trail(cache, root, k)
             path == Front(trail)
  <1>1. /\ Start(k, v) /\ IsLeaf(n) /\ ~HasKey(n, k) /\ Len(n.entries) = Order
        /\ count + Len(trail) <= MaxPages /\ ~cutShort
        /\ work' = LeafHalves(n, entries, q, count)
        /\ up' = [left |-> q, sep |-> work'[2].node.entries[1].key,
                  right |-> count, path |-> path]
        /\ Allocate(BlankLeaf)
    BY DEF InsertAndSplit
  <1>2. v \in Values \cup {NoValue}
    OBVIOUS
  <1>3. /\ pc = "idle" /\ pc' = "busy" /\ op'.key = k /\ op'.val = v
        /\ began' = FALSE /\ root' = root /\ faults' = faults /\ cutShort' = cutShort
        /\ root \in Pages
        /\ allowed' \in [Keys -> SUBSET (Values \cup {NoValue})]
        /\ \A l \in Keys : allowed[l] \subseteq allowed'[l]
        /\ v \in allowed'[k]
        /\ May'[k] = {v} /\ \A l \in Keys \ {k} : May'[l] = allowed[l]
        /\ q \in Pages /\ n \in Leaves /\ trail \in Seq(Pages) /\ trail # <<>>
    BY <1>1, <1>2, StartFacts
  <1>4. work' = <<WriteOf(q, L), WriteOf(count, R)>>
    BY <1>1 DEF LeafHalves
  <1>5. n = cache[q] /\ q = Last(trail)
    BY DEF LeafFor, LeafPage
  <1>6. /\ mid = Len(entries) \div 2 /\ sep = entries[mid + 1].key
        /\ low = SubSeq(entries, 1, mid) /\ high = SubSeq(entries, mid + 1, Len(entries))
        /\ path = Front(trail)
        /\ L = Leaf(low, count, n.prev) /\ R = Leaf(high, n.next, q)
        /\ L.entries = low /\ R.entries = high /\ IsLeaf(L) /\ IsLeaf(R)
    BY DEF Leaf, IsLeaf
  <1>7. \A a, b : WriteOf(a, b).node = b /\ <<a, b>>[2] = b
    BY DEF WriteOf
  <1> HIDE DEF q, n, entries, mid, sep, low, high, L, R, trail, path
  <1>8. /\ path \in Seq(Pages) /\ Len(path) = Len(trail) - 1 /\ Len(trail) \in Nat
        /\ Len(trail) > 0 /\ \A i \in 1..(Len(trail) - 1) : path[i] = trail[i]
        /\ DOMAIN path = 1..(Len(trail) - 1) /\ DOMAIN trail = 1..Len(trail)
    <2>1. /\ path \in Seq(Pages) /\ Len(path) = Len(trail) - 1 /\ Len(trail) \in Nat \ {0}
          /\ \A i \in 1..(Len(trail) - 1) : path[i] = trail[i]
      BY <1>3, <1>6, FrontProperties
    <2>2. DOMAIN path = 1..Len(path) /\ DOMAIN trail = 1..Len(trail)
      BY <1>3, <2>1, LenProperties
    <2> QED  BY <2>1, <2>2
  <1>9. count \in Pages /\ count \in Nat /\ count - 1 \in Nat /\ count - 1 <= MaxPages
        /\ count = (count - 1) + 1
    <2>1. count \in 1..(MaxPages + 1) /\ MaxPages \in Nat
      BY TypeFacts, Numbers DEF IInv
    <2> QED  BY <1>1, <1>8, <2>1 DEF Pages
  <1>10. count + 1 + Len(path) <= MaxPages
    <2>1. \A a, b, c \in Nat : a + b <= c => a + 1 + (b - 1) <= c
      OBVIOUS
    <2> QED  BY <1>1, <1>8, <1>9, <2>1, Numbers
  <1>11. /\ \A p \in Pages \ {count} : cache'[p] = cache[p] /\ file'[p] = file[p]
         /\ count' = count + 1
    BY <1>1, <1>3, <1>9, BlankFacts, AllocateFacts
  <1>12. PICK w \in Shapes : StandingAs(w)
    BY <1>1, <1>3 DEF IInv, Shaped, Standing
  <1>13. /\ Good(w, root, count - 1)
         /\ Tree(cache, w, allowed, None) /\ Tree(file, w, allowed, None)
    BY <1>12 DEF StandingAs
  <1>14. /\ Along(trail, cache, w, root, k) /\ Len(trail) = w.height[root] + 1
         /\ q \in LeavesOf(w) /\ k \in w.span[q]
    <2> DEFINE used == count - 1
    <2>1. used \in Nat /\ used <= MaxPages /\ Good(w, root, used)
      BY <1>9, <1>13
    <2> HIDE DEF used
    <2>2. Readable(cache)
      BY ReadableFacts
    <2> QED  BY <1>5, <1>13, <2>1, <2>2, TrailOK DEF trail
  <1>15. /\ q \in w.pages /\ w.height[q] = 0 /\ w.span[q] \in SUBSET Keys /\ root \in w.pages
         /\ w.height[root] \in Nat
    BY <1>13, <1>14, ShapeFacts DEF LeavesOf, Good, Rooted
  <1>16. EntriesOK(n.entries, w.span[q], allowed) /\ LinkOK(n, q, w)
    BY <1>5, <1>13, <1>15 DEF Tree, NodeOK, LeafOK
  <1>17. PICK may : may = May'
    OBVIOUS
  <1>18. EntriesOK(entries, w.span[q], may) /\ Len(entries) = Order + 1
    <2>1. v \in may[k] /\ \A l \in w.span[q] \ {k} : may[l] = allowed[l]
      BY <1>3, <1>15, <1>17
    <2>2. k \in w.span[q] /\ ~HasKey(n, k) /\ Len(n.entries) = Order
          /\ EntriesOK(n.entries, w.span[q], allowed)
      BY <1>1, <1>14, <1>16
    <2>3. /\ EntriesOK(Inserted(n, k, v), w.span[q], may)
          /\ Len(Inserted(n, k, v)) = Len(n.entries) + 1
      BY <2>1, <2>2, InsertedOK
    <2> QED  BY <2>2, <2>3 DEF entries
  <1>19. /\ EntriesOK(low, Low(w.span[q], sep), may) /\ EntriesOK(high, High(w.span[q], sep), may)
         /\ Len(low) <= Order /\ Len(high) <= Order /\ high[1].key = sep
         /\ sep \in w.span[q] /\ Low(w.span[q], sep) # {} /\ High(w.span[q], sep) # {}
    BY <1>6, <1>15, <1>18, EntriesSplit
  <1>20. sep \in Keys
    BY <1>15, <1>19
  <1>21. up' = [left |-> q, sep |-> sep, right |-> count, path |-> path]
    <2>1. work'[2].node = R
      BY <1>4, <1>7
    <2> QED  BY <1>1, <1>6, <1>19, <2>1
  <1>22. Splits(w, root, count - 1, q, count, sep)
    BY <1>9, <1>13, <1>15, <1>19, <1>20 DEF Splits
  <1>23. Halving(w, q, sep, L, R, may)
    <2> DEFINE used == count - 1
    <2>1. Splits(w, root, used, q, count, sep)
      BY <1>22
    <2> HIDE DEF used
    <2>2. /\ NodeOK(L, q, Halved(w, q, count, sep), may)
          /\ NodeOK(R, count, Halved(w, q, count, sep), may)
      BY <1>3, <1>6, <1>14, <1>16, <1>19, <2>1, LeafHalvesOK
    <2>3. SizeOK(L, Order) /\ SizeOK(R, Order)
      BY <1>6, <1>19 DEF SizeOK
    <2> QED  BY <2>2, <2>3 DEF Halving
  <1>24. L \in Nodes /\ R \in Nodes /\ Whole(L) /\ Whole(R)
    <2>1. low \in Seq(Entries) /\ high \in Seq(Entries)
      BY <1>19 DEF EntriesOK
    <2>2. n.prev \in Child /\ n.next \in Child /\ count \in Child /\ q \in Child
      BY <1>3, <1>9, LeafFacts, WriteFacts
    <2>3. L \in Leaves /\ R \in Leaves
      BY <1>6, <2>1, <2>2 DEF Leaf, Leaves, Entries
    <2> QED  BY <1>6, <2>3 DEF Whole, Nodes
  <1>25. OthersOK(cache, w, q, may) /\ OthersOK(file, w, q, may)
    <2>1. \A l \in Keys \ {k} : may[l] = allowed[l]
      BY <1>3, <1>17
    <2>2. OthersOK(cache, w, q, may)
      BY <1>13, <1>14, <2>1, OthersStayWithMore
    <2>3. OthersOK(file, w, q, may)
      BY <1>13, <1>14, <2>1, OthersStayWithMore
    <2> QED  BY <2>2, <2>3
  <1>26. LeadsTo(path, q, w, cache)
    <2>1. /\ \A i \in 1..Len(trail) : trail[i] \in w.pages
                                      /\ w.height[trail[i]] + i = w.height[root] + 1
          /\ \A i \in 1..(Len(trail) - 1) : IsChild(trail[i + 1], cache[trail[i]])
          /\ trail[1] = root
      BY <1>8, <1>14 DEF Along
    <2>2. \A i \in DOMAIN path : path[i] \in w.pages
                                 /\ w.height[path[i]] + i = w.height[root] + 1
      BY <1>8, <2>1
    <2>3. w.height[q] + Len(path) = w.height[root]
      BY <1>8, <1>14, <1>15
    <2>4. ASSUME NEW i \in 1..(Len(path) - 1) PROVE IsChild(path[i + 1], cache[path[i]])
      <3>1. i \in 1..(Len(trail) - 1) /\ i + 1 \in 1..(Len(trail) - 1)
        BY <1>8
      <3> QED  BY <1>8, <2>1, <3>1
    <2>5. q = trail[Len(trail)]
      BY <1>5 DEF Last
    <2>6. CASE path = <<>>
      <3>1. Len(path) = 0
        BY <2>6
      <3>2. Len(trail) = 1
        BY <1>8, <3>1
      <3>3. q = root
        BY <2>1, <2>5, <3>2
      <3> QED  BY <1>8, <2>2, <2>3, <2>4, <2>6, <3>3 DEF LeadsTo
    <2>7. CASE path # <<>>
      <3>1. Len(path) # 0
        BY <1>8, <2>7, EmptySeq
      <3>2. /\ 1 \in 1..(Len(trail) - 1) /\ Len(trail) - 1 \in 1..(Len(trail) - 1)
            /\ (Len(trail) - 1) + 1 = Len(trail)
        BY <1>8, <3>1
      <3>3. path[1] = root
        BY <1>8, <2>1, <3>2
      <3>4. Last(path) = trail[Len(trail) - 1]
        BY <1>8, <3>2 DEF Last
      <3>5. IsChild(trail[(Len(trail) - 1) + 1], cache[trail[Len(trail) - 1]])
        BY <2>1, <3>2
      <3>6. IsChild(q, cache[Last(path)])
        BY <2>5, <3>2, <3>4, <3>5
      <3> QED  BY <1>8, <2>2, <2>3, <2>4, <2>7, <3>3, <3>6 DEF LeadsTo
    <2> QED  BY <2>6, <2>7
  <1>27. Becoming' /\ Pending' /\ Climbs'
    BY <1>3, <1>4, <1>9, <1>10, <1>11, <1>17, <1>21, <1>22, <1>23, <1>24, <1>25, <1>26,
       SplitBecomes
  <1>28. Standing'
    <2>1. Good(w, root', count' - 1)
      <3> DEFINE used == count - 1
      <3>1. used \in Nat /\ Good(w, root, used) /\ count' - 1 = used + 1 /\ root' = root
        BY <1>3, <1>9, <1>11, <1>13
      <3> HIDE DEF used
      <3> QED  BY <3>1, GoodWithMore
    <2>2. \A s \in w.pages : s \in Pages \ {count}
      <3>1. w.pages \subseteq 1..(count - 1) /\ w.pages \subseteq Pages
        BY <1>13, ShapeFacts DEF Good, Rooted
      <3> QED  BY <1>9, <3>1
    <2>3. Tree(cache', w, allowed, None)
      BY <1>11, <1>13, <2>2, TreeOfSame
    <2>4. Tree(file', w, allowed, None)
      BY <1>11, <1>13, <2>2, TreeOfSame
    <2>5. Tree(cache', w, allowed', None) /\ Tree(file', w, allowed', None)
      BY <1>3, <2>3, <2>4, TreeWithMore
    <2>6. up' # NoUp
      BY <1>27 DEF Climbs
    <2>7. StandingAs(w)'
      BY <2>1, <2>5, <2>6 DEF StandingAs
    <2> QED  BY <2>7 DEF Standing
  <1>29. /\ ~cutShort /\ UNCHANGED <<root, faults, cutShort>> /\ pc # "down" /\ pc' = "busy"
         /\ began' \in BOOLEAN
         /\ op'.key \in Keys /\ op'.val \in Values \cup {NoValue}
         /\ allowed' \in [Keys -> SUBSET (Values \cup {NoValue})]
         /\ op'.val \in allowed'[op'.key]
    BY <1>1, <1>2, <1>3
  <1>30. Allocate(BlankLeaf)
    BY <1>1
  <1> QED  BY <1>3, <1>4, <1>8, <1>9, <1>20, <1>21, <1>24, <1>27, <1>28, <1>29, <1>30, BlankFacts,
              SplitSteps

-----------------------------------------------------------------------------
(* The invariant holds, and what follows from it.                          *)

LEMMA StutterInv ==
    ASSUME IInv, UNCHANGED vars
    PROVE  IInv'
  <1> USE DEF vars, process
  <1>1. TypeOK' /\ Resting' /\ Headed' /\ Sound'
    BY DEF IInv, TypeOK, Resting, Headed, Sound
  <1>2. Climbs' = Climbs /\ Grows' = Grows /\ Joint' = Joint /\ Wide' = Wide /\ May' = May
        /\ NextRoot' = NextRoot /\ Used' = Used
    BY DEF Climbs, Grows, Joint, Wide, May, NextRoot, Used
  <1>3. Pending'
    BY <1>2 DEF IInv, Pending
  <1>4. Joined' = Joined
    BY <1>2, AdoptedIsAdoption DEF Joined
  <1>5. Future(cache)' = Future(cache) /\ Future(file)' = Future(file)
    BY <1>2, <1>4 DEF Future, Coming
  <1>6. ASSUME NEW w, StandingAs(w) PROVE StandingAs(w)'
    BY <1>2, <1>6 DEF StandingAs, OneLeaf
  <1>7. ASSUME NEW w, BecomingAs(w) PROVE BecomingAs(w)'
    <2>1. OnPath(w)'
      BY <1>2, <1>5, <1>7 DEF BecomingAs, OnPath
    <2> QED  BY <1>2, <1>5, <1>7, <2>1 DEF BecomingAs
  <1>8. ASSUME NEW w, OnDiskAs(w) PROVE OnDiskAs(w)'
    BY <1>8 DEF OnDiskAs
  <1>9. (Standing => Standing') /\ (Becoming => Becoming') /\ (OnDisk => OnDisk')
    BY <1>6, <1>7, <1>8 DEF Standing, Becoming, OnDisk
  <1>10. Shaped'
    BY <1>2, <1>9 DEF IInv, Shaped
  <1> QED  BY <1>1, <1>3, <1>10 DEF IInv

LEMMA NextInv ==
    ASSUME IInv, [Next]_vars
    PROVE  IInv'
  <1>1. CASE Open
    BY <1>1, OpenInv
  <1>2. CASE \E k \in Keys :
                \/ \E v \in Inputs[k] : Update(k, v) \/ Insert(k, v) \/ InsertAndSplit(k, v)
                \/ Delete(k)
    <2>1. PICK k \in Keys :
              \/ \E v \in Inputs[k] : Update(k, v) \/ Insert(k, v) \/ InsertAndSplit(k, v)
              \/ Delete(k)
      BY <1>2
    <2>2. \A v \in Inputs[k] : v \in Values
      BY InputsAreValues
    <2>3. CASE \E v \in Inputs[k] : Update(k, v)
      BY <2>2, <2>3, UpdateInv
    <2>4. CASE \E v \in Inputs[k] : Insert(k, v)
      BY <2>2, <2>4, InsertInv
    <2>5. CASE \E v \in Inputs[k] : InsertAndSplit(k, v)
      BY <2>2, <2>5, InsertAndSplitInv
    <2>6. CASE Delete(k)
      BY <2>6, DeleteInv
    <2> QED  BY <2>1, <2>3, <2>4, <2>5, <2>6
  <1>3. CASE WritePage
    BY <1>3, WritePageInv
  <1>4. CASE SetRootPage
    BY <1>4, SetRootPageInv
  <1>5. CASE PageFull
    BY <1>5, PageFullInv
  <1>6. CASE WriteFails
    BY <1>6, WriteFailsInv
  <1>7. CASE NewRoot
    BY <1>7, NewRootInv
  <1>8. CASE InsertIntoParent
    BY <1>8, InsertIntoParentInv
  <1>9. CASE SplitParent
    BY <1>9, SplitParentInv
  <1>10. CASE \E p \in Pages : Evict(p)
    BY <1>10, EvictInv
  <1>11. CASE Crash
    BY <1>11, CrashInv
  <1>12. CASE UNCHANGED vars
    BY <1>12, StutterInv
  <1> QED  BY <1>1, <1>2, <1>3, <1>4, <1>5, <1>6, <1>7, <1>8, <1>9, <1>10, <1>11, <1>12 DEF Next

(* The tree is what its shape says, in the process and in the file, when   *)
(* nothing is in progress.                                                 *)
LEMMA WellShaped ==
    ASSUME IInv, ~cutShort
    PROVE  /\ pc = "idle" => \E w : Good(w, root, count - 1) /\ Tree(cache, w, allowed, None)
           /\ pc # "busy" /\ header.root # None =>
                \E w : Good(w, header.root, header.count - 1) /\ Tree(file, w, allowed, None)
           /\ count - 1 \in Nat /\ count - 1 <= MaxPages
           /\ header.count - 1 \in Nat /\ header.count - 1 <= MaxPages
           /\ Readable(cache) /\ Readable(file)
  <1>1. /\ count - 1 \in Nat /\ count - 1 <= MaxPages
        /\ header.count - 1 \in Nat /\ header.count - 1 <= MaxPages
    BY TypeFacts, Numbers DEF IInv
  <1>2. Readable(cache) /\ Readable(file)
    BY ReadableFacts
  <1>3. pc = "idle" => \E w : /\ Good(w, root, count - 1)
                              /\ Tree(cache, w, allowed, None) /\ Tree(file, w, allowed, None)
    BY DEF IInv, Shaped, Standing, StandingAs
  <1>4. pc = "down" /\ header.root # None =>
            \E w : Good(w, header.root, header.count - 1) /\ Tree(file, w, allowed, None)
    BY DEF IInv, Shaped, OnDisk, OnDiskAs
  <1>5. pc = "idle" => header.root = root /\ header.count = count
    BY DEF IInv, Headed
  <1>6. pc \in {"down", "idle", "busy"}
    BY DEF IInv, TypeOK
  <1> QED  BY <1>1, <1>2, <1>3, <1>4, <1>5, <1>6

(* IInv holds of every reachable state, whatever pages Put and Delete have *)
(* written so far and wherever they failed or the process died.            *)
THEOREM IndInv == Spec => []IInv
  <1>1. Init => IInv
    BY InitInv
  <1>2. IInv /\ [Next]_vars => IInv'
    BY NextInv
  <1> QED  BY <1>1, <1>2, PTL DEF Spec

(* TypeOK holds of the B+tree for every order, every set of keys and       *)
(* values and every bound: of Put, Delete, the splits, the header and the  *)
(* pages of btree.go and pager.go.                                         *)
THEOREM TypeCorrect == Spec => []TypeOK
  <1>1. IInv => TypeOK
    BY DEF IInv
  <1> QED  BY <1>1, IndInv, PTL

(* KeepsEveryKey: BTree.Get, between operations and after a restart, gives *)
(* every key the value of its last Put or Delete, or of one that failed    *)
(* since, however many levels have been split.                             *)
THEOREM KeysAreKept == Spec => []KeepsEveryKey
  <1>1. ASSUME IInv PROVE KeepsEveryKey
    <2> SUFFICES ASSUME ~cutShort PROVE ViewsHold(GetsAllowed)
      BY DEF KeepsEveryKey
    <2>1. ASSUME pc = "idle" PROVE GetsAllowed(cache, root)
      <3>1. PICK w : Good(w, root, count - 1) /\ Tree(cache, w, allowed, None)
        BY <1>1, <2>1, WellShaped
      <3>2. count - 1 \in Nat /\ count - 1 <= MaxPages /\ Readable(cache)
        BY <1>1, WellShaped
      <3> QED  BY <3>1, <3>2, GetOK DEF GetsAllowed
    <2>2. ASSUME pc # "busy", header.root # None PROVE GetsAllowed(file, header.root)
      <3>1. PICK w : Good(w, header.root, header.count - 1) /\ Tree(file, w, allowed, None)
        BY <1>1, <2>2, WellShaped
      <3>2. header.count - 1 \in Nat /\ header.count - 1 <= MaxPages /\ Readable(file)
        BY <1>1, WellShaped
      <3> QED  BY <3>1, <3>2, GetOK DEF GetsAllowed
    <2> QED  BY <2>1, <2>2 DEF ViewsHold
  <1> QED  BY <1>1, IndInv, PTL

-----------------------------------------------------------------------------
(* The levels of a tree.                                                   *)

LEMMA SequenceOf ==
    ASSUME NEW X, NEW n \in Nat, NEW f, f = [i \in 1..n |-> f[i]], \A i \in 1..n : f[i] \in X
    PROVE  f \in Seq(X) /\ Len(f) = n /\ DOMAIN f = 1..n
  <1>1. f \in [1..n -> X]
    OBVIOUS
  <1>2. f \in Seq(X)
    BY <1>1, SeqDef
  <1>3. DOMAIN f = 1..n /\ DOMAIN f = 1..Len(f) /\ Len(f) \in Nat
    BY <1>1, <1>2, LenProperties
  <1>4. Len(f) = n
    BY <1>3
  <1> QED  BY <1>2, <1>3, <1>4

LEMMA FlattenIsTyped ==
    ASSUME NEW X, NEW seqs \in Seq(Seq(X))
    PROVE  FlattenSeq(seqs) \in Seq(X)
  <1>1. \A s \in Seq(X) : \A i \in DOMAIN s : s[i] \in X
    BY LenProperties, ElementOfSeq
  <1>2. \A j \in DOMAIN seqs : seqs[j] \in Seq(X)
    BY LenProperties, ElementOfSeq
  <1>3. \A j \in DOMAIN seqs : Ordered(seqs[j], X \X X)
    BY <1>1, <1>2 DEF Ordered
  <1>4. \A i, j \in DOMAIN seqs : i < j =>
            \A x \in ToSet(seqs[i]), y \in ToSet(seqs[j]) : <<x, y>> \in X \X X
    BY <1>1, <1>2 DEF ToSet
  <1> DEFINE R == X \X X
  <1> HIDE DEF R
  <1>5. /\ \A j \in DOMAIN seqs : Ordered(seqs[j], R)
        /\ \A i, j \in DOMAIN seqs : i < j =>
              \A x \in ToSet(seqs[i]), y \in ToSet(seqs[j]) : <<x, y>> \in R
    BY <1>3, <1>4 DEF R
  <1> QED  BY <1>5, Flattening

KidsOf(n) == IF IsLeaf(n) THEN <<>> ELSE n.children
KidsOfAll(pgs, s) == [j \in DOMAIN s |-> KidsOf(pgs[s[j]])]
Below(pgs, s) == FlattenSeq(KidsOfAll(pgs, s))

LEMMA KidsAreTyped ==
    ASSUME NEW pgs, Readable(pgs), NEW s \in Seq(Pages)
    PROVE  /\ KidsOfAll(pgs, s) \in Seq(Seq(Pages)) /\ DOMAIN KidsOfAll(pgs, s) = DOMAIN s
           /\ \A j \in DOMAIN s : KidsOfAll(pgs, s)[j] = KidsOf(pgs[s[j]])
           /\ Below(pgs, s) \in Seq(Pages)
  <1>1. Len(s) \in Nat /\ DOMAIN s = 1..Len(s) /\ \A j \in DOMAIN s : s[j] \in Pages
    BY LenProperties, ElementOfSeq
  <1>2. \A n \in Leaves \cup Internals : KidsOf(n) \in Seq(Pages)
    BY LeafFacts, InternalFacts DEF KidsOf
  <1>3. \A j \in DOMAIN s : KidsOf(pgs[s[j]]) \in Seq(Pages)
    BY <1>1, <1>2 DEF Readable
  <1> DEFINE f == KidsOfAll(pgs, s)
  <1>4. /\ f = [j \in 1..Len(s) |-> f[j]]
        /\ \A j \in 1..Len(s) : f[j] = KidsOf(pgs[s[j]]) /\ f[j] \in Seq(Pages)
    BY <1>1, <1>3 DEF KidsOfAll
  <1> HIDE DEF f
  <1>5. f \in Seq(Seq(Pages)) /\ DOMAIN f = 1..Len(s)
    BY <1>1, <1>4, SequenceOf
  <1>6. FlattenSeq(f) \in Seq(Pages)
    BY <1>5, FlattenIsTyped
  <1> QED  BY <1>1, <1>4, <1>5, <1>6 DEF f, Below

LEMMA LevelsDescend ==
    ASSUME NEW pgs, Readable(pgs), NEW r \in Pages
    PROVE  /\ Level(pgs, r, 0) = <<r>>
           /\ \A d \in Nat : /\ Level(pgs, r, d) \in Seq(Pages)
                             /\ Level(pgs, r, d + 1) = Below(pgs, Level(pgs, r, d))
  <1> DEFINE S == Seq(Pages)
             first == <<r>>
             next(s) == FlattenSeq([j \in DOMAIN s |->
                            LET n == pgs[s[j]] IN IF IsLeaf(n) THEN <<>> ELSE n.children])
             step == [d \in Nat |-> [s \in S |-> next(s)]]
             Body(f) == [d \in Nat |-> IF d = 0 THEN <<r>> ELSE next(f[d - 1])]
             level == CHOOSE f : f = Body(f)
  <1>1. first \in S
    OBVIOUS
  <1>2. \A s : next(s) = Below(pgs, s)
    BY DEF Below, KidsOfAll, KidsOf
  <1> HIDE DEF next
  <1>3. step \in [Nat -> [S -> S]]
    BY <1>2, KidsAreTyped
  <1>4. PICK g : g \in [Nat -> S] /\ g[0] = <<r>> /\ \A d \in Nat : g[d + 1] = next(g[d])
    <2>1. \A d \in Nat, s \in S : step[d][s] = next(s)
      OBVIOUS
    <2> HIDE DEF S, first, step
    <2>2. PICK g : IsWalk(g, S, first, step)
      BY <1>1, <1>3, WalkExists
    <2>3. g \in [Nat -> S] /\ g[0] = first /\ \A d \in Nat : g[d + 1] = step[d][g[d]]
      BY <2>2 DEF IsWalk
    <2>4. \A d \in Nat : g[d + 1] = next(g[d])
      BY <2>1, <2>3
    <2> QED  BY <2>3, <2>4 DEF first
  <1> HIDE DEF S, step
  <1>5. g = Body(g)
    <2>1. ASSUME NEW d \in Nat PROVE g[d] = IF d = 0 THEN <<r>> ELSE next(g[d - 1])
      <3>1. CASE d = 0
        BY <1>4, <3>1
      <3>2. CASE d # 0
        <4>1. d - 1 \in Nat /\ (d - 1) + 1 = d
          BY <3>2
        <4> QED  BY <1>4, <3>2, <4>1
      <3> QED  BY <3>1, <3>2
    <2>2. g = [d \in Nat |-> g[d]]
      BY <1>4
    <2> QED  BY <2>1, <2>2
  <1>6. level = Body(level)
    BY <1>5
  <1>7. \A d : Level(pgs, r, d) = level[d]
    BY DEF Level, next
  <1> HIDE DEF level
  <1>8. level[0] = <<r>> /\ \A d \in Nat : level[d + 1] = next(level[d])
    <2>1. \A d \in Nat : level[d] = IF d = 0 THEN <<r>> ELSE next(level[d - 1])
      BY <1>6
    <2>2. \A d \in Nat : d + 1 \in Nat /\ d + 1 # 0 /\ (d + 1) - 1 = d
      OBVIOUS
    <2> QED  BY <2>1, <2>2
  <1>9. \A d \in Nat : level[d] \in S
    <2> DEFINE P == {d \in Nat : level[d] \in S}
    <2>1. 0 \in P
      BY <1>1, <1>8
    <2>2. ASSUME NEW d \in P PROVE d + 1 \in P
      <3>1. level[d] \in Seq(Pages) /\ level[d + 1] = Below(pgs, level[d])
        BY <1>2, <1>8 DEF S
      <3>2. level[d + 1] \in S
        BY <3>1, KidsAreTyped DEF S
      <3> QED  BY <3>2
    <2>3. P = Nat
      <3>1. P \in SUBSET Nat
        OBVIOUS
      <3> HIDE DEF P
      <3> QED  BY <2>1, <2>2, <3>1, Induction
    <2> QED  BY <2>3
  <1> QED  BY <1>2, <1>7, <1>8, <1>9 DEF S

(* The pages below one page, and below two of the same level, differ.      *)
Distinct == {x \in Pages \X Pages : x[1] # x[2]}

LEMMA KidsApart ==
    ASSUME NEW w \in Shapes, Apart(w), NEW p \in w.pages, NEW n, NEW may, NodeOK(n, p, w, may)
    PROVE  /\ KidsOf(n) \in Seq(Pages) /\ Ordered(KidsOf(n), Distinct)
           /\ \A c \in ToSet(KidsOf(n)) :
                /\ c \in w.pages /\ w.height[p] = w.height[c] + 1
                /\ w.span[c] # {} /\ w.span[c] \subseteq w.span[p]
  <1>1. w.span[p] \in SUBSET Keys
    BY ShapeFacts
  <1>2. CASE w.height[p] = 0
    <2>1. KidsOf(n) = <<>>
      BY <1>2, LeafFacts DEF NodeOK, LeafOK, KidsOf
    <2>2. DOMAIN <<>> = {} /\ ToSet(<<>>) = {}
      BY DEF ToSet
    <2> QED  BY <2>1, <2>2 DEF Ordered
  <1>3. CASE w.height[p] # 0
    <2> DEFINE kids == n.children
    <2>1. InternalOK(n, p, w)
      BY <1>3 DEF NodeOK
    <2>2. /\ n \in Internals /\ KeysOf(n.keys) /\ Len(kids) = Len(n.keys) + 1
          /\ \A i \in DOMAIN kids :
                /\ kids[i] \in w.pages /\ w.height[p] = w.height[kids[i]] + 1
                /\ w.span[kids[i]] = Share(n.keys, w.span[p], i)
      BY <2>1 DEF InternalOK
    <2>3. KidsOf(n) = kids /\ kids \in Seq(Pages) /\ DOMAIN kids = 1..(Len(n.keys) + 1)
          /\ \A i \in DOMAIN kids : kids[i] \in Pages
      BY <2>2, InternalFacts DEF KidsOf
    <2>4. \A i \in DOMAIN kids : w.span[kids[i]] # {} /\ w.span[kids[i]] \subseteq w.span[p]
      BY <2>2 DEF Apart, Share
    <2>5. ASSUME NEW i \in DOMAIN kids, NEW j \in DOMAIN kids, i < j PROVE kids[i] # kids[j]
      <3>1. ASSUME kids[i] = kids[j] PROVE FALSE
        <4>1. PICK k : k \in w.span[kids[i]]
          BY <2>4
        <4>2. k \in Share(n.keys, w.span[p], i) /\ k \in Share(n.keys, w.span[p], j)
          BY <2>2, <3>1, <4>1
        <4>3. i = j
          BY <1>1, <2>2, <2>3, <4>2, SharesApart
        <4> QED  BY <2>3, <2>5, <4>3
      <3> QED  BY <3>1
    <2>6. Ordered(kids, Distinct)
      BY <2>3, <2>5 DEF Ordered, Distinct
    <2>7. \A c \in ToSet(kids) : \E i \in DOMAIN kids : c = kids[i]
      BY DEF ToSet
    <2> HIDE DEF kids
    <2> QED  BY <2>2, <2>3, <2>4, <2>6, <2>7
  <1> QED  BY <1>2, <1>3

IsLevel(s, d, w, r) ==
    /\ s \in Seq(Pages) /\ Ordered(s, Distinct)
    /\ \A c \in ToSet(s) : c \in w.pages /\ w.height[c] + d = w.height[r]

LEMMA LevelOK ==
    ASSUME NEW w, NEW r, NEW used, Good(w, r, used),
           NEW pgs, NEW may, NEW wide, Tree(pgs, w, may, wide), Readable(pgs)
    PROVE  \A d \in Nat : IsLevel(Level(pgs, r, d), d, w, r)
  <1>1. /\ w \in Shapes /\ r \in w.pages /\ r \in Pages /\ Apart(w)
        /\ \A p \in w.pages : w.height[p] \in Nat
    BY ShapeFacts DEF Good, Rooted
  <1>2. /\ Level(pgs, r, 0) = <<r>>
        /\ \A d \in Nat : /\ Level(pgs, r, d) \in Seq(Pages)
                          /\ Level(pgs, r, d + 1) = Below(pgs, Level(pgs, r, d))
    BY <1>1, LevelsDescend
  <1> DEFINE P == {d \in Nat : IsLevel(Level(pgs, r, d), d, w, r)}
  <1>3. 0 \in P
    <2>1. <<r>> \in Seq(Pages) /\ ToSet(<<r>>) = {r} /\ Ordered(<<r>>, Distinct)
      BY <1>1 DEF ToSet, Ordered
    <2>2. w.height[r] + 0 = w.height[r]
      BY <1>1
    <2>3. IsLevel(<<r>>, 0, w, r)
      BY <1>1, <2>1, <2>2 DEF IsLevel
    <2> QED  BY <1>2, <2>3
  <1>4. ASSUME NEW d \in P PROVE d + 1 \in P
    <2> DEFINE s == Level(pgs, r, d)
               all == KidsOfAll(pgs, s)
               t == Below(pgs, s)
    <2>1. /\ d \in Nat /\ s \in Seq(Pages) /\ Ordered(s, Distinct)
          /\ \A c \in ToSet(s) : c \in w.pages /\ w.height[c] + d = w.height[r]
      BY DEF IsLevel
    <2>2. Level(pgs, r, d + 1) = t
      BY <1>2
    <2> HIDE DEF s
    <2>3. /\ all \in Seq(Seq(Pages)) /\ DOMAIN all = DOMAIN s
          /\ \A j \in DOMAIN s : all[j] = KidsOf(pgs[s[j]])
          /\ t = FlattenSeq(all)
      BY <2>1, KidsAreTyped DEF Below
    <2>4. \A j \in DOMAIN s : s[j] \in w.pages /\ w.height[s[j]] + d = w.height[r]
      BY <2>1 DEF ToSet
    <2> HIDE DEF all, t
    <2>5. ASSUME NEW j \in DOMAIN s
          PROVE  /\ Ordered(all[j], Distinct)
                 /\ \A c \in ToSet(all[j]) :
                      /\ c \in w.pages /\ w.height[s[j]] = w.height[c] + 1
                      /\ w.span[c] # {} /\ w.span[c] \subseteq w.span[s[j]]
      <3>1. NodeOK(pgs[s[j]], s[j], w, may) /\ s[j] \in w.pages
        BY <2>4 DEF Tree
      <3> QED  BY <1>1, <2>3, <3>1, KidsApart
    <2>6. ASSUME NEW i \in DOMAIN s, NEW j \in DOMAIN s, i < j,
                 NEW x \in ToSet(all[i]), NEW y \in ToSet(all[j])
          PROVE  <<x, y>> \in Distinct
      <3>1. s[i] # s[j]
        BY <2>1, <2>6 DEF Ordered, Distinct
      <3>2. w.height[s[i]] = w.height[s[j]] /\ s[i] \in w.pages /\ s[j] \in w.pages
        BY <1>1, <2>1, <2>4
      <3>3. w.span[s[i]] \cap w.span[s[j]] = {}
        BY <1>1, <3>1, <3>2 DEF Apart
      <3>4. /\ x \in w.pages /\ w.span[x] # {} /\ w.span[x] \subseteq w.span[s[i]]
            /\ y \in w.pages /\ w.span[y] \subseteq w.span[s[j]]
        BY <2>5
      <3>5. x # y
        BY <3>3, <3>4
      <3>6. x \in Pages /\ y \in Pages
        BY <1>1, <3>4, ShapeFacts
      <3> QED  BY <3>5, <3>6 DEF Distinct
    <2>7. /\ t \in Seq(Pages) /\ Ordered(t, Distinct)
          /\ ToSet(t) = UNION {ToSet(all[j]) : j \in DOMAIN all}
      <3>1. \A j \in DOMAIN all : Ordered(all[j], Distinct)
        BY <2>3, <2>5
      <3>2. \A i, j \in DOMAIN all : i < j =>
                \A x \in ToSet(all[i]), y \in ToSet(all[j]) : <<x, y>> \in Distinct
        BY <2>3, <2>6
      <3> QED  BY <2>3, <3>1, <3>2, Flattening
    <2>8. ASSUME NEW c \in ToSet(t) PROVE c \in w.pages /\ w.height[c] + (d + 1) = w.height[r]
      <3>1. PICK j \in DOMAIN s : c \in ToSet(all[j])
        BY <2>3, <2>7
      <3>2. c \in w.pages /\ w.height[s[j]] = w.height[c] + 1 /\ w.height[s[j]] + d = w.height[r]
        BY <2>4, <2>5, <3>1
      <3> QED  BY <1>1, <2>1, <3>2
    <2>9. IsLevel(t, d + 1, w, r)
      BY <2>7, <2>8 DEF IsLevel
    <2> QED  BY <2>1, <2>2, <2>9
  <1>5. P = Nat
    <2>1. P \in SUBSET Nat
      OBVIOUS
    <2> HIDE DEF P
    <2> QED  BY <1>3, <1>4, <2>1, Induction
  <1> QED  BY <1>5

LEMMA ReachedOK ==
    ASSUME NEW w, NEW r, NEW used, Good(w, r, used),
           NEW pgs, NEW may, NEW wide, Tree(pgs, w, may, wide), Readable(pgs)
    PROVE  /\ IsInjective(Reached(pgs, r))
           /\ \A i \in DOMAIN Reached(pgs, r) : Reached(pgs, r)[i] \in w.pages
  <1> DEFINE all == [d \in 1..MaxPages |-> Level(pgs, r, d - 1)]
             t == Reached(pgs, r)
  <1>1. /\ w \in Shapes /\ r \in w.pages /\ \A p \in w.pages : w.height[p] \in Nat
    BY ShapeFacts DEF Good, Rooted
  <1>2. \A d \in Nat : IsLevel(Level(pgs, r, d), d, w, r)
    BY LevelOK
  <1>3. ASSUME NEW d \in 1..MaxPages
        PROVE  /\ all[d] \in Seq(Pages) /\ Ordered(all[d], Distinct)
               /\ \A c \in ToSet(all[d]) : c \in w.pages /\ w.height[c] + (d - 1) = w.height[r]
    <2>1. d - 1 \in Nat
      BY Numbers
    <2> QED  BY <1>2, <2>1 DEF IsLevel
  <1>4. all = [d \in 1..MaxPages |-> all[d]]
    OBVIOUS
  <1>5. t = FlattenSeq(all)
    BY DEF Reached
  <1> HIDE DEF all, t
  <1>6. all \in Seq(Seq(Pages)) /\ DOMAIN all = 1..MaxPages
    BY <1>3, <1>4, SequenceOf, Numbers
  <1>7. ASSUME NEW i \in 1..MaxPages, NEW j \in 1..MaxPages, i < j,
               NEW x \in ToSet(all[i]), NEW y \in ToSet(all[j])
        PROVE  <<x, y>> \in Distinct
    <2>1. /\ x \in w.pages /\ w.height[x] + (i - 1) = w.height[r]
          /\ y \in w.pages /\ w.height[y] + (j - 1) = w.height[r]
      BY <1>3
    <2>2. w.height[x] # w.height[y]
      BY <1>1, <1>7, <2>1
    <2>3. x \in Pages /\ y \in Pages
      BY <1>1, <2>1, ShapeFacts
    <2> QED  BY <2>2, <2>3 DEF Distinct
  <1>8. /\ t \in Seq(Pages) /\ Ordered(t, Distinct)
        /\ ToSet(t) = UNION {ToSet(all[j]) : j \in DOMAIN all}
    <2>1. \A j \in DOMAIN all : Ordered(all[j], Distinct)
      BY <1>3, <1>6
    <2>2. \A i, j \in DOMAIN all : i < j =>
              \A x \in ToSet(all[i]), y \in ToSet(all[j]) : <<x, y>> \in Distinct
      BY <1>6, <1>7
    <2> QED  BY <1>5, <1>6, <2>1, <2>2, Flattening
  <1>9. IsInjective(t)
    <2>1. DOMAIN t = 1..Len(t) /\ Len(t) \in Nat
      BY <1>8, LenProperties
    <2>2. \A a, b \in DOMAIN t : a < b => t[a] # t[b]
      BY <1>8 DEF Ordered, Distinct
    <2>3. \A a, b \in DOMAIN t : a < b \/ b < a \/ a = b
      BY <2>1
    <2> QED  BY <2>2, <2>3 DEF IsInjective
  <1>10. \A i \in DOMAIN t : t[i] \in w.pages
    <2>1. \A i \in DOMAIN t : t[i] \in ToSet(t)
      BY DEF ToSet
    <2>2. ToSet(t) \subseteq w.pages
      BY <1>3, <1>6, <1>8
    <2> QED  BY <2>1, <2>2
  <1> QED  BY <1>9, <1>10 DEF t

LEMMA BalancedOK ==
    ASSUME NEW w, NEW r, NEW used, used <= MaxPages, used \in Nat, Good(w, r, used),
           NEW pgs, NEW may, Tree(pgs, w, may, None), Readable(pgs)
    PROVE  Balanced(pgs, r)
  <1> DEFINE reached == Reached(pgs, r)
             first == CHOOSE k \in Keys : TRUE
             height == Len(Trail(pgs, r, first))
  <1>1. IsInjective(reached) /\ \A i \in DOMAIN reached : reached[i] \in w.pages
    BY ReachedOK
  <1>2. first \in Keys
    BY Numbers
  <1>3. \A k \in Keys : Len(Trail(pgs, r, k)) = w.height[r] + 1
    BY TrailOK
  <1>4. \A k \in Keys : Len(Trail(pgs, r, k)) = height
    BY <1>2, <1>3
  <1>5. ASSUME NEW i \in DOMAIN reached
        PROVE  LET n == pgs[reached[i]]
               IN  IF IsLeaf(n) THEN Len(n.entries) <= Order
                   ELSE /\ Len(n.keys) \in 1..Order
                        /\ Len(n.children) = Len(n.keys) + 1
    <2> DEFINE p == reached[i]
               n == pgs[p]
    <2>1. p \in w.pages
      BY <1>1
    <2> HIDE DEF p
    <2>2. p # None /\ w \in Shapes
      BY <2>1, ShapeFacts, WriteFacts DEF Good
    <2>3. NodeOK(n, p, w, may) /\ SizeOK(n, Order)
      BY <2>1, <2>2 DEF Tree
    <2> HIDE DEF n
    <2>4. CASE w.height[p] = 0
      <3>1. IsLeaf(n)
        BY <2>3, <2>4, LeafFacts DEF NodeOK, LeafOK
      <3> QED  BY <2>3, <3>1 DEF SizeOK, n, p
    <2>5. CASE w.height[p] # 0
      <3>1. InternalOK(n, p, w)
        BY <2>3, <2>5 DEF NodeOK
      <3>2. n \in Internals /\ Len(n.keys) > 0 /\ Len(n.children) = Len(n.keys) + 1
        BY <3>1 DEF InternalOK
      <3>3. ~IsLeaf(n) /\ Len(n.keys) \in Nat
        BY <3>2, InternalFacts
      <3>4. Len(n.keys) \in 1..Order
        BY <2>3, <3>2, <3>3, Numbers DEF SizeOK
      <3> QED  BY <3>2, <3>3, <3>4 DEF n, p
    <2> QED  BY <2>4, <2>5
  <1> HIDE DEF reached, height, first
  <1>6. Balanced(pgs, r) <=>
            /\ IsInjective(reached)
            /\ \A k \in Keys : Len(Trail(pgs, r, k)) = height
            /\ \A i \in DOMAIN reached :
                LET n == pgs[reached[i]]
                IN  IF IsLeaf(n) THEN Len(n.entries) <= Order
                    ELSE /\ Len(n.keys) \in 1..Order
                         /\ Len(n.children) = Len(n.keys) + 1
    BY DEF Balanced, reached, height, first
  <1> QED  BY <1>1, <1>4, <1>5, <1>6

(* StaysBalanced: splitLeaf, splitInternal and insertIntoParent keep a     *)
(* tree. No page is shared or reached twice, every leaf is equally deep,   *)
(* no node exceeds the order, every separator has a child on both sides.   *)
THEOREM TreeIsBalanced == Spec => []StaysBalanced
  <1>1. ASSUME IInv PROVE StaysBalanced
    <2> SUFFICES ASSUME ~cutShort PROVE ViewsHold(Balanced)
      BY DEF StaysBalanced
    <2>1. ASSUME pc = "idle" PROVE Balanced(cache, root)
      <3>1. PICK w : Good(w, root, count - 1) /\ Tree(cache, w, allowed, None)
        BY <1>1, <2>1, WellShaped
      <3>2. count - 1 \in Nat /\ count - 1 <= MaxPages /\ Readable(cache)
        BY <1>1, WellShaped
      <3> QED  BY <3>1, <3>2, BalancedOK
    <2>2. ASSUME pc # "busy", header.root # None PROVE Balanced(file, header.root)
      <3>1. PICK w : Good(w, header.root, header.count - 1) /\ Tree(file, w, allowed, None)
        BY <1>1, <2>2, WellShaped
      <3>2. header.count - 1 \in Nat /\ header.count - 1 <= MaxPages /\ Readable(file)
        BY <1>1, WellShaped
      <3> QED  BY <3>1, <3>2, BalancedOK
    <2> QED  BY <2>1, <2>2 DEF ViewsHold
  <1> QED  BY <1>1, IndInv, PTL

-----------------------------------------------------------------------------
(* Scanning.                                                               *)

(* The way down on the left.                                               *)
LEMMA LeftmostDescends ==
    ASSUME NEW pgs, NEW r \in Pages,
           \A p \in Pages : ~Stops(pgs[p]) => pgs[p].children[1] \in Pages
    PROVE  \E f \in [Nat -> Pages] :
              /\ f[0] = r /\ f[MaxPages] = Leftmost(pgs, r)
              /\ \A d \in Nat : f[d + 1] = IF Stops(pgs[f[d]]) THEN f[d] ELSE pgs[f[d]].children[1]
  <1> DEFINE next(p) == IF Stops(pgs[p]) THEN p ELSE pgs[p].children[1]
             step == [d \in Nat |-> [p \in Pages |-> next(p)]]
             Body(f) == [d \in Nat |-> IF d = 0 THEN r ELSE next(f[d - 1])]
             walk == CHOOSE f : f = Body(f)
  <1>1. \A p \in Pages : next(p) \in Pages
    OBVIOUS
  <1>2. step \in [Nat -> [Pages -> Pages]]
    BY <1>1
  <1>3. PICK g : g \in [Nat -> Pages] /\ g[0] = r /\ \A d \in Nat : g[d + 1] = next(g[d])
    <2>1. \A d \in Nat, p \in Pages : step[d][p] = next(p)
      OBVIOUS
    <2> HIDE DEF step, next
    <2>2. PICK g : IsWalk(g, Pages, r, step)
      BY <1>2, WalkExists
    <2>3. g \in [Nat -> Pages] /\ g[0] = r /\ \A d \in Nat : g[d + 1] = step[d][g[d]]
      BY <2>2 DEF IsWalk
    <2>4. \A d \in Nat : g[d + 1] = next(g[d])
      BY <2>1, <2>3
    <2> QED  BY <2>3, <2>4
  <1> HIDE DEF next, step
  <1>4. g = Body(g)
    <2>1. ASSUME NEW d \in Nat PROVE g[d] = IF d = 0 THEN r ELSE next(g[d - 1])
      <3>1. CASE d = 0
        BY <1>3, <3>1
      <3>2. CASE d # 0
        <4>1. d - 1 \in Nat /\ (d - 1) + 1 = d
          BY <3>2
        <4> QED  BY <1>3, <3>2, <4>1
      <3> QED  BY <3>1, <3>2
    <2>2. g = [d \in Nat |-> g[d]]
      BY <1>3
    <2> QED  BY <2>1, <2>2
  <1>5. walk = Body(walk)
    BY <1>4
  <1>6. Leftmost(pgs, r) = walk[MaxPages]
    BY DEF Leftmost, next
  <1> HIDE DEF walk
  <1>7. walk[0] = r /\ \A d \in Nat : walk[d + 1] = next(walk[d])
    <2>1. \A d \in Nat : walk[d] = IF d = 0 THEN r ELSE next(walk[d - 1])
      BY <1>5
    <2>2. \A d \in Nat : d + 1 \in Nat /\ d + 1 # 0 /\ (d + 1) - 1 = d
      OBVIOUS
    <2> QED  BY <2>1, <2>2
  <1>8. walk \in [Nat -> Pages]
    <2> DEFINE P == {d \in Nat : walk[d] \in Pages}
    <2>1. 0 \in P
      BY <1>7
    <2>2. \A d \in P : d + 1 \in P
      BY <1>1, <1>7
    <2>3. P = Nat
      <3>1. P \in SUBSET Nat
        OBVIOUS
      <3> HIDE DEF P
      <3> QED  BY <2>1, <2>2, <3>1, Induction
    <2>4. walk = [d \in Nat |-> walk[d]]
      <3>1. \A f : Body(f) = [d \in Nat |-> Body(f)[d]]
        OBVIOUS
      <3> QED  BY <1>5, <3>1
    <2> QED  BY <2>3, <2>4
  <1> QED  BY <1>6, <1>7, <1>8 DEF next

(* It ends in the first leaf of the chain.                                 *)
Downward(S) == \A k \in S, l \in Keys : l < k => l \in S

LEMMA LeftmostOK ==
    ASSUME NEW w, NEW r, NEW used, used <= MaxPages, used \in Nat, Good(w, r, used),
           NEW pgs, NEW may, NEW wide, Tree(pgs, w, may, wide), Readable(pgs)
    PROVE  Leftmost(pgs, r) \in LeavesOf(w) /\ w.rank[Leftmost(pgs, r)] = 1
  <1>1. /\ w \in Shapes /\ r \in w.pages /\ w.span[r] = Keys /\ w.height[r] < used
        /\ Apart(w) /\ InOrder(w) /\ r \in Pages
        /\ \A p \in w.pages : p \in Pages /\ w.height[p] \in Nat /\ w.span[p] \in SUBSET Keys
    BY ShapeFacts DEF Good, Rooted
  <1>2. \A p \in Pages : ~Stops(pgs[p]) => pgs[p].children[1] \in Pages
    <2>1. ASSUME NEW p \in Pages, ~Stops(pgs[p]) PROVE pgs[p].children[1] \in Pages
      <3>1. pgs[p] \in Internals /\ pgs[p].children # <<>>
        BY <2>1, LeafFacts DEF Readable, Stops
      <3>2. pgs[p].children \in Seq(Pages) /\ Len(pgs[p].children) \in Nat
            /\ DOMAIN pgs[p].children = 1..Len(pgs[p].children)
            /\ \A i \in DOMAIN pgs[p].children : pgs[p].children[i] \in Pages
        BY <3>1, InternalFacts
      <3>3. 1 \in DOMAIN pgs[p].children
        BY <3>1, <3>2, EmptySeq
      <3> QED  BY <3>2, <3>3
    <2> QED  BY <2>1
  <1>3. PICK f \in [Nat -> Pages] :
              /\ f[0] = r /\ f[MaxPages] = Leftmost(pgs, r)
              /\ \A d \in Nat : f[d + 1] = IF Stops(pgs[f[d]]) THEN f[d] ELSE pgs[f[d]].children[1]
    BY <1>1, <1>2, LeftmostDescends
  <1> DEFINE h == w.height[r]
             P == {d \in Nat : /\ f[d] \in w.pages /\ Downward(w.span[f[d]])
                               /\ w.height[f[d]] = IF d <= h THEN h - d ELSE 0}
  <1>4. 0 \in P
    <2>1. Downward(Keys)
      BY DEF Downward
    <2>2. 0 <= h /\ h - 0 = h
      BY <1>1
    <2> QED  BY <1>1, <1>3, <2>1, <2>2
  <1>5. ASSUME NEW d \in P PROVE d + 1 \in P
    <2> DEFINE p == f[d]
    <2>1. d \in Nat /\ p \in w.pages /\ Downward(w.span[p]) /\ h \in Nat
          /\ w.height[p] = IF d <= h THEN h - d ELSE 0
      BY <1>1
    <2>2. f[d + 1] = IF Stops(pgs[p]) THEN p ELSE pgs[p].children[1]
      BY <1>3
    <2> HIDE DEF p, h
    <2>3. CASE w.height[p] = 0
      <3>1. Stops(pgs[p])
        BY <1>1, <2>1, <2>3, NodesOfTree
      <3>2. w.height[p] = IF d + 1 <= h THEN h - (d + 1) ELSE 0
        BY <2>1, <2>3
      <3> QED  BY <2>1, <2>2, <3>1, <3>2
    <2>4. CASE w.height[p] # 0
      <3> DEFINE c == pgs[p].children[1]
                 keys == pgs[p].keys
      <3>1. InternalOK(pgs[p], p, w) /\ ~Stops(pgs[p])
        BY <1>1, <2>1, <2>4, NodesOfTree
      <3>2. /\ pgs[p] \in Internals /\ KeysOf(keys) /\ Len(keys) > 0
            /\ Len(pgs[p].children) = Len(keys) + 1
            /\ \A i \in DOMAIN pgs[p].children :
                  /\ pgs[p].children[i] \in w.pages
                  /\ w.height[p] = w.height[pgs[p].children[i]] + 1
                  /\ w.span[pgs[p].children[i]] = Share(keys, w.span[p], i)
        BY <3>1 DEF InternalOK
      <3>3. 1 \in DOMAIN pgs[p].children /\ 1 \in 1..Len(keys)
        BY <3>2, InternalFacts
      <3>4. c \in w.pages /\ w.height[p] = w.height[c] + 1 /\ w.span[c] = Share(keys, w.span[p], 1)
        BY <3>2, <3>3
      <3>5. keys[1] \in Int
        BY <3>2, <3>3, KeyFacts
      <3> HIDE DEF c, keys
      <3>6. Downward(w.span[c])
        <4>1. w.span[c] = {k \in w.span[p] : k < keys[1]}
          BY <3>3, <3>4 DEF Share
        <4>2. \A k \in Keys : k \in Int
          BY Numbers
        <4>3. ASSUME NEW k \in w.span[c], NEW l \in Keys, l < k PROVE l \in w.span[c]
          <5>1. k \in w.span[p] /\ k < keys[1] /\ k \in Int /\ l \in Int
            BY <1>1, <2>1, <4>1, <4>2
          <5>2. l < keys[1]
            BY <3>5, <4>3, <5>1
          <5> QED  BY <2>1, <4>1, <4>3, <5>1, <5>2 DEF Downward
        <4> QED  BY <4>3 DEF Downward
      <3>7. w.height[c] = IF d + 1 <= h THEN h - (d + 1) ELSE 0
        <4>1. w.height[c] \in Nat
          BY <1>1, <3>4
        <4> QED  BY <2>1, <2>4, <3>4, <4>1
      <3>8. f[d + 1] = c
        BY <2>2, <3>1 DEF c
      <3> QED  BY <2>1, <3>4, <3>6, <3>7, <3>8
    <2> QED  BY <2>3, <2>4
  <1>6. P = Nat
    <2>1. P \in SUBSET Nat
      OBVIOUS
    <2> HIDE DEF P
    <2> QED  BY <1>4, <1>5, <2>1, Induction
  <1>7. MaxPages \in P
    BY <1>6, Numbers
  <1> DEFINE q == Leftmost(pgs, r)
  <1>8. q \in w.pages /\ Downward(w.span[q]) /\ w.height[q] = 0
    <2>1. ~(MaxPages <= h)
      BY <1>1, Numbers
    <2> QED  BY <1>3, <1>7, <2>1
  <1> HIDE DEF q, h, P
  <1>9. q \in LeavesOf(w)
    BY <1>8 DEF LeavesOf
  <1>10. PICK p \in LeavesOf(w) : w.rank[p] = 1
    BY <1>1 DEF InOrder
  <1>11. ASSUME w.rank[q] # 1 PROVE FALSE
    <2>1. w.rank[q] \in 1..w.leaves /\ w.leaves \in Nat
      BY <1>1, <1>9, ShapeFacts DEF InOrder
    <2>2. w.rank[p] < w.rank[q] /\ p # q
      BY <1>10, <1>11, <2>1
    <2>3. Before(w.span[p], w.span[q])
      BY <1>1, <1>9, <2>2 DEF InOrder
    <2>4. p \in w.pages /\ w.height[p] = 0
      BY DEF LeavesOf
    <2>5. PICK k \in w.span[q] : TRUE
      BY <1>1, <1>8 DEF Apart
    <2>6. PICK l \in w.span[p] : TRUE
      BY <1>1, <2>4 DEF Apart
    <2>7. l < k /\ l \in Keys
      BY <1>1, <2>3, <2>4 DEF Before
    <2>8. l \in w.span[q]
      BY <1>8, <2>7 DEF Downward
    <2> QED  BY <1>1, <1>8, <2>2, <2>4, <2>8 DEF Apart
  <1> QED  BY <1>9, <1>11 DEF q

(* The chain, one leaf longer with each step until it ends.                *)
Follows(f, pgs, r, Q) ==
    /\ f \in [Nat -> Seq(Q) \ {<<>>}]
    /\ f[0] = <<Leftmost(pgs, r)>> /\ f[MaxPages] = Chain(pgs, r)
    /\ \A d \in Nat : f[d + 1] = IF pgs[Last(f[d])].next = None THEN f[d]
                                 ELSE Append(f[d], pgs[Last(f[d])].next)

LEMMA ChainDescends ==
    ASSUME NEW pgs, NEW r, NEW Q, Leftmost(pgs, r) \in Q,
           \A q \in Q : pgs[q].next = None \/ pgs[q].next \in Q
    PROVE  \E f : Follows(f, pgs, r, Q)
  <1> DEFINE S == Seq(Q) \ {<<>>}
             first == <<Leftmost(pgs, r)>>
             next(c) == IF pgs[Last(c)].next = None THEN c ELSE Append(c, pgs[Last(c)].next)
             step == [d \in Nat |-> [c \in S |-> next(c)]]
             Body(f) == [d \in Nat |-> IF d = 0 THEN <<Leftmost(pgs, r)>> ELSE next(f[d - 1])]
             walk == CHOOSE f : f = Body(f)
  <1>1. first \in S
    OBVIOUS
  <1>2. \A c \in S : next(c) \in S
    <2>1. ASSUME NEW c \in S PROVE next(c) \in S
      <3>1. c \in Seq(Q) /\ Last(c) \in Q
        BY FrontProperties
      <3>2. CASE pgs[Last(c)].next = None
        BY <3>2
      <3>3. CASE pgs[Last(c)].next # None
        <4>1. pgs[Last(c)].next \in Q
          BY <3>1, <3>3
        <4>2. \A e \in Q : Append(c, e) \in Seq(Q) /\ Append(c, e) # <<>>
          BY <3>1, AppendProperties
        <4> QED  BY <3>3, <4>1, <4>2
      <3> QED  BY <3>2, <3>3
    <2> QED  BY <2>1
  <1> HIDE DEF next, S, first
  <1>3. step \in [Nat -> [S -> S]]
    BY <1>2
  <1>4. PICK g : g \in [Nat -> S] /\ g[0] = first /\ \A d \in Nat : g[d + 1] = next(g[d])
    <2>1. \A d \in Nat, c \in S : step[d][c] = next(c)
      OBVIOUS
    <2> HIDE DEF step
    <2>2. PICK g : IsWalk(g, S, first, step)
      BY <1>1, <1>3, WalkExists
    <2>3. g \in [Nat -> S] /\ g[0] = first /\ \A d \in Nat : g[d + 1] = step[d][g[d]]
      BY <2>2 DEF IsWalk
    <2>4. \A d \in Nat : g[d + 1] = next(g[d])
      BY <2>1, <2>3
    <2> QED  BY <2>3, <2>4
  <1> HIDE DEF step
  <1>5. g = Body(g)
    <2>1. ASSUME NEW d \in Nat PROVE g[d] = IF d = 0 THEN first ELSE next(g[d - 1])
      <3>1. CASE d = 0
        BY <1>4, <3>1
      <3>2. CASE d # 0
        <4>1. d - 1 \in Nat /\ (d - 1) + 1 = d
          BY <3>2
        <4> QED  BY <1>4, <3>2, <4>1
      <3> QED  BY <3>1, <3>2
    <2>2. g = [d \in Nat |-> g[d]]
      BY <1>4
    <2> QED  BY <2>1, <2>2 DEF first
  <1>6. walk = Body(walk)
    BY <1>5
  <1>7. Chain(pgs, r) = walk[MaxPages]
    BY DEF Chain, next
  <1> HIDE DEF walk
  <1>8. walk[0] = first /\ \A d \in Nat : walk[d + 1] = next(walk[d])
    <2>1. \A d \in Nat : walk[d] = IF d = 0 THEN first ELSE next(walk[d - 1])
      BY <1>6 DEF first
    <2>2. \A d \in Nat : d + 1 \in Nat /\ d + 1 # 0 /\ (d + 1) - 1 = d
      OBVIOUS
    <2> QED  BY <2>1, <2>2
  <1>9. walk \in [Nat -> S]
    <2> DEFINE P == {d \in Nat : walk[d] \in S}
    <2>1. 0 \in P
      BY <1>1, <1>8
    <2>2. \A d \in P : d + 1 \in P
      BY <1>2, <1>8
    <2>3. P = Nat
      <3>1. P \in SUBSET Nat
        OBVIOUS
      <3> HIDE DEF P
      <3> QED  BY <2>1, <2>2, <3>1, Induction
    <2>4. walk = [d \in Nat |-> walk[d]]
      <3>1. \A f : Body(f) = [d \in Nat |-> Body(f)[d]]
        OBVIOUS
      <3> QED  BY <1>6, <3>1
    <2> QED  BY <2>3, <2>4
  <1>10. Follows(walk, pgs, r, Q)
    BY <1>7, <1>8, <1>9 DEF next, S, first, Follows
  <1> QED  BY <1>10

(* FullScan visits every leaf, in the order of the ranks.                  *)
LEMMA ChainOK ==
    ASSUME NEW w, NEW r, NEW used, used <= MaxPages, used \in Nat, Good(w, r, used),
           NEW pgs, NEW may, NEW wide, Tree(pgs, w, may, wide), Readable(pgs)
    PROVE  LET c == Chain(pgs, r)
           IN  /\ DOMAIN c = 1..w.leaves /\ w.leaves \in Nat
               /\ \A i \in 1..w.leaves : c[i] \in LeavesOf(w) /\ w.rank[c[i]] = i
               /\ \A q \in LeavesOf(w) : w.rank[q] \in 1..w.leaves /\ c[w.rank[q]] = q
  <1> DEFINE Q == LeavesOf(w)
             n == w.leaves
  <1>1. /\ w \in Shapes /\ n \in Nat /\ n <= MaxPages /\ InOrder(w)
        /\ \A q \in Q : q \in w.pages /\ w.height[q] = 0 /\ w.rank[q] \in 1..n
        /\ \A p, q \in Q : w.rank[p] = w.rank[q] => p = q
    BY ShapeFacts, Numbers DEF Good, Rooted, InOrder, LeavesOf
  <1>2. Leftmost(pgs, r) \in Q /\ w.rank[Leftmost(pgs, r)] = 1
    BY LeftmostOK
  <1>3. ASSUME NEW q \in Q
        PROVE  IF w.rank[q] = n THEN pgs[q].next = None
               ELSE pgs[q].next \in Q /\ w.rank[pgs[q].next] = w.rank[q] + 1
                    /\ pgs[q].next # None
    <2>1. LinkOK(pgs[q], q, w)
      BY <1>1 DEF Tree, NodeOK
    <2>2. \A s \in Q : s # None
      BY <1>1, ShapeFacts, WriteFacts
    <2> QED  BY <2>1, <2>2 DEF LinkOK
  <1>4. \A q \in Q : pgs[q].next = None \/ pgs[q].next \in Q
    BY <1>3
  <1> HIDE DEF Q, n
  <1>0. PICK f : Follows(f, pgs, r, Q)
    BY <1>2, <1>4, ChainDescends
  <1>5. /\ f \in [Nat -> Seq(Q) \ {<<>>}]
        /\ f[0] = <<Leftmost(pgs, r)>> /\ f[MaxPages] = Chain(pgs, r)
        /\ \A d \in Nat : f[d + 1] = IF pgs[Last(f[d])].next = None THEN f[d]
                                     ELSE Append(f[d], pgs[Last(f[d])].next)
    BY <1>0 DEF Follows
  <1>6. n > 0
    BY <1>1, <1>2
  <1> DEFINE P == {d \in Nat : /\ Len(f[d]) = IF d < n THEN d + 1 ELSE n
                               /\ \A i \in DOMAIN f[d] : f[d][i] \in Q /\ w.rank[f[d][i]] = i}
  <1>7. 0 \in P
    <2> DEFINE x == Leftmost(pgs, r)
    <2> HIDE DEF x
    <2>1. f[0] = <<x>> /\ x \in Q /\ w.rank[x] = 1
      BY <1>2, <1>5 DEF x
    <2>2. Len(<<x>>) = 1 /\ DOMAIN <<x>> = {1} /\ <<x>>[1] = x
      OBVIOUS
    <2>3. 1 = IF 0 < n THEN 0 + 1 ELSE n
      BY <1>1, <1>6
    <2> QED  BY <2>1, <2>2, <2>3
  <1>8. ASSUME NEW d \in P PROVE d + 1 \in P
    <2> DEFINE c == f[d]
               q == Last(c)
               m == Len(c)
    <2>0. d \in Nat /\ f[d] \in Seq(Q) \ {<<>>}
      BY <1>5
    <2>1. /\ d \in Nat /\ m = (IF d < n THEN d + 1 ELSE n) /\ c \in Seq(Q) /\ c # <<>>
          /\ \A i \in DOMAIN c : c[i] \in Q /\ w.rank[c[i]] = i
      BY <2>0
    <2>2. f[d + 1] = IF pgs[q].next = None THEN c ELSE Append(c, pgs[q].next)
      BY <1>5
    <2> HIDE DEF c
    <2>3. m \in Nat /\ m # 0 /\ DOMAIN c = 1..m /\ q = c[m] /\ m \in DOMAIN c
      <3>1. m \in Nat /\ m # 0 /\ DOMAIN c = 1..m
        BY <2>1, LenProperties, EmptySeq
      <3> QED  BY <3>1 DEF Last
    <2>4. q \in Q /\ w.rank[q] = m
      BY <2>1, <2>3
    <2>5. m \in 1..n
      BY <1>1, <2>4
    <2> HIDE DEF q
    <2>6. CASE m = n
      <3>1. f[d + 1] = c
        BY <1>3, <2>2, <2>4, <2>6
      <3>2. m = IF d + 1 < n THEN (d + 1) + 1 ELSE n
        BY <1>1, <2>1, <2>6
      <3>3. Len(f[d + 1]) = IF d + 1 < n THEN (d + 1) + 1 ELSE n
        BY <3>1, <3>2
      <3>4. \A i \in DOMAIN f[d + 1] : f[d + 1][i] \in Q /\ w.rank[f[d + 1][i]] = i
        BY <2>1, <3>1
      <3>5. d + 1 \in Nat
        BY <2>1
      <3> QED  BY <3>3, <3>4, <3>5
    <2>7. CASE m # n
      <3> DEFINE x == pgs[q].next
                 u == Append(c, x)
      <3>1. x \in Q /\ w.rank[x] = m + 1 /\ x # None
        BY <1>3, <2>4, <2>7
      <3>2. f[d + 1] = u
        BY <2>2, <3>1
      <3> HIDE DEF x
      <3>3. /\ u \in Seq(Q) /\ Len(u) = m + 1
            /\ \A i \in 1..m : u[i] = c[i]
            /\ u[m + 1] = x
        <4>1. c \in Seq(Q) /\ x \in Q
          BY <2>1, <3>1
        <4> QED  BY <4>1, AppendProperties
      <3> HIDE DEF u, m
      <3>4. DOMAIN u = 1..(m + 1)
        BY <3>3, LenProperties
      <3>5. m + 1 = IF d + 1 < n THEN (d + 1) + 1 ELSE n
        BY <1>1, <2>1, <2>5, <2>7
      <3>6. ASSUME NEW i \in 1..(m + 1) PROVE u[i] \in Q /\ w.rank[u[i]] = i
        <4>1. CASE i = m + 1
          BY <3>1, <3>3, <4>1
        <4>2. CASE i # m + 1
          <5>1. i \in 1..m
            BY <2>3, <4>2
          <5> QED  BY <2>1, <2>3, <3>3, <5>1
        <4> QED  BY <4>1, <4>2
      <3>7. Len(f[d + 1]) = IF d + 1 < n THEN (d + 1) + 1 ELSE n
        BY <3>2, <3>3, <3>5
      <3>8. \A i \in DOMAIN f[d + 1] : f[d + 1][i] \in Q /\ w.rank[f[d + 1][i]] = i
        BY <3>2, <3>4, <3>6
      <3>9. d + 1 \in Nat
        BY <2>1
      <3> QED  BY <3>7, <3>8, <3>9
    <2> QED  BY <2>6, <2>7
  <1>9. P = Nat
    <2>1. P \in SUBSET Nat
      OBVIOUS
    <2> HIDE DEF P
    <2> QED  BY <1>7, <1>8, <2>1, Induction
  <1>10. MaxPages \in P
    BY <1>9, Numbers
  <1> DEFINE c == Chain(pgs, r)
  <1>11. /\ Len(c) = n /\ c \in Seq(Q)
         /\ \A i \in DOMAIN c : c[i] \in Q /\ w.rank[c[i]] = i
    <2>1. ~(MaxPages < n)
      BY <1>1, Numbers
    <2>2. f[MaxPages] \in Seq(Q)
      BY <1>5, Numbers
    <2> QED  BY <1>5, <1>10, <2>1, <2>2
  <1> HIDE DEF c, P
  <1>12. DOMAIN c = 1..n
    BY <1>11, LenProperties
  <1>13. ASSUME NEW q \in Q PROVE w.rank[q] \in 1..n /\ c[w.rank[q]] = q
    BY <1>1, <1>11, <1>12
  <1> QED  BY <1>1, <1>11, <1>12, <1>13 DEF c, Q, n


(* What FullScan finds: the entries of the leaves, in the order of the     *)
(* keys.                                                                   *)
ByKey == {x \in Entries \X Entries : x[1].key < x[2].key}

LEMMA FullScanOK ==
    ASSUME NEW w, NEW r, NEW used, used <= MaxPages, used \in Nat, Good(w, r, used),
           NEW pgs, NEW may, NEW wide, Tree(pgs, w, may, wide), Readable(pgs)
    PROVE  /\ FullScan(pgs, r) \in Seq(Entries) /\ Ordered(FullScan(pgs, r), ByKey)
           /\ ToSet(FullScan(pgs, r)) = UNION {ToSet(pgs[q].entries) : q \in LeavesOf(w)}
  <1> DEFINE c == Chain(pgs, r)
             n == w.leaves
             s == [i \in DOMAIN c |-> pgs[c[i]].entries]
  <1>1. /\ DOMAIN c = 1..n /\ n \in Nat
        /\ \A i \in 1..n : c[i] \in LeavesOf(w) /\ w.rank[c[i]] = i
        /\ \A q \in LeavesOf(w) : w.rank[q] \in 1..n /\ c[w.rank[q]] = q
    BY ChainOK
  <1>2. FullScan(pgs, r) = FlattenSeq(s)
    BY DEF FullScan
  <1> HIDE DEF c
  <1>3. w \in Shapes /\ InOrder(w)
    BY DEF Good
  <1>4. \A q \in LeavesOf(w) : EntriesOK(pgs[q].entries, w.span[q], may)
                               /\ w.span[q] \in SUBSET Keys
    BY <1>3, ShapeFacts DEF Tree, NodeOK, LeafOK, LeavesOf
  <1>5. \A i \in 1..n : s[i] = pgs[c[i]].entries
    BY <1>1
  <1>6. s = [i \in 1..n |-> s[i]]
    BY <1>1
  <1> HIDE DEF s, n
  <1>7. ASSUME NEW i \in 1..n
        PROVE  /\ s[i] \in Seq(Entries) /\ Ordered(s[i], ByKey)
               /\ \A x \in ToSet(s[i]) : x \in Entries /\ x.key \in w.span[c[i]]
    <2>1. EntriesOK(s[i], w.span[c[i]], may)
      BY <1>1, <1>4, <1>5
    <2>2. s[i] \in Seq(Entries)
      BY <2>1 DEF EntriesOK
    <2>3. \A j \in DOMAIN s[i] : s[i][j] \in Entries
      BY <2>2, EntryFacts
    <2>4. ASSUME NEW a \in DOMAIN s[i], NEW b \in DOMAIN s[i], a < b
          PROVE  <<s[i][a], s[i][b]>> \in ByKey
      <3>1. s[i][a].key < s[i][b].key
        BY <2>1, <2>4 DEF EntriesOK
      <3> QED  BY <2>3, <3>1 DEF ByKey
    <2> QED  BY <2>1, <2>2, <2>3, <2>4 DEF Ordered, EntriesOK, ToSet
  <1>8. s \in Seq(Seq(Entries)) /\ DOMAIN s = 1..n
    <2> DEFINE X == Seq(Entries)
    <2>1. n \in Nat /\ \A i \in 1..n : s[i] \in X
      BY <1>1, <1>7
    <2> HIDE DEF X
    <2>2. s \in Seq(X) /\ DOMAIN s = 1..n
      BY <1>6, <2>1, SequenceOf
    <2> QED  BY <2>2 DEF X
  <1>9. ASSUME NEW i \in 1..n, NEW j \in 1..n, i < j, NEW x \in ToSet(s[i]), NEW y \in ToSet(s[j])
        PROVE  <<x, y>> \in ByKey
    <2>1. Before(w.span[c[i]], w.span[c[j]])
      BY <1>1, <1>3, <1>9 DEF InOrder
    <2>2. x.key < y.key
      BY <1>7, <2>1 DEF Before
    <2> QED  BY <1>7, <2>2 DEF ByKey
  <1>10. /\ FlattenSeq(s) \in Seq(Entries) /\ Ordered(FlattenSeq(s), ByKey)
         /\ ToSet(FlattenSeq(s)) = UNION {ToSet(s[j]) : j \in DOMAIN s}
    BY <1>7, <1>8, <1>9, Flattening
  <1>11. {ToSet(s[j]) : j \in DOMAIN s} = {ToSet(pgs[q].entries) : q \in LeavesOf(w)}
    <2>1. \A j \in DOMAIN s : c[j] \in LeavesOf(w) /\ ToSet(s[j]) = ToSet(pgs[c[j]].entries)
      BY <1>1, <1>5, <1>8
    <2>2. \A q \in LeavesOf(w) : w.rank[q] \in DOMAIN s /\ ToSet(s[w.rank[q]]) = ToSet(pgs[q].entries)
      BY <1>1, <1>5, <1>8
    <2> QED  BY <2>1, <2>2
  <1> QED  BY <1>2, <1>10, <1>11

(* What Get finds: the entry of the leaf where the key belongs.            *)
LEMMA GetIs ==
    ASSUME NEW w, NEW r, NEW used, used <= MaxPages, used \in Nat, Good(w, r, used),
           NEW pgs, NEW may, NEW wide, Tree(pgs, w, may, wide), Readable(pgs),
           NEW q \in LeavesOf(w), NEW k \in w.span[q]
    PROVE  Get(pgs, r, k) = IF HasKey(pgs[q], k) THEN pgs[q].entries[At(pgs[q], k)].val
                            ELSE NoValue
  <1>1. w \in Shapes /\ Apart(w) /\ q \in w.pages /\ w.height[q] = 0
    BY DEF Good, LeavesOf
  <1>2. k \in Keys
    BY <1>1, ShapeFacts
  <1> DEFINE p == Last(Trail(pgs, r, k))
  <1>3. p \in LeavesOf(w) /\ k \in w.span[p]
    BY <1>2, TrailOK
  <1>4. Get(pgs, r, k) = IF IsLeaf(pgs[p]) /\ HasKey(pgs[p], k)
                         THEN pgs[p].entries[At(pgs[p], k)].val ELSE NoValue
    BY DEF Get
  <1> HIDE DEF p
  <1>5. p = q
    BY <1>1, <1>3 DEF Apart, LeavesOf
  <1>6. IsLeaf(pgs[q])
    BY <1>1, NodesOfTree, LeafFacts
  <1> QED  BY <1>4, <1>5, <1>6

LEMMA ScanOK ==
    ASSUME NEW w, NEW r, NEW used, used <= MaxPages, used \in Nat, Good(w, r, used),
           NEW pgs, NEW may, NEW wide, Tree(pgs, w, may, wide), Readable(pgs)
    PROVE  ScansWhatItGets(pgs, r)
  <1> DEFINE found == FullScan(pgs, r)
             there == {Entry(k, Get(pgs, r, k)) : k \in {x \in Keys : Get(pgs, r, x) # NoValue}}
  <1>1. /\ found \in Seq(Entries) /\ Ordered(found, ByKey)
        /\ ToSet(found) = UNION {ToSet(pgs[q].entries) : q \in LeavesOf(w)}
    BY FullScanOK
  <1>2. ScansWhatItGets(pgs, r) <=>
            /\ \A i, j \in DOMAIN found : i < j => found[i].key < found[j].key
            /\ ToSet(found) = there
    BY DEF ScansWhatItGets
  <1> HIDE DEF found
  <1>3. ASSUME NEW i \in DOMAIN found, NEW j \in DOMAIN found, i < j
        PROVE  found[i].key < found[j].key
    <2> DEFINE x == found[i]
               y == found[j]
    <2>1. <<x, y>> \in ByKey
      BY <1>1, <1>3 DEF Ordered
    <2> HIDE DEF x, y
    <2>2. x.key < y.key
      BY <2>1 DEF ByKey
    <2> QED  BY <2>2 DEF x, y
  <1>4. ASSUME NEW q \in LeavesOf(w)
        PROVE  /\ EntriesOK(pgs[q].entries, w.span[q], may) /\ w.span[q] \in SUBSET Keys
               /\ \A k \in w.span[q] :
                    Get(pgs, r, k) = IF HasKey(pgs[q], k) THEN pgs[q].entries[At(pgs[q], k)].val
                                     ELSE NoValue
    <2>1. EntriesOK(pgs[q].entries, w.span[q], may) /\ w.span[q] \in SUBSET Keys
      BY ShapeFacts DEF Good, Tree, NodeOK, LeafOK, LeavesOf
    <2> QED  BY <2>1, GetIs
  <1>5. ASSUME NEW q \in LeavesOf(w), NEW e \in ToSet(pgs[q].entries) PROVE e \in there
    <2> DEFINE entries == pgs[q].entries
    <2>1. PICK i \in DOMAIN entries : e = entries[i]
      BY <1>5 DEF ToSet
    <2>2. entries \in Seq(Entries)
      BY <1>4 DEF EntriesOK
    <2>3. e \in Entries /\ e.key \in w.span[q]
      BY <1>4, <2>1, <2>2, EntryFacts DEF EntriesOK
    <2>4. HasKey(pgs[q], e.key)
      BY <2>1 DEF HasKey
    <2> DEFINE a == At(pgs[q], e.key)
    <2>5. a \in DOMAIN entries /\ entries[a].key = e.key
      BY <2>4, AtIsThere
    <2>6. a = i
      <3>1. ~(entries[a].key < entries[i].key) /\ ~(entries[i].key < entries[a].key)
        BY <2>1, <2>2, <2>5, EntryFacts
      <3>2. ~(a < i) /\ ~(i < a)
        BY <1>4, <2>1, <2>5, <3>1 DEF EntriesOK
      <3>3. a \in Nat /\ i \in Nat
        BY <2>1, <2>2, <2>5, EntryFacts
      <3> QED  BY <3>2, <3>3
    <2>7. Get(pgs, r, e.key) = e.val
      BY <1>4, <2>1, <2>3, <2>4, <2>6
    <2> HIDE DEF entries, a
    <2>8. e = Entry(e.key, e.val) /\ e.val # NoValue /\ e.key \in Keys
      BY <2>3, Numbers DEF Entries, Entry
    <2> QED  BY <2>7, <2>8
  <1>6. ASSUME NEW k \in Keys, Get(pgs, r, k) # NoValue
        PROVE  \E q \in LeavesOf(w) : Entry(k, Get(pgs, r, k)) \in ToSet(pgs[q].entries)
    <2> DEFINE q == Last(Trail(pgs, r, k))
    <2>1. q \in LeavesOf(w) /\ k \in w.span[q]
      BY TrailOK
    <2> HIDE DEF q
    <2> DEFINE entries == pgs[q].entries
               a == At(pgs[q], k)
    <2>2. HasKey(pgs[q], k) /\ Get(pgs, r, k) = entries[a].val
      BY <1>4, <1>6, <2>1
    <2>3. a \in DOMAIN entries /\ entries[a].key = k
      BY <2>2, AtIsThere
    <2>4. entries[a] \in Entries
      <3>1. entries \in Seq(Entries)
        BY <1>4, <2>1 DEF EntriesOK
      <3> HIDE DEF entries, a
      <3> QED  BY <2>3, <3>1, EntryFacts
    <2>5. entries[a] = Entry(k, Get(pgs, r, k))
      <3> DEFINE e == entries[a]
      <3>1. e \in Entries /\ e.key = k /\ e.val = Get(pgs, r, k)
        BY <2>2, <2>3, <2>4
      <3> HIDE DEF e
      <3>2. e = Entry(k, Get(pgs, r, k))
        BY <3>1 DEF Entries, Entry
      <3> QED  BY <3>2 DEF e
    <2>6. entries[a] \in ToSet(entries)
      BY <2>3 DEF ToSet
    <2> QED  BY <2>1, <2>5, <2>6
  <1> HIDE DEF there
  <1>7. ToSet(found) \subseteq there
    BY <1>1, <1>5
  <1>8. there \subseteq ToSet(found)
    BY <1>1, <1>6 DEF there
  <1> QED  BY <1>2, <1>3, <1>7, <1>8

(* ScanAgreesWithGet: FullScan and RangeScan, which follow the chain of    *)
(* the leaves, find in the order of the keys, once each, the keys and      *)
(* values BTree.Get finds by way of the separators.                        *)
THEOREM ScansInOrder == Spec => []ScanAgreesWithGet
  <1>1. ASSUME IInv PROVE ScanAgreesWithGet
    <2> SUFFICES ASSUME ~cutShort PROVE ViewsHold(ScansWhatItGets)
      BY DEF ScanAgreesWithGet
    <2>1. ASSUME pc = "idle" PROVE ScansWhatItGets(cache, root)
      <3>1. PICK w : Good(w, root, count - 1) /\ Tree(cache, w, allowed, None)
        BY <1>1, <2>1, WellShaped
      <3>2. count - 1 \in Nat /\ count - 1 <= MaxPages /\ Readable(cache)
        BY <1>1, WellShaped
      <3> QED  BY <3>1, <3>2, ScanOK
    <2>2. ASSUME pc # "busy", header.root # None PROVE ScansWhatItGets(file, header.root)
      <3>1. PICK w : Good(w, header.root, header.count - 1) /\ Tree(file, w, allowed, None)
        BY <1>1, <2>2, WellShaped
      <3>2. header.count - 1 \in Nat /\ header.count - 1 <= MaxPages /\ Readable(file)
        BY <1>1, WellShaped
      <3> QED  BY <3>1, <3>2, ScanOK
    <2> QED  BY <2>1, <2>2 DEF ViewsHold
  <1> QED  BY <1>1, IndInv, PTL
=============================================================================
