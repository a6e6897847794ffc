--------------------------- MODULE WaitlistProofs ---------------------------
(***************************************************************************)
(* What holds of the waitlist for any number of browsers, emails and       *)
(* requests served side by side, and whatever is deleted, edited and       *)
(* stored again meanwhile.                                                 *)
(***************************************************************************)
EXTENDS Site, FiniteSetTheorems, SequenceTheorems, WellFoundedInduction, TLAPS

-----------------------------------------------------------------------------
(* The next position is larger than all there are. Of finitely many rows   *)
(* one has the fewest rows behind it, and it has none.                     *)
LEMMA LastRow ==
    ASSUME NEW T, IsFiniteSet(T), T # {}, \A x \in T : x.position \in Nat
    PROVE  \E last \in T : \A x \in T : x.position <= last.position
  <1> DEFINE Behind(x) == {y \in T : y.position > x.position}
             All == {Behind(x) : x \in T}
  <1>1. All \subseteq FiniteSubsetsOf(T) /\ All # {}
    <2>1. \A x \in T : Behind(x) \in SUBSET T
      OBVIOUS
    <2>2. \A x \in T : IsFiniteSet(Behind(x))
      BY <2>1, FS_Subset
    <2> QED  BY <2>1, <2>2 DEF FiniteSubsetsOf
  <1>2. IsWellFoundedOn(StrictSubsetOrdering(T), FiniteSubsetsOf(T))
    BY FS_StrictSubsetOrderingWellFounded
  <1> HIDE DEF All
  <1>3. \E X \in All : \A Y \in All : <<Y, X>> \notin StrictSubsetOrdering(T)
    BY <1>1, <1>2, WFMin
  <1>4. PICK last \in T : \A y \in T : <<Behind(y), Behind(last)>> \notin StrictSubsetOrdering(T)
    BY <1>3 DEF All
  <1>5. ASSUME NEW y \in T, y.position > last.position PROVE FALSE
    <2>1. Behind(y) \subseteq Behind(last) /\ y \in Behind(last) /\ y \notin Behind(y)
      BY <1>5
    <2>2. <<Behind(y), Behind(last)>> \in StrictSubsetOrdering(T)
      BY <2>1 DEF StrictSubsetOrdering
    <2> QED  BY <2>2, <1>4
  <1> QED  BY <1>4, <1>5

LEMMA NextIsLarger ==
    ASSUME IsFiniteSet(joined), \A x \in joined : x.position \in Nat
    PROVE  /\ Signup!NextPosition \in Nat \ {0}
           /\ \A x \in joined : x.position < Signup!NextPosition
  <1> DEFINE S == {user.position : user \in joined}
  <1>1. \E n \in S \cup {0} : \A m \in S : m <= n
    <2>1. CASE joined = {}
      BY <2>1
    <2>2. CASE joined # {}
      <3>1. PICK last \in joined : \A x \in joined : x.position <= last.position
        BY <2>2, LastRow
      <3> QED  BY <3>1
    <2> QED  BY <2>1, <2>2
  <1> DEFINE max == CHOOSE n \in S \cup {0} : \A m \in S : m <= n
  <1>2. Signup!NextPosition = max + 1
    BY DEF Signup!NextPosition, Signup!Max
  <1>3. S \subseteq Nat /\ \A x \in joined : x.position \in S
    OBVIOUS
  <1> HIDE DEF S
  <1>4. max \in S \cup {0} /\ \A m \in S : m <= max
    BY <1>1
  <1> HIDE DEF max
  <1>5. max \in Nat
    BY <1>3, <1>4
  <1>6. ASSUME NEW x \in joined PROVE x.position < Signup!NextPosition
    <2>1. x.position \in Nat /\ x.position <= max
      BY <1>3, <1>4
    <2> QED  BY <2>1, <1>2, <1>5
  <1> QED  BY <1>2, <1>5, <1>6

-----------------------------------------------------------------------------
(* Types; and the table is finite, so that there is a largest position.    *)

TypeInv == Signup!TypeOK /\ IsFiniteSet(joined)

LEMMA InitTypes == ASSUME Signup!Init PROVE TypeInv
  <1>1. Signup!NewPage(FALSE) \in Signup!State
    BY DEF Signup!NewPage, Signup!State, Signup!Missing
  <1>2. IsFiniteSet(joined)
    BY FS_Singleton DEF Signup!Init
  <1>3. joined \subseteq Signup!Row
    <2>1. 0 \in Signup!Ids /\ Earlier \in Mailboxes
      BY SignupIsAnInstance DEF Signup!Ids, Signup!Instance, Signup!Bounds
    <2> QED  BY <2>1 DEF Signup!Init, Signup!Row
  <1>4. \A b \in Browsers : site[b].loading = FALSE
    BY DEF Signup!Init, Signup!NewPage
  <1>5. \A b \in Browsers : site[b] \in Signup!State
    BY <1>1 DEF Signup!Init
  <1> QED
    <2>1. 0 \in Signup!Ids /\ 0 \in 0..MaxLoads /\ 0 \in 0..MaxEdits
      BY SignupIsAnInstance DEF Signup!Ids, Signup!Instance, Signup!Bounds
    <2>2. totals \in [Browsers -> Seq(Nat \cup {Signup!Unknown})] /\ storedAt \in [Signup!Ids -> Nat]
      BY DEF Signup!Init
    <2> QED  BY <1>2, <1>3, <1>4, <1>5, <2>1, <2>2 DEF TypeInv, Signup!TypeOK, Signup!Init

(* What the page does keeps the types of the page.                         *)
LEMMA PageTypes ==
    ASSUME TypeInv, NEW b \in Browsers,
           \/ Signup!Load(b) \/ Signup!HandleFormSubmit(b) \/ Signup!EndFetch(b) \/ Signup!CloseModal(b)
           \/ \E entry \in Entries : Signup!HandleChange(b, entry)
    PROVE  TypeInv'
  <1> USE SignupIsAnInstance DEF Signup!Instance
  <1>0. 0 \in Signup!Ids
    BY DEF Signup!Ids, Signup!Bounds
  <1>1. CASE Signup!Load(b)
    <2>1. Signup!NewPage(TRUE) \in Signup!State /\ Signup!NewPage(TRUE).loading = FALSE
      BY DEF Signup!NewPage, Signup!State, Signup!Missing
    <2>2. site' \in [Browsers -> Signup!State]
      BY <2>1, <1>1 DEF Signup!Load, TypeInv, Signup!TypeOK, Signup!State
    <2>3. totals' \in [Browsers -> Seq(Nat \cup {Signup!Unknown})]
      BY <1>1 DEF Signup!Load, TypeInv, Signup!TypeOK
    <2>4. /\ {awaited', mine'} \subseteq [Browsers -> Signup!Ids]
          /\ \A a \in Browsers : site'[a].loading <=> awaited'[a] # 0
      BY <1>0, <2>1, <1>1 DEF Signup!Load, TypeInv, Signup!TypeOK
    <2>5. loads' \in 0..MaxLoads /\ UNCHANGED <<Signup!tables, joins, submissions>>
      BY <1>1 DEF Signup!Load, TypeInv, Signup!TypeOK, Signup!Bounds
    <2> QED  BY <2>2, <2>3, <2>4, <2>5 DEF TypeInv, Signup!TypeOK, Signup!tables
  <1>2. CASE Signup!HandleFormSubmit(b)
    <2> DEFINE entry == site[b].form
               r == [id |-> submissions + 1, email |-> entry.email, name |-> entry.name,
                     stage |-> "sent", position |-> Signup!Missing, saw |-> {}]
    <2>1. entry.email # "" /\ entry.name # "" /\ entry \in {Signup!EmptyForm} \cup Entries
      BY <1>2 DEF Signup!HandleFormSubmit, Signup!CanSubmit, TypeInv, Signup!TypeOK, Signup!State
    <2>2. entry.email \in Mailboxes /\ entry.name \in Signup!Names \ {""}
      <3>1. Signup!EmptyForm.email = ""
        BY DEF Signup!EmptyForm
      <3>2. entry \in Entries
        BY <2>1, <3>1
      <3>3. entry \in [email : Mailboxes \cup {""}, name : Signup!Names]
        BY <3>2 DEF Signup!Typing
      <3> HIDE DEF entry
      <3> QED  BY <2>1, <3>3
    <2>3. submissions + 1 \in Signup!Ids /\ submissions + 1 # 0
      BY <1>2 DEF Signup!HandleFormSubmit, TypeInv, Signup!TypeOK, Signup!Ids
    <2>4. r \in Signup!Request
      BY <2>2, <2>3 DEF Signup!Request, Signup!Missing
    <2>5. joins' \subseteq Signup!Request
      BY <2>4, <1>2 DEF Signup!HandleFormSubmit, TypeInv, Signup!TypeOK
    <2>6. site' \in [Browsers -> Signup!State]
      BY <1>2 DEF Signup!HandleFormSubmit, TypeInv, Signup!TypeOK, Signup!State
    <2>7. /\ awaited' \in [Browsers -> Signup!Ids]
          /\ \A a \in Browsers : site'[a].loading <=> awaited'[a] # 0
      BY <1>2, <2>3 DEF Signup!HandleFormSubmit, TypeInv, Signup!TypeOK
    <2>8. submissions' \in Signup!Ids /\ UNCHANGED <<Signup!tables, totals, mine, loads>>
      BY <1>2, <2>3 DEF Signup!HandleFormSubmit
    <2> QED  BY <2>5, <2>6, <2>7, <2>8 DEF TypeInv, Signup!TypeOK, Signup!tables
  <1>3. ASSUME Signup!NotJoined(b), UNCHANGED <<Signup!tables, loads, submissions>>, joins' \subseteq joins
        PROVE  TypeInv'
    <2>1. site' \in [Browsers -> Signup!State]
      BY <1>3 DEF Signup!NotJoined, Signup!HandleSubmit, TypeInv, Signup!TypeOK, Signup!State
    <2>2. /\ awaited' \in [Browsers -> Signup!Ids]
          /\ \A a \in Browsers : site'[a].loading <=> awaited'[a] # 0
      BY <1>0, <1>3 DEF Signup!NotJoined, Signup!HandleSubmit, TypeInv, Signup!TypeOK
    <2> QED  BY <2>1, <2>2, <1>3 DEF TypeInv, Signup!TypeOK, Signup!tables, Signup!NotJoined
  <1>4. CASE Signup!Receive(b)
    <2>1. PICK r \in joins : r.id = awaited[b] /\ Signup!TakeAnswer(b, r)
                                /\ joins' = joins \ {r}
      BY <1>4 DEF Signup!Receive
    <2>2. UNCHANGED <<Signup!tables, loads, submissions>>
      BY <1>4 DEF Signup!Receive
    <2>3. CASE Signup!NotJoined(b)
      BY <2>1, <2>2, <2>3, <1>3
    <2>4. CASE Signup!Joined(b, r.position)
      <3>1. r.position \in Nat
        BY DEF TypeInv, Signup!TypeOK, Signup!Request
      <3>2. site' \in [Browsers -> Signup!State]
        BY <2>4, <3>1 DEF Signup!Joined, Signup!HandleSubmit, TypeInv, Signup!TypeOK, Signup!State
      <3>3. /\ awaited' \in [Browsers -> Signup!Ids] /\ mine' \in [Browsers -> Signup!Ids]
            /\ \A a \in Browsers : site'[a].loading <=> awaited'[a] # 0
        BY <1>0, <2>1, <2>4 DEF Signup!Joined, Signup!HandleSubmit, TypeInv, Signup!TypeOK
      <3>4. totals' \in [Browsers -> Seq(Nat \cup {Signup!Unknown})]
        BY <2>4 DEF Signup!Joined, TypeInv, Signup!TypeOK
      <3> QED  BY <2>1, <2>2, <3>2, <3>3, <3>4 DEF TypeInv, Signup!TypeOK, Signup!tables
    <2> QED  BY <2>1, <2>3, <2>4 DEF Signup!TakeAnswer
  <1>5. CASE Signup!FetchFails(b)
    BY <1>3, <1>5 DEF Signup!FetchFails
  <1>6. CASE Signup!CloseModal(b)
    <2>1. site' \in [Browsers -> Signup!State]
      BY <1>6 DEF Signup!CloseModal, TypeInv, Signup!TypeOK, Signup!State
    <2>2. \A a \in Browsers : site'[a].loading = site[a].loading
      BY <1>6 DEF Signup!CloseModal, TypeInv, Signup!TypeOK
    <2> QED  BY <2>1, <2>2, <1>6 DEF Signup!CloseModal, TypeInv, Signup!TypeOK, Signup!State,
                Signup!tables
  <1>7. ASSUME NEW typed \in Entries, Signup!HandleChange(b, typed) PROVE TypeInv'
    <2>1. site' \in [Browsers -> Signup!State]
      <3>1. site \in [Browsers -> Signup!State]
        BY DEF TypeInv, Signup!TypeOK
      <3>2. ASSUME NEW s \in Signup!State PROVE [s EXCEPT !.form = typed] \in Signup!State
        BY DEF Signup!State
      <3>3. site' = [site EXCEPT ![b] = [site[b] EXCEPT !.form = typed]]
        BY <1>7 DEF Signup!HandleChange
      <3> QED  BY <3>1, <3>2, <3>3
    <2>2. \A a \in Browsers : site'[a].loading = site[a].loading
      BY <1>7 DEF Signup!HandleChange, TypeInv, Signup!TypeOK
    <2> QED  BY <2>1, <2>2, <1>7 DEF Signup!HandleChange, TypeInv, Signup!TypeOK, Signup!State,
                Signup!tables
  <1> QED  BY <1>1, <1>2, <1>4, <1>5, <1>6, <1>7 DEF Signup!EndFetch

(* The total that is shown is a number.                                    *)
LEMMA TotalTypes ==
    ASSUME TypeInv, NEW b \in Browsers, NEW i \in DOMAIN totals[b],
           Signup!CountUsers(b, i) \/ Signup!ReceiveTotal(b, i)
    PROVE  TypeInv'
  <1> DEFINE Totals == Seq(Nat \cup {Signup!Unknown})
  <1>1. totals[b] \in Totals /\ totals[b][i] \in Nat \cup {Signup!Unknown} /\ i \in 1..Len(totals[b])
    BY DEF TypeInv, Signup!TypeOK
  <1>2. CASE Signup!CountUsers(b, i)
    <2>1. Cardinality(joined) \in Nat
      BY FS_CardinalityType DEF TypeInv
    <2>2. [totals[b] EXCEPT ![i] = Cardinality(joined)] \in Totals
      BY <1>1, <2>1
    <2>3. totals' = [totals EXCEPT ![b] = [totals[b] EXCEPT ![i] = Cardinality(joined)]]
      BY <1>2 DEF Signup!CountUsers, Signup!Cardinality, Cardinality
    <2>4. totals' \in [Browsers -> Totals]
      BY <2>2, <2>3 DEF TypeInv, Signup!TypeOK
    <2> QED  BY <2>4, <1>2 DEF Signup!CountUsers, TypeInv, Signup!TypeOK, Signup!tables
  <1>3. CASE Signup!ReceiveTotal(b, i)
    <2>1. PICK total \in ({totals[b][i]} \ {Signup!Unknown}) \cup {Signup!Fallback} :
              site' = [site EXCEPT ![b].total = total]
      BY <1>3 DEF Signup!ReceiveTotal
    <2>2. total \in Nat
      BY <1>1 DEF Signup!Fallback
    <2>3. site' \in [Browsers -> Signup!State]
      BY <2>1, <2>2 DEF TypeInv, Signup!TypeOK, Signup!State
    <2>4. \A a \in Browsers : site'[a].loading = site[a].loading
      BY <2>1 DEF TypeInv, Signup!TypeOK
    <2>5. SubSeq(totals[b], 1, i - 1) \o SubSeq(totals[b], i + 1, Len(totals[b])) \in Totals
      <3>1. SubSeq(totals[b], 1, i - 1) \in Totals
        BY <1>1, SubSeqProperties
      <3>2. SubSeq(totals[b], i + 1, Len(totals[b])) \in Totals
        BY <1>1, SubSeqProperties
      <3> HIDE DEF Totals
      <3> QED  BY <3>1, <3>2, ConcatProperties DEF Totals
    <2>6. totals' \in [Browsers -> Totals]
      BY <2>5, <1>3 DEF Signup!ReceiveTotal, TypeInv, Signup!TypeOK
    <2> QED  BY <2>3, <2>4, <2>6, <1>3 DEF Signup!ReceiveTotal, TypeInv, Signup!TypeOK,
                Signup!tables
  <1> QED  BY <1>2, <1>3

(* The service, and those who edit rows.                                   *)
LEMMA ServiceTypes ==
    ASSUME TypeInv,
           \/ \E r \in joins : Signup!Validate(r) \/ Signup!AssignPosition(r) \/ Signup!Insert(r)
           \/ \E user \in joined : Signup!Destroy(user) \/ Signup!GetObject(user)
           \/ \E user \in editing, email \in Mailboxes : Signup!SaveObject(user, email)
    PROVE  TypeInv'
  <1>1. ASSUME NEW r \in joins, NEW next \in Signup!Request, NEW after, Signup!Serve(r, next, after),
               after \subseteq Signup!Row, IsFiniteSet(after)
        PROVE  TypeInv'
    <2>1. r.id \in Signup!Ids /\ r.position \in Nat
      BY DEF TypeInv, Signup!TypeOK, Signup!Request
    <2>2. storedAt' \in [Signup!Ids -> Nat]
      BY <1>1, <2>1 DEF Signup!Serve, TypeInv, Signup!TypeOK
    <2> QED  BY <1>1, <2>2 DEF Signup!Serve, TypeInv, Signup!TypeOK
  <1>2. ASSUME NEW r \in joins PROVE r \in Signup!Request
    BY DEF TypeInv, Signup!TypeOK
  <1>3. ASSUME NEW r \in joins, Signup!Validate(r) PROVE TypeInv'
    <2>1. [r EXCEPT !.stage = "valid"] \in Signup!Request /\ [r EXCEPT !.stage = "refused"] \in Signup!Request
      BY <1>2 DEF Signup!Request, Signup!Ended
    <2> QED  BY <1>1, <1>3, <2>1 DEF Signup!Validate, TypeInv, Signup!TypeOK
  <1>4. ASSUME NEW r \in joins, Signup!AssignPosition(r) PROVE TypeInv'
    <2>1. Signup!NextPosition \in Nat
      BY NextIsLarger DEF TypeInv, Signup!TypeOK, Signup!Row
    <2>2. {user.id : user \in joined} \in SUBSET Signup!Ids
      BY DEF TypeInv, Signup!TypeOK, Signup!Row
    <2>3. [r EXCEPT !.stage = "numbered", !.position = Signup!NextPosition,
                    !.saw = {user.id : user \in joined}] \in Signup!Request
      BY <1>2, <2>1, <2>2 DEF Signup!Request
    <2> QED  BY <1>1, <1>4, <2>3 DEF Signup!AssignPosition, Signup!Number, TypeInv, Signup!TypeOK
  <1>5. ASSUME NEW r \in joins, Signup!Insert(r) PROVE TypeInv'
    <2> DEFINE new == [id |-> r.id, email |-> r.email, position |-> r.position, saw |-> r.saw]
    <2>1. [r EXCEPT !.stage = "failed"] \in Signup!Request /\ [r EXCEPT !.stage = "created"] \in Signup!Request
      BY <1>2 DEF Signup!Request, Signup!Ended
    <2>2. new \in Signup!Row
      BY <1>2 DEF Signup!Request, Signup!Row
    <2>3. joined \cup {new} \subseteq Signup!Row /\ IsFiniteSet(joined \cup {new})
      BY <2>2, FS_AddElement DEF TypeInv, Signup!TypeOK
    <2>4. joined \subseteq Signup!Row /\ IsFiniteSet(joined)
      BY DEF TypeInv, Signup!TypeOK
    <2>5. \/ Signup!Serve(r, [r EXCEPT !.stage = "failed"], joined)
          \/ Signup!Serve(r, [r EXCEPT !.stage = "created"], joined \cup {new})
      BY <1>5 DEF Signup!Insert
    <2> QED  BY <1>1, <2>1, <2>3, <2>4, <2>5
  <1>6. ASSUME NEW user \in joined, Signup!Destroy(user) \/ Signup!GetObject(user) PROVE TypeInv'
    <2>1. /\ joined' = joined \ {user} \/ joined' = joined
          /\ editing' \in {editing, editing \cup {user}}
          /\ edits' \in 0..MaxEdits
          /\ UNCHANGED <<joins, site, awaited, totals, mine, storedAt, loads, submissions>>
      BY <1>6, SignupIsAnInstance DEF Signup!Destroy, Signup!GetObject, Signup!Edit, TypeInv,
         Signup!TypeOK, Signup!Instance, Signup!Bounds
    <2>2. IsFiniteSet(joined')
      BY <2>1, FS_RemoveElement DEF TypeInv
    <2> QED  BY <2>1, <2>2 DEF TypeInv, Signup!TypeOK
  <1>7. ASSUME NEW user \in editing, NEW email \in Mailboxes, Signup!SaveObject(user, email)
        PROVE  TypeInv'
    <2> DEFINE theOthers == {other \in joined : other.id # user.id}
               new == [user EXCEPT !.email = email]
    <2>1. /\ joined' \in {joined, theOthers \cup {new}}
          /\ editing' \subseteq editing
          /\ UNCHANGED <<joins, site, awaited, totals, mine, storedAt, loads, edits, submissions>>
      BY <1>7 DEF Signup!SaveObject
    <2>2. new \in Signup!Row
      BY DEF TypeInv, Signup!TypeOK, Signup!Row
    <2>3. IsFiniteSet(theOthers \cup {new})
      BY FS_Subset, FS_AddElement DEF TypeInv
    <2>4. joined' \subseteq Signup!Row /\ IsFiniteSet(joined')
      BY <2>1, <2>2, <2>3 DEF TypeInv, Signup!TypeOK
    <2> QED  BY <2>1, <2>4 DEF TypeInv, Signup!TypeOK
  <1> QED  BY <1>3, <1>4, <1>5, <1>6, <1>7

LEMMA Types == TypeInv /\ [Signup!Next]_(Signup!vars) => TypeInv'
  <1> SUFFICES ASSUME TypeInv, [Signup!Next]_(Signup!vars) PROVE TypeInv'
    OBVIOUS
  <1>1. CASE UNCHANGED Signup!vars
    BY <1>1 DEF Signup!vars, TypeInv, Signup!TypeOK
  <1> QED  BY <1>1, PageTypes, TotalTypes, ServiceTypes DEF Signup!Next

-----------------------------------------------------------------------------
(* The order of the rows, which a row brings from its request: also a row  *)
(* that is deleted may come back, as long as an update has it.             *)

Unfinished == {r \in joins : r.stage \notin Signup!Ended}
Numbered == {r \in joins : r.stage = "numbered"}
Kept == joined \cup editing
Placed == Kept \cup Numbered

(* A request has a number of its own, no row has it before the insert, and *)
(* it is not the number of the first row; later numbers are free.          *)
NumberedOnce ==
    /\ \A r, q \in joins : r.id = q.id => r = q
    /\ \A r \in joins : r.id # 0 /\ r.id <= submissions
    /\ \A x \in Kept : x.id <= submissions
    /\ \A r \in Unfinished, x \in Kept : r.id # x.id

(* Rows that were read earlier differ from the table's in the email only.  *)
SamePlace == \A x, y \in Kept : x.id = y.id => x.position = y.position /\ x.saw = y.saw

(* A row seen is in front; what is not yet inserted was seen by nobody.    *)
SeenInFront ==
    /\ \A x \in Kept, y \in Placed : x.id \in y.saw => x.position < y.position
    /\ \A r \in Unfinished, y \in Placed : r.id \notin y.saw
    /\ \A y \in Placed : \A id \in y.saw : id <= submissions

EmailsDiffer == \A x, y \in joined : x.email = y.email => x = y

(* What is in storedAt is the position of the row, and of the answer.        *)
StoredOnce ==
    /\ \A x \in Kept : x.position # 0 /\ (x.id # 0 => storedAt[x.id] = x.position)
    /\ \A r \in Numbered : r.position # 0
    /\ \A r \in Unfinished : storedAt[r.id] = 0
    /\ \A r \in joins : r.stage = "created" => storedAt[r.id] = r.position /\ r.position # 0
    /\ \A id \in Signup!Ids : id > submissions => storedAt[id] = 0

TableInv == NumberedOnce /\ SamePlace /\ SeenInFront /\ EmailsDiffer /\ StoredOnce

(* The modal shows a position that is stored, and so does not change.      *)
ModalIsTrue ==
    \A b \in Browsers : site[b].isModalOpen =>
        mine[b] # 0 /\ site[b].position # 0 /\ storedAt[mine[b]] = site[b].position

IInv == TypeInv /\ TableInv /\ ModalIsTrue

-----------------------------------------------------------------------------
LEMMA InitInv == ASSUME Signup!Init PROVE IInv
  <1>1. TypeInv
    BY InitTypes
  <1>2. /\ joins = {} /\ editing = {} /\ submissions = 0
        /\ joined = {[id |-> 0, email |-> Earlier, position |-> 1, saw |-> {}]}
        /\ storedAt = [id \in Signup!Ids |-> 0]
        /\ \A b \in Browsers : site[b].isModalOpen = FALSE
    BY DEF Signup!Init, Signup!NewPage
  <1>3. \A x \in Kept : x = [id |-> 0, email |-> Earlier, position |-> 1, saw |-> {}]
    BY <1>2 DEF Kept
  <1>4. Placed = Kept /\ Unfinished = {} /\ Numbered = {}
    BY <1>2 DEF Placed, Unfinished, Numbered
  <1>5. NumberedOnce
    BY <1>2, <1>3, <1>4 DEF NumberedOnce
  <1>6. SamePlace /\ SeenInFront
    BY <1>3, <1>4 DEF SamePlace, SeenInFront
  <1>7. EmailsDiffer
    BY <1>2 DEF EmailsDiffer
  <1>8. StoredOnce
    BY <1>2, <1>3, <1>4 DEF StoredOnce
  <1>9. ModalIsTrue
    BY <1>2 DEF ModalIsTrue
  <1> QED  BY <1>1, <1>5, <1>6, <1>7, <1>8, <1>9 DEF IInv, TableInv

(* Requests that are over go, and nothing else changes in the service.     *)
LEMMA ForgettingKeepsTable ==
    ASSUME TableInv, joins' \subseteq joins, UNCHANGED <<joined, editing, storedAt, submissions>>
    PROVE  TableInv'
  <1>1. /\ Unfinished' \subseteq Unfinished /\ Numbered' \subseteq Numbered
        /\ Kept' = Kept /\ Placed' \subseteq Placed
    BY DEF Unfinished, Numbered, Kept, Placed
  <1>2. NumberedOnce'
    BY <1>1 DEF TableInv, NumberedOnce
  <1>3. SamePlace' /\ EmailsDiffer'
    BY <1>1 DEF TableInv, SamePlace, EmailsDiffer
  <1>4. SeenInFront'
    BY <1>1 DEF TableInv, SeenInFront
  <1>5. StoredOnce'
    BY <1>1 DEF TableInv, StoredOnce
  <1> QED  BY <1>2, <1>3, <1>4, <1>5 DEF TableInv

LEMMA TypedPlaces ==
    ASSUME TypeInv
    PROVE  /\ submissions \in Nat
           /\ \A q \in joins : q.id \in Nat /\ q.position \in Nat /\ q.saw \subseteq Nat
           /\ \A x \in Kept : x.id \in Nat /\ x.position \in Nat /\ x.saw \subseteq Nat
           /\ \A y \in Placed : y.saw \subseteq Nat
  <1>1. submissions \in Signup!Ids /\ joins \subseteq Signup!Request /\ Kept \subseteq Signup!Row
    BY DEF TypeInv, Signup!TypeOK, Kept
  <1>2. Signup!Ids \subseteq Nat
    BY SignupIsAnInstance DEF Signup!Instance, Signup!Bounds, Signup!Ids
  <1>3. \A q \in joins : q.id \in Signup!Ids /\ q.position \in Nat /\ q.saw \in SUBSET Signup!Ids
    BY <1>1 DEF Signup!Request
  <1>4. \A x \in Kept : x.id \in Signup!Ids /\ x.position \in Nat /\ x.saw \in SUBSET Signup!Ids
    BY <1>1 DEF Signup!Row
  <1> QED  BY <1>1, <1>2, <1>3, <1>4 DEF Placed, Numbered

(* A new request has a new number.                                         *)
LEMMA SubmittingKeepsTable ==
    ASSUME TypeInv, TableInv, NEW b \in Browsers, Signup!HandleFormSubmit(b)
    PROVE  TableInv'
  <1>1. \E r : joins' = joins \cup {r} /\ r.id = submissions + 1 /\ r.stage = "sent"
    <2> DEFINE r == [id |-> submissions + 1, email |-> site[b].form.email,
                     name |-> site[b].form.name, stage |-> "sent", position |-> Signup!Missing,
                     saw |-> {}]
    <2>1. joins' = joins \cup {r}
      BY DEF Signup!HandleFormSubmit
    <2>2. r.id = submissions + 1 /\ r.stage = "sent"
      OBVIOUS
    <2> HIDE DEF r
    <2> QED  BY <2>1, <2>2
  <1>0. PICK r : joins' = joins \cup {r} /\ r.id = submissions + 1 /\ r.stage = "sent"
    BY <1>1
  <1>2. /\ UNCHANGED <<joined, editing, storedAt>> /\ submissions' = submissions + 1
        /\ submissions \in Nat /\ submissions + 1 \in Signup!Ids
    BY SignupIsAnInstance DEF Signup!HandleFormSubmit, Signup!tables, TypeInv, Signup!TypeOK,
       Signup!Ids, Signup!Instance, Signup!Bounds
  <1>3. /\ Unfinished' = Unfinished \cup {r} /\ Numbered' = Numbered
        /\ Kept' = Kept /\ Placed' = Placed
    BY <1>0, <1>2 DEF Unfinished, Numbered, Kept, Placed, Signup!Ended
  <1>4. /\ \A q \in joins : q.id \in Nat
        /\ \A x \in Kept : x.id \in Nat
        /\ \A y \in Placed : y.saw \subseteq Nat
    BY TypedPlaces
  <1>5. NumberedOnce'
    BY <1>0, <1>2, <1>3, <1>4 DEF TableInv, NumberedOnce
  <1>6. SamePlace' /\ EmailsDiffer'
    BY <1>2, <1>3 DEF TableInv, SamePlace, EmailsDiffer
  <1>7. SeenInFront'
    <2>1. \A y \in Placed : r.id \notin y.saw
      BY <1>0, <1>2, <1>4 DEF TableInv, SeenInFront
    <2>2. \A y \in Placed : \A id \in y.saw : id <= submissions'
      BY <1>2, <1>4 DEF TableInv, SeenInFront
    <2> QED  BY <1>3, <2>1, <2>2 DEF TableInv, SeenInFront
  <1>8. StoredOnce'
    <2>1. storedAt[r.id] = 0
      BY <1>0, <1>2 DEF TableInv, StoredOnce
    <2>2. \A id \in Signup!Ids : id > submissions' => storedAt[id] = 0
      BY <1>2 DEF TableInv, StoredOnce, Signup!Ids
    <2> QED  BY <1>0, <1>2, <1>3, <2>1, <2>2 DEF TableInv, StoredOnce
  <1> QED  BY <1>5, <1>6, <1>7, <1>8 DEF TableInv

-----------------------------------------------------------------------------
(* A request is served further: its next state takes its place.            *)

LEMMA ServedRequests ==
    ASSUME TypeInv, TableInv, NEW r \in Unfinished, NEW next, NEW after,
           Signup!Serve(r, next, after), next.id = r.id
    PROVE  /\ joins' = (joins \ {r}) \cup {next} /\ joined' = after
           /\ UNCHANGED <<editing, submissions>>
           /\ \A q \in joins' : q.id = r.id => q = next
           /\ Unfinished' = (Unfinished \ {r}) \cup {q \in {next} : q.stage \notin Signup!Ended}
           /\ Numbered' = (Numbered \ {r}) \cup {q \in {next} : q.stage = "numbered"}
           /\ \A id \in Signup!Ids : id # r.id => storedAt'[id] = storedAt[id]
           /\ storedAt'[r.id] = IF next.stage = "created" THEN r.position ELSE storedAt[r.id]
  <1>1. /\ joins' = (joins \ {r}) \cup {next} /\ joined' = after
        /\ storedAt' = [storedAt EXCEPT ![r.id] = IF next.stage = "created" THEN r.position ELSE @]
        /\ UNCHANGED <<editing, submissions>>
    BY DEF Signup!Serve
  <1>2. r \in joins /\ r.id \in Signup!Ids /\ DOMAIN storedAt = Signup!Ids
    BY DEF Unfinished, TypeInv, Signup!TypeOK, Signup!Request
  <1>3. \A q \in joins' : q.id = r.id => q = next
    BY <1>1, <1>2 DEF TableInv, NumberedOnce
  <1>4. storedAt'[r.id] = IF next.stage = "created" THEN r.position ELSE storedAt[r.id]
    BY <1>1, <1>2
  <1>5. \A id \in Signup!Ids : id # r.id => storedAt'[id] = storedAt[id]
    BY <1>1, <1>2
  <1> QED  BY <1>1, <1>3, <1>4, <1>5 DEF Unfinished, Numbered

LEMMA ServedOnce ==
    ASSUME TypeInv, TableInv, NEW r \in Unfinished, NEW next, NEW after,
           Signup!Serve(r, next, after), next.id = r.id, after = joined \/ next.stage \in Signup!Ended,
           \A x \in after : x \in joined \/ x.id = r.id
    PROVE  NumberedOnce'
  <1>1. /\ joins' = (joins \ {r}) \cup {next} /\ joined' = after
        /\ UNCHANGED <<editing, submissions>>
        /\ \A q \in joins' : q.id = r.id => q = next
        /\ Unfinished' = (Unfinished \ {r}) \cup {q \in {next} : q.stage \notin Signup!Ended}
    BY ServedRequests
  <1>2. r \in joins /\ r.id # 0 /\ r.id <= submissions
    BY DEF Unfinished, TableInv, NumberedOnce
  <1>3. \A x \in Kept' : x \in Kept \/ x.id = r.id
    BY <1>1 DEF Kept
  <1>4. \A q, p \in joins' : q.id = p.id => q = p
    BY <1>1 DEF TableInv, NumberedOnce
  <1>5. \A q \in joins' : q.id # 0 /\ q.id <= submissions
    BY <1>1, <1>2 DEF TableInv, NumberedOnce
  <1>6. ASSUME NEW q \in Unfinished', NEW x \in Kept' PROVE q.id # x.id
    <2>1. CASE q = next
      <3>1. next.stage \notin Signup!Ended
        BY <2>1 DEF Unfinished
      <3>2. Kept' = Kept
        BY <3>1, <1>1 DEF Kept
      <3> QED  BY <2>1, <3>2 DEF TableInv, NumberedOnce
    <2>2. CASE q # next
      <3>1. q \in Unfinished /\ q.id # r.id
        BY <2>2, <1>1 DEF Unfinished
      <3> QED  BY <3>1, <1>3 DEF TableInv, NumberedOnce
    <2> QED  BY <2>1, <2>2
  <1> QED  BY <1>1, <1>2, <1>3, <1>4, <1>5, <1>6 DEF TableInv, NumberedOnce

(* As long as no row is added, a served request changes no place.          *)
LEMMA WaitingKeepsTable ==
    ASSUME TypeInv, TableInv, NEW r \in Unfinished, NEW next,
           Signup!Serve(r, next, joined), next.id = r.id, next.stage \in {"valid", "refused", "failed"}
    PROVE  TableInv'
  <1>1. /\ joins' = (joins \ {r}) \cup {next} /\ joined' = joined
        /\ UNCHANGED <<editing, submissions>>
        /\ Unfinished' = (Unfinished \ {r}) \cup {q \in {next} : q.stage \notin Signup!Ended}
        /\ Numbered' = (Numbered \ {r}) \cup {q \in {next} : q.stage = "numbered"}
        /\ \A id \in Signup!Ids : id # r.id => storedAt'[id] = storedAt[id]
        /\ storedAt'[r.id] = IF next.stage = "created" THEN r.position ELSE storedAt[r.id]
    BY ServedRequests
  <1>2. Kept' = Kept /\ Numbered' \subseteq Numbered /\ Placed' \subseteq Placed
    BY <1>1 DEF Kept, Placed
  <1>3. NumberedOnce'
    BY ServedOnce
  <1>4. SamePlace' /\ EmailsDiffer'
    BY <1>1, <1>2 DEF TableInv, SamePlace, EmailsDiffer
  <1>5. \A q \in Unfinished' : \E p \in Unfinished : p.id = q.id
    BY <1>1
  <1>6. SeenInFront'
    <2>1. \A q \in Unfinished', y \in Placed' : q.id \notin y.saw
      BY <1>2, <1>5 DEF TableInv, SeenInFront
    <2> QED  BY <1>1, <1>2, <2>1 DEF TableInv, SeenInFront
  <1>7. StoredOnce'
    <2>1. \A id \in Signup!Ids : storedAt'[id] = storedAt[id]
      BY <1>1
    <2>2. /\ \A x \in Kept : x.id \in Signup!Ids
          /\ \A q \in joins : q.id \in Signup!Ids
      BY DEF TypeInv, Signup!TypeOK, Signup!Row, Signup!Request, Kept
    <2>3. \A q \in Unfinished' : storedAt'[q.id] = 0
      <3>1. \A q \in Unfinished : q.id \in Signup!Ids /\ storedAt[q.id] = 0
        BY <2>2 DEF TableInv, StoredOnce, Unfinished
      <3> QED  BY <3>1, <2>1, <1>5
    <2>4. \A q \in joins' : q.stage = "created" => q \in joins
      BY <1>1
    <2> QED  BY <1>1, <1>2, <2>1, <2>2, <2>3, <2>4 DEF TableInv, StoredOnce
  <1> QED  BY <1>3, <1>4, <1>6, <1>7 DEF TableInv

(* The next position is behind all rows seen.                              *)
LEMMA NumberingKeepsTable ==
    ASSUME TypeInv, TableInv, NEW r \in Unfinished, NEW next,
           Signup!Serve(r, next, joined), next.id = r.id, next.stage = "numbered",
           next.position = Signup!NextPosition, next.saw = {user.id : user \in joined}
    PROVE  TableInv'
  <1>1. /\ joins' = (joins \ {r}) \cup {next} /\ joined' = joined
        /\ UNCHANGED <<editing, submissions>>
        /\ Unfinished' = (Unfinished \ {r}) \cup {next}
        /\ Numbered' = (Numbered \ {r}) \cup {next}
        /\ \A id \in Signup!Ids : storedAt'[id] = storedAt[id]
    <2>1. next.stage \notin Signup!Ended /\ next.stage # "created"
      BY DEF Signup!Ended
    <2> QED  BY <2>1, ServedRequests
  <1>2. Kept' = Kept /\ Placed' \subseteq Placed \cup {next}
    BY <1>1 DEF Kept, Placed
  <1>3. NumberedOnce'
    BY ServedOnce
  <1>4. SamePlace' /\ EmailsDiffer'
    BY <1>1, <1>2 DEF TableInv, SamePlace, EmailsDiffer
  <1>5. \A x \in joined : x.position < Signup!NextPosition
    <2>1. IsFiniteSet(joined) /\ \A x \in joined : x.position \in Nat
      BY TypedPlaces DEF TypeInv, Kept
    <2> QED  BY <2>1, NextIsLarger
  <1>6. Signup!NextPosition # 0
    <2>1. IsFiniteSet(joined) /\ \A x \in joined : x.position \in Nat
      BY TypedPlaces DEF TypeInv, Kept
    <2> QED  BY <2>1, NextIsLarger
  <1>7. \A q \in Unfinished' : \E p \in Unfinished : p.id = q.id
    BY <1>1
  <1>8. SeenInFront'
    <2>1. ASSUME NEW x \in Kept, x.id \in next.saw PROVE x.position < next.position
      <3>1. PICK user \in joined : user.id = x.id
        BY <2>1
      <3>2. x.position = user.position
        BY <3>1 DEF TableInv, SamePlace, Kept
      <3> QED  BY <3>2, <1>5
    <2>2. ASSUME NEW q \in Unfinished', NEW y \in Placed' PROVE q.id \notin y.saw
      <3>1. PICK p \in Unfinished : p.id = q.id
        BY <1>7
      <3>2. CASE y \in Placed
        BY <3>1, <3>2 DEF TableInv, SeenInFront
      <3>3. CASE y = next
        BY <3>1, <3>3 DEF TableInv, NumberedOnce, Kept
      <3> QED  BY <3>2, <3>3, <1>2
    <2>3. \A id \in next.saw : id <= submissions
      BY DEF TableInv, NumberedOnce, Kept
    <2> QED  BY <1>1, <1>2, <2>1, <2>2, <2>3 DEF TableInv, SeenInFront
  <1>9. StoredOnce'
    <2>1. /\ \A x \in Kept : x.id \in Signup!Ids
          /\ \A q \in joins : q.id \in Signup!Ids
      BY DEF TypeInv, Signup!TypeOK, Signup!Row, Signup!Request, Kept
    <2>2. \A q \in Unfinished' : storedAt'[q.id] = 0
      <3>1. \A q \in Unfinished : q.id \in Signup!Ids /\ storedAt[q.id] = 0
        BY <2>1 DEF TableInv, StoredOnce, Unfinished
      <3> QED  BY <3>1, <1>1, <1>7
    <2>3. \A q \in joins' : q.stage = "created" => q \in joins
      BY <1>1
    <2> QED  BY <1>1, <1>2, <1>6, <2>1, <2>2, <2>3 DEF TableInv, StoredOnce
  <1> QED  BY <1>3, <1>4, <1>8, <1>9 DEF TableInv

(* A row is added: nobody has seen it, and it is behind those it has seen. *)
LEMMA InsertingKeepsTable ==
    ASSUME TypeInv, TableInv, NEW r \in Numbered, ~Signup!Known(r.email), NEW next, NEW new,
           Signup!Serve(r, next, joined \cup {new}), next.id = r.id, next.stage = "created",
           next.position = r.position,
           new.id = r.id, new.email = r.email, new.position = r.position, new.saw = r.saw
    PROVE  TableInv'
  <1>0. r \in Unfinished /\ r \in Placed /\ next.stage \in Signup!Ended
    BY DEF Unfinished, Numbered, Placed, Signup!Ended
  <1>1. /\ joins' = (joins \ {r}) \cup {next} /\ joined' = joined \cup {new}
        /\ UNCHANGED <<editing, submissions>>
        /\ Unfinished' = Unfinished \ {r} /\ Numbered' = Numbered \ {r}
        /\ \A id \in Signup!Ids : id # r.id => storedAt'[id] = storedAt[id]
        /\ storedAt'[r.id] = r.position
    <2>1. next.stage # "numbered"
      OBVIOUS
    <2> QED  BY <1>0, <2>1, ServedRequests
  <1>2. Kept' = Kept \cup {new} /\ Placed' \subseteq Placed \cup {new}
    BY <1>1 DEF Kept, Placed
  <1>3. NumberedOnce'
    BY <1>0, ServedOnce
  <1>4. \A x \in Kept : x.id # r.id
    BY <1>0 DEF TableInv, NumberedOnce
  <1>5. SamePlace'
    BY <1>2, <1>4 DEF TableInv, SamePlace
  <1>6. EmailsDiffer'
    BY <1>1 DEF TableInv, EmailsDiffer, Signup!Known
  <1>7. SeenInFront'
    <2>1. \A y \in Placed' : r.id \notin y.saw
      BY <1>0, <1>2 DEF TableInv, SeenInFront
    <2>2. \A x \in Kept : x.id \in new.saw => x.position < new.position
      BY <1>0 DEF TableInv, SeenInFront
    <2>3. \A x \in Kept', y \in Placed' : x.id \in y.saw => x.position < y.position
      BY <1>2, <2>1, <2>2 DEF TableInv, SeenInFront
    <2>4. \A q \in Unfinished', y \in Placed' : q.id \notin y.saw
      BY <1>0, <1>1, <1>2 DEF TableInv, SeenInFront
    <2>5. \A y \in Placed' : \A id \in y.saw : id <= submissions
      BY <1>0, <1>2 DEF TableInv, SeenInFront
    <2> QED  BY <1>1, <2>3, <2>4, <2>5 DEF SeenInFront
  <1>8. StoredOnce'
    <2>1. /\ \A x \in Kept : x.id \in Signup!Ids
          /\ \A q \in joins : q.id \in Signup!Ids
      BY DEF TypeInv, Signup!TypeOK, Signup!Row, Signup!Request, Kept
    <2>2. r \in joins /\ r.id <= submissions /\ r.position # 0
      BY <1>0 DEF Unfinished, TableInv, NumberedOnce, StoredOnce
    <2>3. \A x \in Kept' : x.position # 0 /\ (x.id # 0 => storedAt'[x.id] = x.position)
      BY <1>1, <1>2, <1>4, <2>1, <2>2 DEF TableInv, StoredOnce
    <2>4. \A q \in joins' : q # next => q \in joins /\ q.id # r.id
      BY <1>1, <2>2 DEF TableInv, NumberedOnce
    <2>5. \A q \in Unfinished' : storedAt'[q.id] = 0
      <3>1. ASSUME NEW q \in Unfinished' PROVE storedAt'[q.id] = 0
        <4>1. q \in Unfinished /\ q # next
          BY <1>0, <1>1 DEF Unfinished
        <4>2. q.id # r.id /\ q.id \in Signup!Ids
          BY <4>1, <2>1, <2>4 DEF Unfinished
        <4> QED  BY <4>1, <4>2, <1>1 DEF TableInv, StoredOnce
      <3> QED  BY <3>1
    <2>6. \A q \in joins' : q.stage = "created" =>
              storedAt'[q.id] = q.position /\ q.position # 0
      BY <1>1, <2>1, <2>2, <2>4 DEF TableInv, StoredOnce
    <2>7. \A id \in Signup!Ids : id > submissions => storedAt'[id] = 0
      <3>1. ASSUME NEW id \in Signup!Ids, id > submissions PROVE storedAt'[id] = 0
        <4>1. id \in Nat /\ submissions \in Nat /\ r.id \in Nat
          BY <2>2, TypedPlaces, SignupIsAnInstance DEF Signup!Instance, Signup!Bounds, Signup!Ids
        <4>2. id # r.id
          BY <4>1, <3>1, <2>2
        <4> QED  BY <4>2, <3>1, <1>1 DEF TableInv, StoredOnce
      <3> QED  BY <3>1
    <2>8. \A q \in Numbered' : q.position # 0
      BY <1>1 DEF TableInv, StoredOnce
    <2> QED  BY <1>1, <2>3, <2>5, <2>6, <2>7, <2>8 DEF StoredOnce
  <1> QED  BY <1>3, <1>5, <1>6, <1>7, <1>8 DEF TableInv

LEMMA ServiceKeepsTable ==
    ASSUME TypeInv, TableInv, NEW r \in joins,
           Signup!Validate(r) \/ Signup!AssignPosition(r) \/ Signup!Insert(r)
    PROVE  TableInv'
  <1>1. r \in Signup!Request
    BY DEF TypeInv, Signup!TypeOK
  <1>2. CASE Signup!Validate(r)
    <2>1. r \in Unfinished
      BY <1>2 DEF Signup!Validate, Unfinished, Signup!Ended
    <2>2. PICK stage \in {"valid", "refused"} : Signup!Serve(r, [r EXCEPT !.stage = stage], joined)
      BY <1>2 DEF Signup!Validate
    <2> DEFINE next == [r EXCEPT !.stage = stage]
    <2>3. next.id = r.id /\ next.stage \in {"valid", "refused", "failed"}
      BY <1>1 DEF Signup!Request
    <2> HIDE DEF next
    <2> QED  BY <2>1, <2>2, <2>3, WaitingKeepsTable DEF next
  <1>3. CASE Signup!AssignPosition(r)
    <2> DEFINE next == [r EXCEPT !.stage = "numbered", !.position = Signup!NextPosition,
                                 !.saw = {user.id : user \in joined}]
    <2>1. r \in Unfinished /\ Signup!Serve(r, next, joined)
      BY <1>3 DEF Signup!AssignPosition, Signup!Number, Unfinished, Signup!Ended
    <2>2. /\ next.id = r.id /\ next.stage = "numbered"
          /\ next.position = Signup!NextPosition /\ next.saw = {user.id : user \in joined}
      BY <1>1 DEF Signup!Request
    <2> HIDE DEF next
    <2> QED  BY <2>1, <2>2, NumberingKeepsTable
  <1>4. CASE Signup!Insert(r)
    <2>1. r \in Numbered /\ r \in Unfinished
      BY <1>4 DEF Signup!Insert, Numbered, Unfinished, Signup!Ended
    <2>2. CASE Signup!Known(r.email)
      <3> DEFINE next == [r EXCEPT !.stage = "failed"]
      <3>1. Signup!Serve(r, next, joined)
        BY <1>4, <2>2 DEF Signup!Insert
      <3>2. next.id = r.id /\ next.stage \in {"valid", "refused", "failed"}
        BY <1>1 DEF Signup!Request
      <3> HIDE DEF next
      <3> QED  BY <2>1, <3>1, <3>2, WaitingKeepsTable
    <2>3. CASE ~Signup!Known(r.email)
      <3> DEFINE next == [r EXCEPT !.stage = "created"]
                 new == [id |-> r.id, email |-> r.email, position |-> r.position,
                         saw |-> r.saw]
      <3>1. Signup!Serve(r, next, joined \cup {new})
        BY <1>4, <2>3 DEF Signup!Insert
      <3>2. next.id = r.id /\ next.stage = "created" /\ next.position = r.position
        BY <1>1 DEF Signup!Request
      <3>3. new.id = r.id /\ new.email = r.email /\ new.position = r.position /\ new.saw = r.saw
        OBVIOUS
      <3> HIDE DEF next, new
      <3> QED  BY <2>1, <2>3, <3>1, <3>2, <3>3, InsertingKeepsTable
    <2> QED  BY <2>2, <2>3
  <1> QED  BY <1>2, <1>3, <1>4

-----------------------------------------------------------------------------
(* Rows are deleted, read, and stored again with another email.            *)
LEMMA EditingKeepsTable ==
    ASSUME TableInv, UNCHANGED <<joins, storedAt, submissions>>, EmailsDiffer',
           \A x \in Kept' : \E k \in Kept :
               x.id = k.id /\ x.position = k.position /\ x.saw = k.saw
    PROVE  TableInv'
  <1>1. Unfinished' = Unfinished /\ Numbered' = Numbered
    BY DEF Unfinished, Numbered
  <1>2. NumberedOnce'
    BY <1>1 DEF TableInv, NumberedOnce
  <1>3. SamePlace'
    BY DEF TableInv, SamePlace
  <1>4. \A y \in Placed' : \E p \in Placed : y.position = p.position /\ y.saw = p.saw
    BY <1>1 DEF Placed
  <1>5. SeenInFront'
    <2>1. ASSUME NEW x \in Kept', NEW y \in Placed', x.id \in y.saw
          PROVE  x.position < y.position
      <3>1. PICK k \in Kept : x.id = k.id /\ x.position = k.position
        OBVIOUS
      <3>2. PICK p \in Placed : y.position = p.position /\ y.saw = p.saw
        BY <1>4
      <3> QED  BY <2>1, <3>1, <3>2 DEF TableInv, SeenInFront
    <2> QED  BY <1>1, <1>4, <2>1 DEF TableInv, SeenInFront
  <1>6. StoredOnce'
    BY <1>1 DEF TableInv, StoredOnce
  <1> QED  BY <1>2, <1>3, <1>5, <1>6 DEF TableInv

LEMMA EditsKeepTable ==
    ASSUME TypeInv, TableInv,
           \/ \E user \in joined : Signup!Destroy(user) \/ Signup!GetObject(user)
           \/ \E user \in editing, email \in Mailboxes : Signup!SaveObject(user, email)
    PROVE  TableInv'
  <1>1. ASSUME NEW user \in joined, Signup!Destroy(user) \/ Signup!GetObject(user) PROVE TableInv'
    <2>1. /\ joined' \subseteq joined /\ Kept' \subseteq Kept
          /\ UNCHANGED <<joins, storedAt, submissions>>
      BY <1>1 DEF Signup!Destroy, Signup!GetObject, Signup!Edit, Kept
    <2>2. EmailsDiffer'
      BY <2>1 DEF TableInv, EmailsDiffer
    <2> QED  BY <2>1, <2>2, EditingKeepsTable
  <1>2. ASSUME NEW user \in editing, NEW email \in Mailboxes, Signup!SaveObject(user, email)
        PROVE  TableInv'
    <2> DEFINE theOthers == {other \in joined : other.id # user.id}
               new == [user EXCEPT !.email = email]
               taken == \E other \in theOthers : other.email = email
    <2>1. /\ joined' = IF taken THEN joined ELSE theOthers \cup {new}
          /\ editing' = editing \ {user}
          /\ UNCHANGED <<joins, storedAt, submissions>>
      BY <1>2 DEF Signup!SaveObject
    <2>2. /\ new.id = user.id /\ new.position = user.position /\ new.saw = user.saw
          /\ new.email = email
      BY DEF TypeInv, Signup!TypeOK, Signup!Row
    <2> HIDE DEF new
    <2>3. EmailsDiffer'
      BY <2>1, <2>2 DEF TableInv, EmailsDiffer
    <2>4. \A x \in Kept' : x \in Kept \/ x = new
      BY <2>1 DEF Kept
    <2>5. user \in Kept
      BY DEF Kept
    <2> QED  BY <2>1, <2>2, <2>3, <2>4, <2>5, EditingKeepsTable
  <1> QED  BY <1>1, <1>2

-----------------------------------------------------------------------------
(* The modal: it opens with the position of the answer, and the positions  *)
(* stored for other requests come and go.                                  *)
LEMMA PageKeepsModal ==
    ASSUME TypeInv, TableInv, ModalIsTrue, NEW b \in Browsers,
           \/ Signup!Load(b) \/ Signup!HandleFormSubmit(b) \/ Signup!EndFetch(b) \/ Signup!CloseModal(b)
           \/ \E entry \in Entries : Signup!HandleChange(b, entry)
           \/ \E i \in DOMAIN totals[b] : Signup!CountUsers(b, i) \/ Signup!ReceiveTotal(b, i)
    PROVE  ModalIsTrue'
  <1>1. storedAt' = storedAt
    BY DEF Signup!Load, Signup!HandleFormSubmit, Signup!EndFetch, Signup!Receive,
       Signup!FetchFails, Signup!CloseModal, Signup!HandleChange,
           Signup!CountUsers, Signup!ReceiveTotal, Signup!tables
  <1>2. site \in [Browsers -> Signup!State] /\ mine \in [Browsers -> Signup!Ids]
    BY DEF TypeInv, Signup!TypeOK
  <1>3. ASSUME site'[b].isModalOpen =>
                   /\ site[b].isModalOpen /\ site'[b].position = site[b].position
                   /\ mine'[b] = mine[b],
               \A a \in Browsers \ {b} : site'[a] = site[a] /\ mine'[a] = mine[a]
        PROVE  ModalIsTrue'
    BY <1>1, <1>3 DEF ModalIsTrue
  <1>4. CASE Signup!Load(b)
    <2>1. site'[b].isModalOpen = FALSE
      BY <1>2, <1>4 DEF Signup!Load, Signup!NewPage
    <2> QED  BY <1>2, <1>3, <1>4, <2>1 DEF Signup!Load
  <1>5. CASE Signup!HandleFormSubmit(b)
    <2>1. /\ site'[b].isModalOpen = site[b].isModalOpen
          /\ site'[b].position = site[b].position
      BY <1>2, <1>5 DEF Signup!HandleFormSubmit, Signup!State
    <2> QED  BY <1>2, <1>3, <1>5, <2>1 DEF Signup!HandleFormSubmit
  <1>6. ASSUME Signup!NotJoined(b) PROVE ModalIsTrue'
    <2>1. /\ site'[b].isModalOpen = site[b].isModalOpen
          /\ site'[b].position = site[b].position
      BY <1>2, <1>6 DEF Signup!NotJoined, Signup!HandleSubmit, Signup!State
    <2> QED  BY <1>2, <1>3, <1>6, <2>1 DEF Signup!NotJoined
  <1>7. CASE Signup!Receive(b)
    <2>1. PICK r \in joins : r.id = awaited[b] /\ Signup!TakeAnswer(b, r)
      BY <1>7 DEF Signup!Receive
    <2>2. CASE r.stage # "created"
      BY <1>6, <2>1, <2>2 DEF Signup!TakeAnswer
    <2>3. CASE r.stage = "created"
      <3>1. Signup!Joined(b, r.position)
        BY <2>1, <2>3 DEF Signup!TakeAnswer
      <3>2. /\ site'[b].position = r.position /\ mine'[b] = r.id
            /\ \A a \in Browsers \ {b} : site'[a] = site[a] /\ mine'[a] = mine[a]
        BY <1>2, <2>1, <3>1 DEF Signup!Joined, Signup!HandleSubmit, Signup!State
      <3>3. r.id # 0 /\ r.position # 0 /\ storedAt[r.id] = r.position
        BY <2>3 DEF TableInv, NumberedOnce, StoredOnce
      <3> QED  BY <1>1, <3>2, <3>3 DEF ModalIsTrue
    <2> QED  BY <2>2, <2>3
  <1>8. CASE Signup!FetchFails(b)
    BY <1>6, <1>8 DEF Signup!FetchFails
  <1>9. CASE Signup!CloseModal(b)
    <2>1. site'[b].isModalOpen = FALSE
      BY <1>2, <1>9 DEF Signup!CloseModal, Signup!State
    <2> QED  BY <1>2, <1>3, <1>9, <2>1 DEF Signup!CloseModal
  <1>10. ASSUME NEW typed \in Entries, Signup!HandleChange(b, typed) PROVE ModalIsTrue'
    <2>1. /\ site'[b].isModalOpen = site[b].isModalOpen
          /\ site'[b].position = site[b].position
      BY <1>2, <1>10 DEF Signup!HandleChange, Signup!State
    <2> QED  BY <1>2, <1>3, <1>10, <2>1 DEF Signup!HandleChange
  <1>11. ASSUME NEW i \in DOMAIN totals[b], Signup!CountUsers(b, i) PROVE ModalIsTrue'
    BY <1>3, <1>11 DEF Signup!CountUsers
  <1>12. ASSUME NEW i \in DOMAIN totals[b], Signup!ReceiveTotal(b, i) PROVE ModalIsTrue'
    <2>1. /\ site'[b].isModalOpen = site[b].isModalOpen
          /\ site'[b].position = site[b].position
      BY <1>2, <1>12 DEF Signup!ReceiveTotal, Signup!State
    <2> QED  BY <1>2, <1>3, <1>12, <2>1 DEF Signup!ReceiveTotal
  <1> QED  BY <1>4, <1>5, <1>7, <1>8, <1>9, <1>10, <1>11, <1>12 DEF Signup!EndFetch

LEMMA ServiceKeepsModal ==
    ASSUME TypeInv, TableInv, ModalIsTrue, NEW r \in joins,
           Signup!Validate(r) \/ Signup!AssignPosition(r) \/ Signup!Insert(r)
    PROVE  ModalIsTrue'
  <1>1. /\ UNCHANGED <<site, mine>>
        /\ \E position : storedAt' = [storedAt EXCEPT ![r.id] = position]
    BY DEF Signup!Validate, Signup!AssignPosition, Signup!Number, Signup!Insert, Signup!Serve
  <1>2. storedAt[r.id] = 0
    BY DEF Signup!Validate, Signup!AssignPosition, Signup!Number, Signup!Insert, Unfinished,
       Signup!Ended, TableInv, StoredOnce
  <1>3. mine \in [Browsers -> Signup!Ids] /\ storedAt \in [Signup!Ids -> Nat]
    BY DEF TypeInv, Signup!TypeOK
  <1> QED  BY <1>1, <1>2, <1>3 DEF ModalIsTrue

-----------------------------------------------------------------------------
LEMMA Inductive == IInv /\ [Signup!Next]_(Signup!vars) => IInv'
  <1> SUFFICES ASSUME IInv, [Signup!Next]_(Signup!vars) PROVE IInv'
    OBVIOUS
  <1>1. TypeInv /\ TableInv /\ ModalIsTrue /\ TypeInv'
    BY Types DEF IInv
  <1>2. CASE UNCHANGED Signup!vars
    BY <1>1, <1>2 DEF Signup!vars, IInv, TableInv, NumberedOnce, SamePlace, SeenInFront,
       EmailsDiffer,
       StoredOnce, ModalIsTrue, Unfinished, Numbered, Kept, Placed
  <1>3. ASSUME NEW b \in Browsers,
               \/ Signup!Load(b) \/ Signup!HandleFormSubmit(b) \/ Signup!EndFetch(b) \/ Signup!CloseModal(b)
               \/ \E entry \in Entries : Signup!HandleChange(b, entry)
               \/ \E i \in DOMAIN totals[b] : Signup!CountUsers(b, i) \/ Signup!ReceiveTotal(b, i)
        PROVE  IInv'
    <2>1. CASE Signup!HandleFormSubmit(b)
      BY <1>1, <2>1, SubmittingKeepsTable, PageKeepsModal DEF IInv
    <2>2. CASE ~Signup!HandleFormSubmit(b)
      <3>1. joins' \subseteq joins /\ UNCHANGED <<joined, editing, storedAt, submissions>>
        BY <1>3, <2>2 DEF Signup!Load, Signup!EndFetch, Signup!Receive, Signup!FetchFails,
           Signup!CloseModal, Signup!HandleChange,
           Signup!CountUsers, Signup!ReceiveTotal, Signup!tables
      <3> QED  BY <1>1, <1>3, <3>1, ForgettingKeepsTable, PageKeepsModal DEF IInv
    <2> QED  BY <2>1, <2>2
  <1>4. ASSUME NEW r \in joins, Signup!Validate(r) \/ Signup!AssignPosition(r) \/ Signup!Insert(r)
        PROVE  IInv'
    BY <1>1, <1>4, ServiceKeepsTable, ServiceKeepsModal DEF IInv
  <1>5. ASSUME \/ \E user \in joined : Signup!Destroy(user) \/ Signup!GetObject(user)
               \/ \E user \in editing, email \in Mailboxes : Signup!SaveObject(user, email)
        PROVE  IInv'
    <2>1. UNCHANGED <<site, mine, storedAt>>
      BY <1>5 DEF Signup!Destroy, Signup!GetObject, Signup!Edit, Signup!SaveObject
    <2> QED  BY <1>1, <1>5, <2>1, EditsKeepTable DEF IInv, ModalIsTrue
  <1> QED  BY <1>2, <1>3, <1>4, <1>5 DEF Signup!Next

(* The types, for any number of browsers and requests.                     *)
THEOREM TypeCorrect == Signup!Spec => []Signup!TypeOK
  <1>1. IInv => Signup!TypeOK
    BY DEF IInv, TypeInv
  <1> QED  BY <1>1, InitInv, Inductive, PTL DEF Signup!Spec

(* An email has one row, and who joined when another was in the list is    *)
(* behind that one.                                                        *)
THEOREM PlacesInOrder == Signup!Spec => []OnePlaceInOrder
  <1>1. IInv => OnePlaceInOrder
    BY DEF IInv, TableInv, EmailsDiffer, SeenInFront, Kept, Placed, OnePlaceInOrder,
       Signup!OnePlaceInOrder
  <1> QED  BY <1>1, InitInv, Inductive, PTL DEF Signup!Spec

(* The modal shows the position of the row that was stored for it.         *)
THEOREM ModalIsHonest == Signup!Spec => []ShowsItsPosition
  <1>1. IInv => ShowsItsPosition
    BY DEF IInv, ModalIsTrue, TableInv, StoredOnce, Kept, ShowsItsPosition,
       Signup!ShowsItsPosition, Signup!SystemId, Signup!Missing
  <1> QED  BY <1>1, InitInv, Inductive, PTL DEF Signup!Spec
=============================================================================
