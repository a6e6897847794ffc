-------------------------- MODULE SQLServerProofs --------------------------
(***************************************************************************)
(* What SQLServer promises for any number of clients, any tables, any data *)
(* and any mix of statements: the schema cache agrees with the engine, and *)
(* a statement that no other statement overlapped on its table is atomic.  *)
(***************************************************************************)
EXTENDS SQLServer, FiniteSetTheorems, TLAPS

Contents == [Data -> Rows \cup {NoRow}]

LEMMA StatementFields ==
    ASSUME NEW s \in Statements
    PROVE  /\ s.table \in Tables
           /\ s.kind \in {"create", "drop", "insert", "select", "delete", "update"}
           /\ s.kind = "insert" => s.row \in Rows
           /\ s.kind \in {"select", "delete", "update"} => s.where \subseteq Rows
           /\ s.kind = "update" => s.column \in Columns /\ s.value \in Data
  BY StatementsAreStatements

LEMMA KeyIsData ==
    ASSUME NEW row \in Rows
    PROVE  Key(row) \in Data
  BY PrimaryKeyIsAColumn DEF Rows, Key

(* An UPDATE stores a row. *)
LEMMA AssignedIsRow ==
    ASSUME NEW s \in Statements, s.kind = "update", NEW row \in Rows
    PROVE  Assigned(s, row) \in Rows
  BY StatementFields DEF Rows, Assigned

LEMMA SelectedType ==
    ASSUME NEW s \in Statements, NEW tbl \in Contents,
           s.kind \in {"select", "update", "delete", "drop"}
    PROVE  Selected(s, tbl) \in Contents
  BY StatementFields DEF Contents, Selected

(* One write to the engine. *)
LEMMA StoreType ==
    ASSUME TypeOK, NEW t \in Tables, NEW k \in Data, NEW v \in Rows \cup {NoRow}
    PROVE  [rows EXCEPT ![t][k] = v] \in [Tables -> [Data -> Rows \cup {NoRow}]]
  <1>1. [rows[t] EXCEPT ![k] = v] \in Contents
    BY DEF TypeOK, Contents
  <1> QED  BY <1>1 DEF TypeOK, Contents

LEMMA NothingType == Nothing \in Contents
  BY DEF Nothing, Contents

-----------------------------------------------------------------------------
(* Types. *)

LEMMA InitType == Init => TypeOK
  BY RestartsAreBounded DEF Init, TypeOK, Nothing, Idle

LEMMA BeginType ==
    ASSUME TypeOK, NEW c \in Clients, NEW s \in Statements,
           NEW next \in {"create", "put", "scan"}, Begin(c, s, next)
    PROVE  TypeOK'
  <1>1. s.table \in Tables
    BY StatementFields
  <1>2. before' \in [Clients -> [Data -> Rows \cup {NoRow}]]
    BY <1>1 DEF TypeOK, Begin
  <1>3. todo' \in [Clients -> [Data -> Rows \cup {NoRow}]]
    BY NothingType DEF TypeOK, Begin, Contents
  <1>4. overlapped' \in [Clients -> BOOLEAN]
    <2>1. \A d \in Clients : overlapped[d] \in BOOLEAN
      BY DEF TypeOK
    <2>2. \A d \in Clients :
            (IF d = c THEN Others(c, s.table) # {}
             ELSE overlapped[d] \/ d \in Others(c, s.table)) \in BOOLEAN
      BY <2>1
    <2> QED  BY <2>2 DEF Begin
  <1> QED  BY <1>2, <1>3, <1>4 DEF TypeOK, Begin, server

LEMMA ReturnType ==
    ASSUME TypeOK, NEW c \in Clients, Return(c)
    PROVE  /\ pc' \in [Clients -> {"idle", "create", "put", "scan", "write"}]
           /\ stmt' \in [Clients -> Statements \cup {Idle}]
           /\ todo' \in [Clients -> [Data -> Rows \cup {NoRow}]]
           /\ affected' \in [Clients -> Nat]
           /\ before' \in [Clients -> [Data -> Rows \cup {NoRow}]]
           /\ overlapped' \in [Clients -> BOOLEAN]
  BY NothingType DEF TypeOK, Return, Contents

LEMMA PutRowType ==
    ASSUME TypeOK, KindFits, NEW c \in Clients, PutRow(c)
    PROVE  TypeOK'
  <1>1. stmt[c] \in Statements /\ stmt[c].kind = "insert"
    BY DEF KindFits, PutRow, Active
  <1>2. stmt[c].row \in Rows
    BY <1>1, StatementFields
  <1>3. Key(stmt[c].row) \in Data
    BY <1>2, KeyIsData
  <1>4. rows' \in [Tables -> [Data -> Rows \cup {NoRow}]]
    <2>1. CASE engineOpen
      <3>1. rows' = [rows EXCEPT ![stmt[c].table][Key(stmt[c].row)] = stmt[c].row]
        BY <2>1 DEF PutRow
      <3>2. stmt[c].table \in Tables
        BY <1>1, StatementFields
      <3> QED  BY <3>1, <3>2, <1>2, <1>3, StoreType
    <2>2. CASE ~engineOpen
      BY <2>2 DEF PutRow, TypeOK
    <2> QED  BY <2>1, <2>2
  <1> QED  BY <1>4, ReturnType DEF PutRow, TypeOK, server

LEMMA ScanType ==
    ASSUME TypeOK, KindFits, NEW c \in Clients, Scan(c)
    PROVE  TypeOK'
  <1>1. stmt[c] \in Statements /\ stmt[c].kind \in {"select", "update", "delete", "drop"}
    BY DEF KindFits, Scan, Active
  <1>2. rows[stmt[c].table] \in Contents
    BY <1>1, StatementFields DEF TypeOK, Contents
  <1> DEFINE found == Selected(stmt[c], rows[stmt[c].table])
  <1>3. found \in Contents
    BY <1>1, <1>2, SelectedType
  <1>4. PICK seen \in SUBSET Data :
          todo' = [todo EXCEPT ![c] = [k \in Data |-> IF k \in seen THEN found[k] ELSE NoRow]]
    BY DEF Scan
  <1>5. [k \in Data |-> IF k \in seen THEN found[k] ELSE NoRow] \in Contents
    BY <1>3 DEF Contents
  <1> HIDE DEF found
  <1>6. todo' \in [Clients -> [Data -> Rows \cup {NoRow}]]
    BY <1>4, <1>5 DEF Contents, TypeOK
  <1> QED  BY <1>6 DEF Scan, TypeOK, server

LEMMA WriteRowType ==
    ASSUME TypeOK, KindFits, NEW c \in Clients, WriteRow(c)
    PROVE  TypeOK'
  <1>1. stmt[c] \in Statements /\ stmt[c].kind \in {"update", "delete", "drop"}
    BY DEF KindFits, WriteRow, Active
  <1>2. stmt[c].table \in Tables
    BY <1>1, StatementFields
  <1>3. PICK k \in Collected(c) :
          /\ todo' = [todo EXCEPT ![c][k] = NoRow]
          /\ IF engineOpen
             THEN rows' = [rows EXCEPT ![stmt[c].table][k] =
                              IF stmt[c].kind = "update"
                              THEN Assigned(stmt[c], todo[c][k]) ELSE NoRow]
             ELSE UNCHANGED rows
    BY DEF WriteRow
  <1>4. k \in Data /\ todo[c][k] \in Rows
    BY <1>3 DEF Collected, TypeOK
  <1>5. todo' \in [Clients -> [Data -> Rows \cup {NoRow}]]
    BY <1>3, <1>4 DEF TypeOK
  <1>6. (IF stmt[c].kind = "update" THEN Assigned(stmt[c], todo[c][k]) ELSE NoRow)
            \in Rows \cup {NoRow}
    BY <1>1, <1>4, AssignedIsRow
  <1>7. rows' \in [Tables -> [Data -> Rows \cup {NoRow}]]
    <2> DEFINE v == IF stmt[c].kind = "update"
                    THEN Assigned(stmt[c], todo[c][k]) ELSE NoRow
    <2>1. CASE engineOpen
      <3>1. rows' = [rows EXCEPT ![stmt[c].table][k] = v]
        BY <1>3, <2>1
      <3> HIDE DEF v
      <3>2. v \in Rows \cup {NoRow}
        BY <1>6 DEF v
      <3> QED  BY <3>1, <3>2, <1>2, <1>4, StoreType
    <2>2. CASE ~engineOpen
      BY <1>3, <2>2 DEF TypeOK
    <2> QED  BY <2>1, <2>2
  <1>8. affected' \in [Clients -> Nat]
    BY DEF WriteRow, TypeOK
  <1> QED  BY <1>5, <1>7, <1>8 DEF WriteRow, TypeOK, server

LEMMA StopType == ASSUME TypeOK, Stop PROVE TypeOK'
  <1>1. restarts' \in 0..MaxRestarts
    BY RestartsAreBounded DEF TypeOK, Stop
  <1> QED  BY <1>1, NothingType DEF TypeOK, Stop, NoStatements, Contents

LEMMA StepType ==
    ASSUME TypeOK, KindFits, [Next]_vars
    PROVE  TypeOK'
  <1>1. ASSUME NEW c \in Clients, NEW s \in Statements, BeginInsert(c, s)
        PROVE  TypeOK'
    BY <1>1, BeginType DEF BeginInsert
  <1>2. ASSUME NEW c \in Clients, NEW s \in Statements, BeginScan(c, s)
        PROVE  TypeOK'
    BY <1>2, BeginType DEF BeginScan
  <1>3. ASSUME NEW c \in Clients, NEW s \in Statements, BeginCreate(c, s)
        PROVE  TypeOK'
    BY <1>3, BeginType DEF BeginCreate
  <1>4. ASSUME NEW c \in Clients, CreateTable(c)
        PROVE  TypeOK'
    <2>1. stmt[c] \in Statements
      BY <1>4 DEF KindFits, CreateTable, Active
    <2>2. stmt[c].table \in Tables
      BY <2>1, StatementFields
    <2> QED  BY <1>4, <2>2, ReturnType DEF CreateTable, TypeOK
  <1>5. ASSUME NEW c \in Clients, Select(c) PROVE TypeOK'
    BY <1>5, ReturnType DEF Select, TypeOK, server
  <1>6. ASSUME NEW c \in Clients, Answer(c) PROVE TypeOK'
    BY <1>6, ReturnType DEF Answer, TypeOK, server
  <1>7. ASSUME NEW c \in Clients, DropTable(c) PROVE TypeOK'
    BY <1>7, ReturnType DEF DropTable, TypeOK
  <1>8. CASE Close
    BY <1>8 DEF Close, TypeOK, clients
  <1>9. CASE Start
    BY <1>9 DEF Start, TypeOK, clients
  <1>10. CASE UNCHANGED vars
    BY <1>10 DEF TypeOK, vars, server, clients
  <1> QED
    BY <1>1, <1>2, <1>3, <1>4, <1>5, <1>6, <1>7, <1>8, <1>9, <1>10,
       PutRowType, ScanType, WriteRowType, StopType
    DEF Next, Advance
-----------------------------------------------------------------------------
(* Where a statement can be, and who notices whom. *)

LEMMA StepKind ==
    ASSUME TypeOK, KindFits, [Next]_vars
    PROVE  KindFits'
  <1> USE DEF KindFits, TypeOK, Active
  <1>1. ASSUME NEW c \in Clients, NEW s \in Statements,
               BeginInsert(c, s) \/ BeginScan(c, s) \/ BeginCreate(c, s)
        PROVE  KindFits'
    BY <1>1 DEF Begin, BeginInsert, BeginScan, BeginCreate
  <1>2. ASSUME NEW c \in Clients, Return(c) PROVE KindFits'
    BY <1>2 DEF Return
  <1>3. ASSUME NEW c \in Clients, Scan(c) PROVE KindFits'
    BY <1>3 DEF Scan
  <1>4. ASSUME NEW c \in Clients, WriteRow(c) PROVE KindFits'
    BY <1>4 DEF WriteRow
  <1>5. CASE Close
    BY <1>5 DEF Close, clients
  <1>6. CASE Stop
    BY <1>6 DEF Stop, NoStatements
  <1>7. CASE Start
    BY <1>7 DEF Start, clients
  <1>8. CASE UNCHANGED vars
    BY <1>8 DEF vars, clients
  <1> QED
    BY <1>1, <1>2, <1>3, <1>4, <1>5, <1>6, <1>7, <1>8
    DEF Next, Advance, CreateTable, PutRow, Select, Answer, DropTable

LEMMA StepIdle ==
    ASSUME TypeOK, IdleWhenDown, [Next]_vars
    PROVE  IdleWhenDown'
  <1> USE DEF IdleWhenDown, TypeOK, Active
  <1>1. ASSUME NEW c \in Clients, NEW s \in Statements,
               BeginInsert(c, s) \/ BeginScan(c, s) \/ BeginCreate(c, s)
        PROVE  IdleWhenDown'
    BY <1>1 DEF Begin, BeginInsert, BeginScan, BeginCreate, server
  <1>2. ASSUME NEW c \in Clients, Return(c), UNCHANGED running PROVE IdleWhenDown'
    BY <1>2 DEF Return
  <1>3. ASSUME NEW c \in Clients, Scan(c) PROVE IdleWhenDown'
    BY <1>3 DEF Scan, server
  <1>4. ASSUME NEW c \in Clients, WriteRow(c) PROVE IdleWhenDown'
    BY <1>4 DEF WriteRow, server
  <1>5. CASE Close
    BY <1>5 DEF Close, clients
  <1>6. CASE Stop
    BY <1>6 DEF Stop, NoStatements
  <1>7. CASE Start
    BY <1>7 DEF Start
  <1>8. CASE UNCHANGED vars
    BY <1>8 DEF vars, clients, server
  <1> QED
    BY <1>1, <1>2, <1>3, <1>4, <1>5, <1>6, <1>7, <1>8
    DEF Next, Advance, CreateTable, PutRow, Select, Answer, DropTable, server

LEMMA StepOverlap ==
    ASSUME TypeOK, OverlapIsMutual, [Next]_vars
    PROVE  OverlapIsMutual'
  <1> USE DEF OverlapIsMutual, TypeOK, Active
  <1>1. ASSUME NEW c \in Clients, NEW s \in Statements, NEW next \in {"create", "put", "scan"},
               Begin(c, s, next)
        PROVE  OverlapIsMutual'
    <2> SUFFICES ASSUME NEW a \in Clients, NEW b \in Clients, a # b,
                        pc'[a] # "idle", pc'[b] # "idle",
                        stmt'[a].table = stmt'[b].table
                 PROVE  overlapped'[a]
      OBVIOUS
    <2>1. \A d \in Clients \ {c} : pc'[d] = pc[d] /\ stmt'[d] = stmt[d]
      BY <1>1 DEF Begin
    <2>2. stmt'[c] = s
      BY <1>1 DEF Begin
    <2>3. CASE a = c
      <3>1. b \in Others(c, s.table)
        BY <2>1, <2>2, <2>3 DEF Others
      <3> QED  BY <1>1, <2>3, <3>1 DEF Begin
    <2>4. CASE b = c
      <3>1. a \in Others(c, s.table)
        BY <2>1, <2>2, <2>4 DEF Others
      <3>2. overlapped'[a] = (overlapped[a] \/ a \in Others(c, s.table))
        BY <1>1, <2>4 DEF Begin
      <3> QED  BY <3>1, <3>2
    <2>5. CASE a # c /\ b # c
      <3>1. overlapped[a]
        BY <2>1, <2>5
      <3>2. overlapped'[a] = (overlapped[a] \/ a \in Others(c, s.table))
        BY <1>1, <2>5 DEF Begin
      <3> QED  BY <3>1, <3>2
    <2> QED  BY <2>3, <2>4, <2>5
  <1>2. ASSUME NEW c \in Clients, Return(c) PROVE OverlapIsMutual'
    BY <1>2 DEF Return
  <1>3. ASSUME NEW c \in Clients, Scan(c) PROVE OverlapIsMutual'
    BY <1>3 DEF Scan
  <1>4. ASSUME NEW c \in Clients, WriteRow(c) PROVE OverlapIsMutual'
    BY <1>4 DEF WriteRow
  <1>5. CASE Close
    BY <1>5 DEF Close, clients
  <1>6. CASE Stop
    BY <1>6 DEF Stop, NoStatements
  <1>7. CASE Start
    BY <1>7 DEF Start, clients
  <1>8. CASE UNCHANGED vars
    BY <1>8 DEF vars, clients
  <1> QED
    BY <1>1, <1>2, <1>3, <1>4, <1>5, <1>6, <1>7, <1>8
    DEF Next, Advance, CreateTable, PutRow, Select, Answer, DropTable,
        BeginInsert, BeginScan, BeginCreate
-----------------------------------------------------------------------------
(* A statement that is alone on its table stays on course.                 *)

(* What its rows are to become, key by key. *)
LEMMA EffectAt ==
    ASSUME NEW s \in Statements, s.kind \in {"update", "delete", "drop"},
           NEW tbl \in Contents, NEW k \in Data
    PROVE  /\ Selected(s, tbl)[k] = NoRow => Effect(s, tbl)[k] = tbl[k]
           /\ Selected(s, tbl)[k] # NoRow =>
                /\ Selected(s, tbl)[k] = tbl[k]
                /\ Effect(s, tbl)[k] = IF s.kind = "update"
                                       THEN Assigned(s, tbl[k]) ELSE NoRow
  <1>1. CASE s.kind = "update"
    BY <1>1, StatementFields, NoRowIsNoRow DEF Selected, Effect, Contents
  <1>2. CASE s.kind = "delete"
    BY <1>2, StatementFields, NoRowIsNoRow DEF Selected, Effect, Contents
  <1>3. CASE s.kind = "drop"
    BY <1>3 DEF Selected, Effect, Contents, Nothing
  <1> QED  BY <1>1, <1>2, <1>3

(* Nothing that concerns d has changed. *)
LEMMA Undisturbed ==
    ASSUME NEW d \in Clients, HalfDone(d),
           pc'[d] = pc[d], stmt'[d] = stmt[d], todo'[d] = todo[d],
           affected'[d] = affected[d], before'[d] = before[d],
           rows'[stmt[d].table] = rows[stmt[d].table]
    PROVE  HalfDone(d)'
  BY DEF HalfDone, Picked

(* Another client's step leaves the table alone. *)
LEMMA ElsewhereUndisturbed ==
    ASSUME TypeOK, KindFits, OverlapIsMutual,
           NEW c \in Clients, NEW d \in Clients, c # d,
           Active(c), Active(d), ~overlapped[d],
           NEW k \in Data, NEW v,
           rows' = [rows EXCEPT ![stmt[c].table][k] = v]
    PROVE  rows'[stmt[d].table] = rows[stmt[d].table]
  <1>1. stmt[c].table # stmt[d].table
    BY DEF OverlapIsMutual
  <1>2. stmt[d].table \in Tables
    BY StatementFields DEF KindFits
  <1> QED  BY <1>1, <1>2 DEF TypeOK

(* A write moves the row it writes, and only that one, to its effect.      *)
LEMMA WriteAdvances ==
    ASSUME TypeOK, KindFits, NEW c \in Clients, WriteRow(c), engineOpen, HalfDone(c)
    PROVE  HalfDone(c)'
  <1> DEFINE s == stmt[c]
             t == stmt[c].table
             tbl == before[c]
  <1>1. s \in Statements /\ s.kind \in {"update", "delete", "drop"} /\ t \in Tables
    BY StatementFields DEF KindFits, WriteRow, Active
  <1>2. tbl \in Contents
    BY DEF TypeOK, Contents
  <1>3. pc[c] = "write" /\ pc'[c] = "write" /\ stmt'[c] = s /\ before'[c] = tbl
    BY DEF WriteRow
  <1>4. PICK k \in Data :
          /\ todo[c][k] # NoRow
          /\ todo' = [todo EXCEPT ![c][k] = NoRow]
          /\ rows' = [rows EXCEPT ![t][k] = IF s.kind = "update"
                                           THEN Assigned(s, todo[c][k]) ELSE NoRow]
    BY DEF WriteRow, Collected
  <1>5. todo[c][k] = Picked(c)[k] /\ Picked(c)[k] # NoRow
    BY <1>3, <1>4 DEF HalfDone
  <1>6. todo[c][k] = tbl[k]
    BY <1>1, <1>2, <1>5, EffectAt DEF Picked
  <1>7. todo'[c][k] = NoRow /\ rows'[t][k] = Effect(s, tbl)[k]
    <2>1. todo'[c][k] = NoRow
      BY <1>4 DEF TypeOK
    <2>2. rows'[t][k] = IF s.kind = "update" THEN Assigned(s, todo[c][k]) ELSE NoRow
      BY <1>1, <1>4 DEF TypeOK
    <2> QED  BY <2>1, <2>2, <1>1, <1>2, <1>5, <1>6, EffectAt DEF Picked
  <1>8. \A j \in Data \ {k} : todo'[c][j] = todo[c][j] /\ rows'[t][j] = rows[t][j]
    BY <1>1, <1>4 DEF TypeOK
  <1>9. Picked(c)' = Picked(c)
    BY <1>3 DEF Picked
  <1>10. \A j \in Data :
            \/ todo'[c][j] = Picked(c)'[j] /\ rows'[t][j] = tbl[j]
            \/ todo'[c][j] = NoRow /\ rows'[t][j] = Effect(s, tbl)[j]
    <2> SUFFICES ASSUME NEW j \in Data
                 PROVE  \/ todo'[c][j] = Picked(c)[j] /\ rows'[t][j] = tbl[j]
                        \/ todo'[c][j] = NoRow /\ rows'[t][j] = Effect(s, tbl)[j]
      BY <1>9
    <2>1. CASE j = k
      BY <2>1, <1>7
    <2>2. CASE j # k
      BY <2>2, <1>3, <1>8 DEF HalfDone
    <2> QED  BY <2>1, <2>2
  <1>11. s.kind # "drop" =>
            affected'[c] = Cardinality({j \in Data : todo'[c][j] # Picked(c)'[j]})
    <2> SUFFICES ASSUME s.kind # "drop"
                 PROVE  affected'[c] = Cardinality({j \in Data : todo'[c][j] # Picked(c)[j]})
      BY <1>9
    <2> DEFINE done == {j \in Data : todo[c][j] # Picked(c)[j]}
    <2>1. affected[c] = Cardinality(done)
      BY <1>3 DEF HalfDone
    <2>2. {j \in Data : todo'[c][j] # Picked(c)[j]} = done \cup {k}
      BY <1>5, <1>7, <1>8
    <2>3. k \notin done
      BY <1>5
    <2>4. IsFiniteSet(done)
      BY DataIsFinite, FS_Subset
    <2>5. Cardinality(done \cup {k}) = Cardinality(done) + 1
      BY <2>3, <2>4, FS_AddElement
    <2>6. affected'[c] = affected[c] + 1
      BY DEF WriteRow, TypeOK
    <2> QED  BY <2>1, <2>2, <2>5, <2>6
  <1> QED  BY <1>3, <1>10, <1>11 DEF HalfDone

(* The scan collects exactly what there is to collect. *)
LEMMA ScanCollects ==
    ASSUME TypeOK, KindFits, NEW c \in Clients, Scan(c), engineOpen, HalfDone(c)
    PROVE  HalfDone(c)'
  <1> DEFINE s == stmt[c]
             tbl == before[c]
  <1>1. s \in Statements /\ s.kind \in {"update", "delete", "drop"}
    BY DEF KindFits, Scan, Active
  <1>2. tbl \in Contents
    BY DEF TypeOK, Contents
  <1>3. /\ pc[c] = "scan" /\ pc'[c] = "write" /\ stmt'[c] = s /\ before'[c] = tbl
        /\ affected'[c] = 0 /\ rows' = rows /\ rows[s.table] = tbl
    BY DEF Scan, HalfDone, TypeOK
  <1>4. Picked(c)' = Selected(s, tbl)
    BY <1>3 DEF Picked
  <1>5. \A k \in Data : todo'[c][k] = Selected(s, tbl)[k]
    <2> DEFINE found == Selected(s, rows[s.table])
    <2>1. todo'[c] = [k \in Data |-> found[k]]
      BY DEF Scan, TypeOK
    <2> QED  BY <2>1, <1>3
  <1>6. {k \in Data : todo'[c][k] # Picked(c)'[k]} = {}
    BY <1>4, <1>5
  <1>7. affected'[c] = Cardinality({k \in Data : todo'[c][k] # Picked(c)'[k]})
    BY <1>3, <1>6, FS_EmptySet
  <1> QED  BY <1>3, <1>4, <1>5, <1>7 DEF HalfDone

LEMMA StepOnCourse ==
    ASSUME TypeOK, KindFits, IdleWhenDown, OverlapIsMutual, AloneIsOnCourse, [Next]_vars
    PROVE  AloneIsOnCourse'
  <1> SUFFICES ASSUME NEW d \in Clients, Active(d)', ~overlapped'[d], engineOpen'
               PROVE  HalfDone(d)'
    BY DEF AloneIsOnCourse
  <1>1. ASSUME NEW c \in Clients, NEW s \in Statements,
               NEW next \in {"create", "put", "scan"}, Begin(c, s, next)
        PROVE  HalfDone(d)'
    <2>1. CASE d = c
      BY <1>1, <2>1, StatementFields DEF Begin, HalfDone, TypeOK
    <2>2. CASE d # c
      <3>1. Active(d) /\ ~overlapped[d] /\ engineOpen
        BY <1>1, <2>2 DEF Begin, Active, TypeOK, server
      <3>2. HalfDone(d)
        BY <3>1 DEF AloneIsOnCourse
      <3> QED  BY <1>1, <2>2, <3>2, Undisturbed DEF Begin, TypeOK
    <2> QED  BY <2>1, <2>2
  <1>2. ASSUME NEW c \in Clients, Active(c), Return(c), engineOpen,
               UNCHANGED rows \/ \E k \in Data, v \in Rows :
                   rows' = [rows EXCEPT ![stmt[c].table][k] = v]
        PROVE  HalfDone(d)'
    <2>1. d # c
      BY <1>2 DEF Return, Active, TypeOK
    <2>2. /\ pc'[d] = pc[d] /\ stmt'[d] = stmt[d] /\ todo'[d] = todo[d]
          /\ affected'[d] = affected[d] /\ before'[d] = before[d]
          /\ overlapped'[d] = overlapped[d]
      BY <1>2, <2>1 DEF Return, TypeOK
    <2>3. Active(d) /\ ~overlapped[d]
      BY <2>2 DEF Active
    <2>4. HalfDone(d)
      BY <1>2, <2>3 DEF AloneIsOnCourse
    <2>5. rows'[stmt[d].table] = rows[stmt[d].table]
      <3>1. CASE UNCHANGED rows
        BY <3>1
      <3>2. ASSUME NEW k \in Data, NEW v \in Rows,
                   rows' = [rows EXCEPT ![stmt[c].table][k] = v]
            PROVE  rows'[stmt[d].table] = rows[stmt[d].table]
        BY <1>2, <2>1, <2>3, <3>2, ElsewhereUndisturbed
      <3> QED  BY <1>2, <3>1, <3>2
    <2> QED  BY <2>2, <2>4, <2>5, Undisturbed
  <1>3. ASSUME NEW c \in Clients, PutRow(c) PROVE HalfDone(d)'
    <2>1. stmt[c] \in Statements /\ stmt[c].kind = "insert"
      BY <1>3 DEF KindFits, PutRow, Active
    <2>2. stmt[c].row \in Rows /\ Key(stmt[c].row) \in Data
      BY <2>1, StatementFields, KeyIsData
    <2>3. Active(c) /\ Return(c) /\ engineOpen
      BY <1>3 DEF PutRow, Active, server
    <2>4. rows' = [rows EXCEPT ![stmt[c].table][Key(stmt[c].row)] = stmt[c].row]
      BY <1>3, <2>3 DEF PutRow
    <2> QED  BY <2>2, <2>3, <2>4, <1>2
  <1>4. ASSUME NEW c \in Clients, Scan(c) PROVE HalfDone(d)'
    <2>1. Active(d) /\ ~overlapped[d] /\ engineOpen
      BY <1>4 DEF Scan, Active, TypeOK, server
    <2>2. HalfDone(d)
      BY <2>1 DEF AloneIsOnCourse
    <2>3. CASE d = c
      BY <1>4, <2>1, <2>2, <2>3, ScanCollects
    <2>4. CASE d # c
      BY <1>4, <2>2, <2>4, Undisturbed DEF Scan, TypeOK
    <2> QED  BY <2>3, <2>4
  <1>5. ASSUME NEW c \in Clients, WriteRow(c) PROVE HalfDone(d)'
    <2>1. Active(c) /\ Active(d) /\ ~overlapped[d] /\ engineOpen
      BY <1>5 DEF WriteRow, Active, server
    <2>2. HalfDone(d)
      BY <2>1 DEF AloneIsOnCourse
    <2>3. CASE d = c
      BY <1>5, <2>1, <2>2, <2>3, WriteAdvances
    <2>4. CASE d # c
      <3>1. PICK k \in Data :
              /\ todo' = [todo EXCEPT ![c][k] = NoRow]
              /\ rows' = [rows EXCEPT ![stmt[c].table][k] =
                             IF stmt[c].kind = "update"
                             THEN Assigned(stmt[c], todo[c][k]) ELSE NoRow]
        BY <1>5, <2>1 DEF WriteRow, Collected
      <3>2. rows'[stmt[d].table] = rows[stmt[d].table]
        BY <2>1, <2>4, <3>1, ElsewhereUndisturbed
      <3>3. todo'[d] = todo[d] /\ affected'[d] = affected[d]
        BY <1>5, <2>4, <3>1 DEF WriteRow, TypeOK
      <3> QED  BY <1>5, <2>2, <3>2, <3>3, Undisturbed DEF WriteRow
    <2> QED  BY <2>3, <2>4
  <1>6. CASE Close
    BY <1>6 DEF Close
  <1>7. CASE Stop
    BY <1>7 DEF Stop
  <1>8. CASE Start
    BY <1>8 DEF Start, IdleWhenDown, Active, clients
  <1>9. CASE UNCHANGED vars
    <2>1. HalfDone(d)
      BY <1>9 DEF AloneIsOnCourse, Active, vars, clients, server
    <2> QED  BY <1>9, <2>1, Undisturbed DEF vars, clients
  <1>10. ASSUME NEW c \in Clients, CreateTable(c) PROVE HalfDone(d)'
    BY <1>10, <1>2 DEF CreateTable, Active
  <1>11. ASSUME NEW c \in Clients, Select(c) PROVE HalfDone(d)'
    BY <1>11, <1>2 DEF Select, Active, server
  <1>12. ASSUME NEW c \in Clients, Answer(c) PROVE HalfDone(d)'
    BY <1>12, <1>2 DEF Answer, Active, server
  <1>13. ASSUME NEW c \in Clients, DropTable(c) PROVE HalfDone(d)'
    BY <1>13, <1>2 DEF DropTable, Active
  <1> QED
    BY <1>1, <1>3, <1>4, <1>5, <1>6, <1>7, <1>8, <1>9, <1>10, <1>11, <1>12, <1>13
    DEF Next, Advance, BeginInsert, BeginScan, BeginCreate

-----------------------------------------------------------------------------
LEMMA InitInv == Init => IInv
  <1> SUFFICES ASSUME Init PROVE IInv
    OBVIOUS
  <1>1. TypeOK
    BY InitType
  <1>2. \A c \in Clients : pc[c] = "idle"
    BY DEF Init
  <1> QED
    BY <1>1, <1>2 DEF IInv, KindFits, IdleWhenDown, OverlapIsMutual, AloneIsOnCourse, Active

LEMMA StepInv == IInv /\ [Next]_vars => IInv'
  BY StepType, StepKind, StepIdle, StepOverlap, StepOnCourse DEF IInv

LEMMA Invariance == Spec => []IInv
  BY InitInv, StepInv, PTL DEF Spec

(* Every variable of the server keeps its type, whatever the statements,   *)
(* the data and the crashes: in particular every row UPDATE stores has     *)
(* every column of its table.                                              *)
THEOREM TypeCorrect == Spec => []TypeOK
  BY Invariance, PTL DEF IInv

(* The tables a running server knows are the tables a restart would find:  *)
(* CreateTable, DropTable and loadAll change cache and engine together.    *)
THEOREM CacheAgrees == Spec => []CacheIsCatalog
  <1>1. Init => CacheIsCatalog
    BY DEF Init, CacheIsCatalog
  <1>2. CacheIsCatalog /\ [Next]_vars => CacheIsCatalog'
    <2> SUFFICES ASSUME CacheIsCatalog, [Next]_vars PROVE CacheIsCatalog'
      OBVIOUS
    <2> USE DEF CacheIsCatalog
    <2>1. ASSUME UNCHANGED <<running, cache, catalog>> PROVE CacheIsCatalog'
      BY <2>1
    <2>2. ASSUME NEW c \in Clients, CreateTable(c) PROVE CacheIsCatalog'
      BY <2>2 DEF CreateTable
    <2>3. ASSUME NEW c \in Clients, DropTable(c) PROVE CacheIsCatalog'
      BY <2>3 DEF DropTable
    <2>4. CASE Stop
      BY <2>4 DEF Stop
    <2>5. CASE Start
      BY <2>5 DEF Start
    <2>6. ASSUME NEW c \in Clients,
                 PutRow(c) \/ Scan(c) \/ Select(c) \/ WriteRow(c) \/ Answer(c)
          PROVE  UNCHANGED <<running, cache, catalog>>
      BY <2>6 DEF PutRow, Scan, Select, WriteRow, Answer, server
    <2>7. ASSUME NEW c \in Clients, NEW s \in Statements,
                 BeginInsert(c, s) \/ BeginScan(c, s) \/ BeginCreate(c, s)
          PROVE  UNCHANGED <<running, cache, catalog>>
      BY <2>7 DEF BeginInsert, BeginScan, BeginCreate, Begin, server
    <2>8. Close \/ UNCHANGED vars => UNCHANGED <<running, cache, catalog>>
      BY DEF Close, vars, server
    <2> QED
      BY <2>1, <2>2, <2>3, <2>4, <2>5, <2>6, <2>7, <2>8 DEF Next, Advance
  <1> QED  BY <1>1, <1>2, PTL DEF Spec

(* A statement that answers without another statement having used its      *)
(* table has exactly its sequential effect on it and has counted the rows  *)
(* it changed, for any number of connections (executor.go, server.go).     *)
LEMMA AnswerIsEffect ==
    ASSUME IInv, [Next]_vars, NEW c \in Clients,
           Answers(c), ~overlapped[c], engineOpen
    PROVE  /\ rows'[stmt[c].table] = Effect(stmt[c], before[c])
           /\ stmt[c].kind \in {"update", "delete"} =>
                affected[c] = Cardinality({k \in Data : before[c][k] \in stmt[c].where})
  <1> DEFINE s == stmt[c]
             tbl == before[c]
  <1> USE DEF IInv
  <1>1. Active(c) /\ pc'[c] = "idle" /\ running'
    BY DEF Answers
  <1>2. HalfDone(c)
    BY <1>1 DEF AloneIsOnCourse
  <1>3. s \in Statements /\ s.table \in Tables
    BY <1>1, StatementFields DEF KindFits
  <1>4. tbl \in Contents
    BY DEF TypeOK, Contents
  <1>5. \/ CreateTable(c) \/ PutRow(c) \/ Select(c) \/ Answer(c) \/ DropTable(c)
    <2>1. ASSUME NEW d \in Clients, NEW st \in Statements, NEW next \in {"create", "put", "scan"},
                 Begin(d, st, next)
          PROVE  FALSE
      BY <1>1, <2>1 DEF Begin, Active, TypeOK
    <2>2. ASSUME NEW d \in Clients, d # c, Return(d) PROVE FALSE
      BY <1>1, <2>2 DEF Return, Active, TypeOK
    <2>3. ASSUME NEW d \in Clients, Scan(d) PROVE FALSE
      BY <1>1, <2>3 DEF Scan, Active, TypeOK
    <2>4. ASSUME NEW d \in Clients, WriteRow(d) PROVE FALSE
      BY <1>1, <2>4 DEF WriteRow, Active
    <2>5. ~Close /\ ~Stop /\ ~Start /\ ~UNCHANGED vars
      BY <1>1 DEF Close, Stop, Start, Active, clients, vars
    <2> QED
      BY <2>1, <2>2, <2>3, <2>4, <2>5
      DEF Next, Advance, BeginInsert, BeginScan, BeginCreate,
          CreateTable, PutRow, Select, Answer, DropTable
  <1>6. CASE CreateTable(c)
    <2>1. s.kind = "create" /\ rows' = rows /\ rows[s.table] = tbl
      BY <1>6, <1>2 DEF CreateTable, KindFits, HalfDone
    <2> QED  BY <2>1 DEF Effect
  <1>7. CASE PutRow(c)
    <2>1. s.kind = "insert" /\ rows[s.table] = tbl
      BY <1>7, <1>2 DEF PutRow, KindFits, HalfDone
    <2>2. rows' = [rows EXCEPT ![s.table][Key(s.row)] = s.row]
      BY <1>7 DEF PutRow
    <2> QED  BY <2>1, <2>2, <1>3 DEF Effect, TypeOK
  <1>8. CASE Select(c)
    <2>1. s.kind = "select" /\ rows' = rows /\ rows[s.table] = tbl
      BY <1>8, <1>2 DEF Select, HalfDone
    <2> QED  BY <2>1 DEF Effect
  <1>9. CASE Answer(c) \/ DropTable(c)
    <2>1. pc[c] = "write" /\ rows' = rows /\ s.kind \in {"update", "delete", "drop"}
      BY <1>9 DEF Answer, DropTable, KindFits
    <2>2. \A k \in Data : todo[c][k] = NoRow
      BY <1>9 DEF Answer, DropTable, Collected
    <2>3. /\ rows[s.table] = [k \in Data |-> rows[s.table][k]]
          /\ Effect(s, tbl) = [k \in Data |-> Effect(s, tbl)[k]]
      BY <2>1, <1>3, <1>4 DEF Effect, Nothing, TypeOK, Contents
    <2>4. \A k \in Data : rows[s.table][k] = Effect(s, tbl)[k]
      BY <1>2, <1>3, <1>4, <2>1, <2>2, EffectAt DEF HalfDone, Picked
    <2>5. rows[s.table] = Effect(s, tbl)
      BY <2>3, <2>4
    <2>6. ASSUME s.kind \in {"update", "delete"}
          PROVE  affected[c] = Cardinality({k \in Data : tbl[k] \in s.where})
      <3>1. affected[c] = Cardinality({k \in Data : todo[c][k] # Picked(c)[k]})
        BY <1>2, <2>1, <2>6 DEF HalfDone
      <3>2. \A k \in Data : Picked(c)[k] # NoRow <=> tbl[k] \in s.where
        BY <1>3, <2>6, StatementFields, NoRowIsNoRow DEF Picked, Selected
      <3>3. {k \in Data : todo[c][k] # Picked(c)[k]} = {k \in Data : tbl[k] \in s.where}
        BY <2>2, <3>2
      <3> QED  BY <3>1, <3>3
    <2> QED  BY <2>1, <2>5, <2>6
  <1> QED  BY <1>5, <1>6, <1>7, <1>8, <1>9

(* AloneIsAtomic in every behaviour: isolation in execUpdate, execDelete,  *)
(* execInsert and execDropTable rests only on no other statement using the *)
(* table meanwhile.                                                        *)
THEOREM AloneAtomic == Spec => AloneIsAtomic
  <1>1. IInv /\ [Next]_vars =>
          [\A c \in Clients :
             LET s == stmt[c]
             IN  Answers(c) /\ ~overlapped[c] /\ engineOpen =>
                    /\ rows'[s.table] = Effect(s, before[c])
                    /\ s.kind \in {"update", "delete"} =>
                         affected[c] = Cardinality({k \in Data : before[c][k] \in s.where})]_vars
    BY AnswerIsEffect
  <1> QED  BY <1>1, Invariance, PTL DEF AloneIsAtomic, Spec
=============================================================================
