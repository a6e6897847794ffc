----------------------------- MODULE SQLServer -----------------------------
(***************************************************************************)
(* The SQL server of kodeddb-core: one goroutine per connection            *)
(* (api/server.go) that runs one statement at a time (query/executor.go)   *)
(* on the shared schema store and engine.                                  *)
(*                                                                         *)
(* The engine is atomic call by call, and nothing is atomic beyond that: a *)
(* statement looks its table up, scans, and then writes row by row, while  *)
(* other connections do the same, the server is closed or the process      *)
(* dies. Here the engine is the map it promises to be (DurableStore): the  *)
(* rows of a table are the keys with its prefix, a schema is one more key. *)
(***************************************************************************)
EXTENDS Integers, FiniteSets

CONSTANTS
    Clients,      (* connections                                            *)
    Tables,       (* table names                                            *)
    Columns,      (* the columns of every table                             *)
    PrimaryKey,   (* the column that is the primary key                     *)
    Data,         (* what a column can hold                                 *)
    NoRow,        (* the engine has no value under this key                 *)
    Statements,   (* the statements clients send                            *)
    MaxRestarts   (* bound: crashes and shutdowns                           *)

Rows == [Columns -> Data]
Key(row) == row[PrimaryKey]

ASSUME PrimaryKeyIsAColumn == PrimaryKey \in Columns
ASSUME NoRowIsNoRow == NoRow \notin Rows
ASSUME DataIsFinite == IsFiniteSet(Data)
ASSUME RestartsAreBounded == MaxRestarts \in Nat
ASSUME StatementsAreStatements ==
    Statements \subseteq
        [kind : {"create", "drop"}, table : Tables]
        \cup [kind : {"insert"}, table : Tables, row : Rows]
        \cup [kind : {"select", "delete"}, table : Tables, where : SUBSET Rows]
        \cup [kind : {"update"}, table : Tables, where : SUBSET Rows,
              column : Columns, value : Data]

VARIABLES
    rows,        (* rows[t][k]: what the engine has under t's key k         *)
    catalog,     (* the tables with a schema in the engine                  *)
    cache,       (* SchemaStore.cache                                       *)
    running,     (* the process is up                                       *)
    engineOpen,  (* Engine.Close has not closed the files                   *)
    pc,          (* where each client's statement is                        *)
    stmt,        (* each client's statement                                 *)
    todo,        (* the rows collected by the scan, by key                  *)
    affected,    (* ResultSet.Affected so far                               *)
    before,      (* history: the table when the statement began             *)
    overlapped,  (* history: another statement used the table meanwhile     *)
    restarts     (* crashes and shutdowns so far                            *)

clients == <<pc, stmt, todo, affected, before, overlapped>>
server == <<cache, running, engineOpen, restarts>>
vars == <<rows, catalog, server, clients>>

Idle == [kind |-> "none"]
Nothing == [k \in Data |-> NoRow]

Init ==
    /\ rows = [t \in Tables |-> Nothing]
    /\ catalog = {} /\ cache = {}
    /\ running = TRUE /\ engineOpen = TRUE
    /\ pc = [c \in Clients |-> "idle"]
    /\ stmt = [c \in Clients |-> Idle]
    /\ todo = [c \in Clients |-> Nothing]
    /\ affected = [c \in Clients |-> 0]
    /\ before = [c \in Clients |-> Nothing]
    /\ overlapped = [c \in Clients |-> FALSE]
    /\ restarts = 0

-----------------------------------------------------------------------------
Active(c) == pc[c] # "idle"
Collected(c) == {k \in Data : todo[c][k] # NoRow}
Others(c, t) == {d \in Clients \ {c} : Active(d) /\ stmt[d].table = t}

(* A statement begins: Exec parses it and looks its table up in the cache. *)
(* A statement on a table that is not there returns an error and does      *)
(* nothing.                                                                *)
Begin(c, s, next) ==
    /\ running
    /\ ~Active(c)
    /\ pc' = [pc EXCEPT ![c] = next]
    /\ stmt' = [stmt EXCEPT ![c] = s]
    /\ todo' = [todo EXCEPT ![c] = Nothing]
    /\ affected' = [affected EXCEPT ![c] = 0]
    /\ before' = [before EXCEPT ![c] = rows[s.table]]
    /\ overlapped' = [d \in Clients |->
            IF d = c THEN Others(c, s.table) # {}
            ELSE overlapped[d] \/ d \in Others(c, s.table)]
    /\ UNCHANGED <<rows, catalog, server>>

BeginInsert(c, s) ==
    /\ s.kind = "insert" /\ s.table \in cache
    /\ Begin(c, s, "put")

BeginScan(c, s) ==
    /\ s.kind \in {"select", "update", "delete", "drop"} /\ s.table \in cache
    /\ Begin(c, s, "scan")

BeginCreate(c, s) ==
    /\ s.kind = "create"
    /\ Begin(c, s, "create")

(* The statement answers its client and is gone. *)
Return(c) ==
    /\ pc' = [pc EXCEPT ![c] = "idle"]
    /\ stmt' = [stmt EXCEPT ![c] = Idle]
    /\ todo' = [todo EXCEPT ![c] = Nothing]
    /\ affected' = [affected EXCEPT ![c] = 0]
    /\ before' = [before EXCEPT ![c] = Nothing]
    /\ overlapped' = [overlapped EXCEPT ![c] = FALSE]

(* SchemaStore.CreateTable, under the lock of the store from the test to   *)
(* the new cache entry. Once the engine is closed its Put fails.           *)
CreateTable(c) ==
    /\ pc[c] = "create"
    /\ IF engineOpen /\ stmt[c].table \notin cache
       THEN /\ catalog' = catalog \cup {stmt[c].table}
            /\ cache' = cache \cup {stmt[c].table}
       ELSE UNCHANGED <<catalog, cache>>
    /\ Return(c)
    /\ UNCHANGED <<rows, running, engineOpen, restarts>>

(* Engine.Put of the new row, over whatever is under its key. *)
PutRow(c) ==
    /\ pc[c] = "put"
    /\ IF engineOpen
       THEN rows' = [rows EXCEPT ![stmt[c].table][Key(stmt[c].row)] = stmt[c].row]
       ELSE UNCHANGED rows
    /\ Return(c)
    /\ UNCHANGED <<catalog, server>>

-----------------------------------------------------------------------------
(* The scans keep the keys with the prefix of the table whose rows pass    *)
(* the WHERE clause; DROP TABLE keeps them all.                            *)

Selected(s, tbl) ==
    IF s.kind = "drop" THEN tbl
    ELSE [k \in Data |-> IF tbl[k] \in s.where THEN tbl[k] ELSE NoRow]

(* Mutant: a scan without the test of the table's prefix. *)
ScanAnyTable(c) ==
    /\ pc[c] = "scan"
    /\ stmt[c].kind # "select"
    /\ \E t \in Tables : todo' = [todo EXCEPT ![c] = Selected(stmt[c], rows[t])]
    /\ pc' = [pc EXCEPT ![c] = "write"]
    /\ UNCHANGED <<rows, catalog, server, stmt, affected, before, overlapped>>

(* Engine.Scan, under the read lock of the engine. On a closed data file   *)
(* it stops at the first page that is not cached, and its error is dropped.*)
Scan(c) ==
    /\ pc[c] = "scan"
    /\ stmt[c].kind # "select"
    /\ LET found == Selected(stmt[c], rows[stmt[c].table])
       IN  \E seen \in SUBSET Data :
             /\ engineOpen => seen = Data
             /\ todo' = [todo EXCEPT ![c] =
                            [k \in Data |-> IF k \in seen THEN found[k] ELSE NoRow]]
    /\ pc' = [pc EXCEPT ![c] = "write"]
    /\ UNCHANGED <<rows, catalog, server, stmt, affected, before, overlapped>>

(* SELECT answers with what its one scan found; projection, ORDER BY and   *)
(* LIMIT change nothing.                                                   *)
Select(c) ==
    /\ pc[c] = "scan"
    /\ stmt[c].kind = "select"
    /\ Return(c)
    /\ UNCHANGED <<rows, catalog, server>>

(* Mutant: UPDATE stores the assigned column only. *)
AssignedAlone(s, row) == [c \in {s.column} |-> s.value]

(* What UPDATE stores: the row as it was scanned, with the new value. *)
Assigned(s, row) == [row EXCEPT ![s.column] = s.value]

(* Mutant: a row the engine refuses is tried again. *)
WriteRowRetrying(c) ==
    /\ pc[c] = "write"
    /\ \E k \in Collected(c) :
        IF engineOpen
        THEN /\ todo' = [todo EXCEPT ![c][k] = NoRow]
             /\ rows' = [rows EXCEPT ![stmt[c].table][k] =
                            IF stmt[c].kind = "update"
                            THEN Assigned(stmt[c], todo[c][k]) ELSE NoRow]
        ELSE UNCHANGED <<todo, rows>>
    /\ UNCHANGED <<catalog, server, pc, stmt, affected, before, overlapped>>

(* One Engine.Put or Engine.Delete. Its error is dropped, and UPDATE and   *)
(* DELETE count the row either way. The order of the keys is the engine's. *)
WriteRow(c) ==
    /\ pc[c] = "write"
    /\ \E k \in Collected(c) :
        /\ todo' = [todo EXCEPT ![c][k] = NoRow]
        /\ IF engineOpen
           THEN rows' = [rows EXCEPT ![stmt[c].table][k] =
                            IF stmt[c].kind = "update"
                            THEN Assigned(stmt[c], todo[c][k]) ELSE NoRow]
           ELSE UNCHANGED rows
    /\ affected' = [affected EXCEPT ![c] =
            IF stmt[c].kind = "drop" THEN @ ELSE @ + 1]
    /\ UNCHANGED <<catalog, server, pc, stmt, before, overlapped>>

Answer(c) ==
    /\ pc[c] = "write"
    /\ stmt[c].kind # "drop"
    /\ Collected(c) = {}
    /\ Return(c)
    /\ UNCHANGED <<rows, catalog, server>>

(* Mutant: DropTable that forgets to delete the schema from the engine. *)
DropTableKeepingSchema(c) ==
    /\ pc[c] = "write"
    /\ stmt[c].kind = "drop"
    /\ Collected(c) = {}
    /\ cache' = cache \ {stmt[c].table}
    /\ Return(c)
    /\ UNCHANGED <<rows, catalog, running, engineOpen, restarts>>

(* SchemaStore.DropTable, once the rows are gone. *)
DropTable(c) ==
    /\ pc[c] = "write"
    /\ stmt[c].kind = "drop"
    /\ Collected(c) = {}
    /\ IF engineOpen /\ stmt[c].table \in cache
       THEN /\ catalog' = catalog \ {stmt[c].table}
            /\ cache' = cache \ {stmt[c].table}
       ELSE UNCHANGED <<catalog, cache>>
    /\ Return(c)
    /\ UNCHANGED <<rows, running, engineOpen, restarts>>

-----------------------------------------------------------------------------
(* Server.Close: the engine is closed under the statements in progress,    *)
(* which go on until the process exits.                                    *)
Close ==
    /\ running /\ engineOpen
    /\ engineOpen' = FALSE
    /\ UNCHANGED <<rows, catalog, cache, running, restarts, clients>>

NoStatements ==
    /\ pc' = [c \in Clients |-> "idle"]
    /\ stmt' = [c \in Clients |-> Idle]
    /\ todo' = [c \in Clients |-> Nothing]
    /\ affected' = [c \in Clients |-> 0]
    /\ before' = [c \in Clients |-> Nothing]
    /\ overlapped' = [c \in Clients |-> FALSE]

(* The process exits or crashes, and every connection with it. *)
Stop ==
    /\ running
    /\ restarts < MaxRestarts
    /\ restarts' = restarts + 1
    /\ running' = FALSE
    /\ engineOpen' = FALSE
    /\ cache' = {}
    /\ NoStatements
    /\ UNCHANGED <<rows, catalog>>

(* NewServer: the engine is opened and the schema store loads every schema. *)
Start ==
    /\ ~running
    /\ running' = TRUE
    /\ engineOpen' = TRUE
    /\ cache' = catalog
    /\ UNCHANGED <<rows, catalog, restarts, clients>>

-----------------------------------------------------------------------------
Advance(c) ==
    \/ CreateTable(c) \/ PutRow(c) \/ Scan(c) \/ Select(c)
    \/ WriteRow(c) \/ Answer(c) \/ DropTable(c)

Next ==
    \/ \E c \in Clients, s \in Statements :
        BeginInsert(c, s) \/ BeginScan(c, s) \/ BeginCreate(c, s)
    \/ \E c \in Clients : Advance(c)
    \/ Close \/ Stop \/ Start

Spec == Init /\ [][Next]_vars

(* A goroutine that runs a statement keeps being scheduled. *)
FairSpec == Spec /\ \A c \in Clients : WF_vars(Advance(c))

-----------------------------------------------------------------------------
TypeOK ==
    /\ rows \in [Tables -> [Data -> Rows \cup {NoRow}]]
    /\ catalog \subseteq Tables
    /\ cache \subseteq Tables
    /\ {running, engineOpen} \subseteq BOOLEAN
    /\ pc \in [Clients -> {"idle", "create", "put", "scan", "write"}]
    /\ stmt \in [Clients -> Statements \cup {Idle}]
    /\ todo \in [Clients -> [Data -> Rows \cup {NoRow}]]
    /\ affected \in [Clients -> Nat]
    /\ before \in [Clients -> [Data -> Rows \cup {NoRow}]]
    /\ overlapped \in [Clients -> BOOLEAN]
    /\ restarts \in 0..MaxRestarts

(* What a statement should make of its table. *)
Effect(s, tbl) ==
    CASE s.kind = "insert" -> [tbl EXCEPT ![Key(s.row)] = s.row]
      [] s.kind = "update" ->
            [k \in Data |-> IF tbl[k] \in s.where THEN Assigned(s, tbl[k]) ELSE tbl[k]]
      [] s.kind = "delete" ->
            [k \in Data |-> IF tbl[k] \in s.where THEN NoRow ELSE tbl[k]]
      [] s.kind = "drop" -> Nothing
      [] OTHER -> tbl

Answers(c) == Active(c) /\ pc'[c] = "idle" /\ running'

(* A statement that ran while no other statement used its table has        *)
(* exactly its sequential effect on that table when it answers, and counts *)
(* the rows it changed, whatever ran on other tables (executor.go).        *)
AloneIsAtomic ==
    [][\A c \in Clients :
         LET s == stmt[c]
         IN  Answers(c) /\ ~overlapped[c] /\ engineOpen =>
                /\ rows'[s.table] = Effect(s, before[c])
                /\ s.kind \in {"update", "delete"} =>
                     affected[c] = Cardinality({k \in Data : before[c][k] \in s.where})]_vars

(* The tables a running server knows are the tables a restart would find:  *)
(* SchemaStore.CreateTable, DropTable and loadAll agree, also when the     *)
(* statements that call them overlap or the server is closed under them.   *)
CacheIsCatalog == running => cache = catalog

(* Every statement answers, unless the process stops under it. *)
EveryStatementAnswers == \A c \in Clients : Active(c) ~> ~Active(c)

(* An UPDATE writes rows that are there, and changes only the column it    *)
(* assigns.                                                                *)
UpdateTouchesOnlyItsColumn ==
    [][\A c \in Clients, k \in Data :
         LET t == stmt[c].table
         IN  /\ pc[c] = "write" /\ stmt[c].kind = "update"
             /\ todo[c][k] # NoRow /\ todo'[c][k] = NoRow
             => \/ rows'[t][k] = rows[t][k]
                \/ /\ rows[t][k] # NoRow
                   /\ \A col \in Columns \ {stmt[c].column} :
                        rows'[t][k][col] = rows[t][k][col]]_vars

-----------------------------------------------------------------------------
(* The inductive invariant behind AloneIsAtomic.                           *)

KindFits ==
    \A c \in Clients :
        /\ Active(c) => stmt[c] \in Statements
        /\ pc[c] = "create" => stmt[c].kind = "create"
        /\ pc[c] = "put" => stmt[c].kind = "insert"
        /\ pc[c] = "scan" => stmt[c].kind \in {"select", "update", "delete", "drop"}
        /\ pc[c] = "write" => stmt[c].kind \in {"update", "delete", "drop"}

IdleWhenDown == ~running => \A c \in Clients : ~Active(c)

(* Two statements in progress on one table have both noticed.              *)
OverlapIsMutual ==
    \A c, d \in Clients :
        c # d /\ Active(c) /\ Active(d) /\ stmt[c].table = stmt[d].table
        => overlapped[c]

(* What is left to be collected from the table as it was. *)
Picked(c) == Selected(stmt[c], before[c])

(* How far a statement that is alone on its table has come: every row is   *)
(* either as it was, with its write still to do, or as it shall be.        *)
HalfDone(c) ==
    /\ pc[c] \in {"create", "put", "scan"} =>
         /\ rows[stmt[c].table] = before[c]
         /\ affected[c] = 0
    /\ pc[c] = "write" =>
         /\ \A k \in Data :
              \/ /\ todo[c][k] = Picked(c)[k]
                 /\ rows[stmt[c].table][k] = before[c][k]
              \/ /\ todo[c][k] = NoRow
                 /\ rows[stmt[c].table][k] = Effect(stmt[c], before[c])[k]
         /\ stmt[c].kind # "drop" =>
              affected[c] = Cardinality({k \in Data : todo[c][k] # Picked(c)[k]})

(* At every moment a statement that no other has overlapped has done part  *)
(* of its effect and nothing else, and has counted exactly that part.      *)
AloneIsOnCourse ==
    \A c \in Clients : Active(c) /\ ~overlapped[c] /\ engineOpen => HalfDone(c)

IInv ==
    /\ TypeOK
    /\ KindFits
    /\ IdleWhenDown
    /\ OverlapIsMutual
    /\ AloneIsOnCourse
=============================================================================
