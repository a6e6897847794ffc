------------------------- MODULE KodedEngineProofs -------------------------
(***************************************************************************)
(* Proofs about KodedEngine, for every set of keys and values, every flush *)
(* threshold and every number of faults.                                   *)
(***************************************************************************)
EXTENDS KodedEngine, TLAPS

-----------------------------------------------------------------------------
(* What ReadAll delivers from a log that one more record was appended to.  *)

(* The new record is delivered iff it and everything before it is whole.   *)
LEMMA ReadableAppend ==
    ASSUME NEW log \in Seq(Record), NEW r \in Record
    PROVE  Readable(Append(log, r)) =
             Readable(log) \cup (IF Intact(log) /\ r.whole THEN {Len(log) + 1} ELSE {})
<1> DEFINE new == Append(log, r)
<1>1. /\ DOMAIN new = 1..Len(log) + 1
      /\ DOMAIN log = 1..Len(log)
      /\ Len(log) \in Nat
      /\ \A i \in 1..Len(log) : new[i] = log[i]
      /\ new[Len(log) + 1] = r
  OBVIOUS
<1>2. \A i \in 1..Len(log) : i \in Readable(new) <=> i \in Readable(log)
  BY <1>1 DEF Readable
<1>3. Len(log) + 1 \in Readable(new) <=> Intact(log) /\ r.whole
  <2>1. ASSUME Intact(log), r.whole PROVE Len(log) + 1 \in Readable(new)
    BY <1>1, <2>1 DEF Readable, Intact
  <2>2. ASSUME Len(log) + 1 \in Readable(new) PROVE Intact(log) /\ r.whole
    <3>1. \A j \in 1..Len(log) + 1 : new[j].whole
      BY <2>2 DEF Readable
    <3> QED BY <1>1, <3>1 DEF Intact
  <2> QED BY <2>1, <2>2
<1>4. /\ Readable(new) \subseteq 1..Len(log) + 1
      /\ Readable(log) \subseteq 1..Len(log)
  BY <1>1 DEF Readable
<1> QED BY <1>1, <1>2, <1>3, <1>4

LEMMA AboutAppend ==
    ASSUME NEW log \in Seq(Record), NEW r \in Record, NEW k \in Keys
    PROVE  About(Append(log, r), k) =
             About(log, k) \cup
               (IF Intact(log) /\ r.whole /\ r.key = k THEN {Len(log) + 1} ELSE {})
<1> DEFINE new == Append(log, r)
<1>1. /\ \A i \in 1..Len(log) : new[i] = log[i]
      /\ new[Len(log) + 1] = r
      /\ Len(log) \in Nat
      /\ Readable(log) \subseteq 1..Len(log)
  BY DEF Readable
<1>2. Readable(new) = Readable(log) \cup
        (IF Intact(log) /\ r.whole THEN {Len(log) + 1} ELSE {})
  BY ReadableAppend
<1> QED BY <1>1, <1>2 DEF About

(* Appending keeps every last record of a key, or makes the new one last.  *)
LEMMA LastAppend ==
    ASSUME NEW log \in Seq(Record), NEW r \in Record, HasLast(log)
    PROVE  HasLast(Append(log, r))
<1> DEFINE new == Append(log, r)
<1>1. /\ DOMAIN new = 1..Len(log) + 1
      /\ DOMAIN log = 1..Len(log)
      /\ Len(log) \in Nat
  OBVIOUS
<1> SUFFICES ASSUME NEW k \in Keys, About(new, k) # {}
             PROVE  \E i \in DOMAIN new : IsLast(new, k, i)
  BY DEF HasLast
<1>2. About(log, k) \subseteq 1..Len(log)
  BY DEF About, Readable
<1>3. CASE Intact(log) /\ r.whole /\ r.key = k
  <2>1. About(new, k) = About(log, k) \cup {Len(log) + 1}
    BY <1>3, AboutAppend
  <2>2. IsLast(new, k, Len(log) + 1)
    BY <1>1, <1>2, <2>1 DEF IsLast
  <2> QED BY <1>1, <2>2
<1>4. CASE ~(Intact(log) /\ r.whole /\ r.key = k)
  <2>0. About(new, k) = About(log, k) \cup
          (IF Intact(log) /\ r.whole /\ r.key = k THEN {Len(log) + 1} ELSE {})
    BY AboutAppend
  <2>1. About(new, k) = About(log, k)
    BY <1>4, <2>0
  <2>2. PICK i \in DOMAIN log : IsLast(log, k, i)
    BY <2>1 DEF HasLast
  <2> QED BY <1>1, <2>1, <2>2 DEF IsLast
<1> QED BY <1>3, <1>4

(* Replay finds the last record of every key that has one.                 *)
LEMMA ReplayIsLast ==
    ASSUME NEW log \in Seq(Record), HasLast(log), NEW k \in Keys
    PROVE  \/ About(log, k) = {} /\ Replay(log, k) = Absent
           \/ \E i \in DOMAIN log : IsLast(log, k, i) /\ Replay(log, k) = log[i].val
                                    /\ log[i].val \in Stored
<1>1. CASE About(log, k) = {}
  BY <1>1 DEF Replay
<1>2. CASE About(log, k) # {}
  <2>1. PICK j \in DOMAIN log : IsLast(log, k, j)
    BY <1>2 DEF HasLast
  <2> DEFINE i == CHOOSE n \in About(log, k) : IsLast(log, k, n)
  <2>2. i \in About(log, k) /\ IsLast(log, k, i)
    BY <2>1 DEF IsLast
  <2>3. i \in DOMAIN log
    BY <2>2 DEF About, Readable
  <2>4. Replay(log, k) = log[i].val
    BY <1>2 DEF Replay
  <2> HIDE DEF i
  <2>5. log[i] \in Record
    BY <2>3
  <2>6. log[i].val \in Stored
    BY <2>5 DEF Record
  <2> QED BY <2>2, <2>3, <2>4, <2>6
<1> QED BY <1>1, <1>2

-----------------------------------------------------------------------------
(* Types.                                                                  *)

LEMMA EmptyHasLast == HasLast(<<>>)
BY DEF HasLast, About, Readable

LEMMA EntryIsRecord ==
    ASSUME NEW k \in Keys, NEW v \in Stored
    PROVE  Entry(k, v) \in Record /\ Torn(k, v) \in Record
BY DEF Entry, Torn, Record

LEMMA OpKeyVal ==
    ASSUME op \in Operation, op.kind \in {"put", "delete"}
    PROVE  op.key \in Keys /\ op.val \in Stored
BY DEF Operation

LEMMA Literals ==
    /\ NoOp \in Operation
    /\ EmptyMem \in [Keys -> Stored \cup {Absent}]
    /\ [kind |-> "flush"] \in Operation
    /\ [kind |-> "close"] \in Operation
    /\ [kind |-> "open"] \in Operation
BY DEF NoOp, Operation, EmptyMem

LEMMA InitWellFormed == Init => WellFormed
<1> SUFFICES ASSUME Init PROVE WellFormed
  OBVIOUS
<1>1. TypeOK
  <2>1. op \in Operation
    BY DEF Init, NoOp, Operation
  <2>2. /\ mem \in [Keys -> Stored \cup {Absent}]
        /\ pages \in [Keys -> Stored]
        /\ pageOnDisk \in [Keys -> SUBSET Stored]
        /\ allowed \in [Keys -> SUBSET Stored]
    BY DEF Init, EmptyMem, Stored
  <2>3. <<>> \in Seq(Record)
    OBVIOUS
  <2> QED BY <2>1, <2>2, <2>3 DEF Init, TypeOK
<1>2. DiskView /\ OpFits /\ TodoInMem
  BY DEF Init, DiskView, OpFits, TodoInMem
<1> QED BY <1>1, <1>2, EmptyHasLast DEF Init, WellFormed

LEMMA NextWellFormed == WellFormed /\ [Next]_vars => WellFormed'
<1> SUFFICES ASSUME WellFormed, [Next]_vars PROVE WellFormed'
  OBVIOUS
<1> USE DEF WellFormed, TypeOK, DiskView, OpFits, TodoInMem
<1>1. ASSUME NEW k \in Keys, NEW v \in Values, Put(k, v) PROVE WellFormed'
  BY <1>1 DEF Put, Begin, Operation, Stored, disk, history
<1>2. ASSUME NEW k \in Keys, Delete(k) PROVE WellFormed'
  BY <1>2 DEF Delete, Begin, Operation, Stored, disk, history
<1>3. CASE Flush
  BY <1>3 DEF Flush, InMem, Operation, disk, history
<1>4. CASE Close
  BY <1>4 DEF Close, InMem, Operation, disk, history
<1>5. CASE Open
  <2>1. mem' \in [Keys -> Stored \cup {Absent}]
    BY <1>5, ReplayIsLast DEF Open
  <2>2. CASE Readable(wal) = {}
    BY <1>5, <2>1, <2>2, Literals DEF Open, Return, disk, history
  <2>3. CASE Readable(wal) # {}
    <3>1. todo' \in SUBSET Keys /\ \A k \in todo' : mem'[k] # Absent
      BY <1>5, <2>3 DEF Open, InMem
    <3>2. /\ pc' = "flush"
          /\ op' \in Operation
          /\ filesOpen' \in BOOLEAN
          /\ closed' \in BOOLEAN
          /\ UNCHANGED <<wal, logsOnDisk, pages, pageOnDisk, faults, allowed, tainted>>
      BY <1>5, <2>3, Literals DEF Open, disk, history
    <3> QED BY <2>1, <3>1, <3>2
  <2> QED BY <2>2, <2>3
<1>6. CASE AppendRecord
  <2>1. op.key \in Keys /\ op.val \in Stored
    BY <1>6, OpKeyVal DEF AppendRecord
  <2>2. ASSUME NEW r \in {Entry(op.key, op.val), Torn(op.key, op.val)}
        PROVE  Append(wal, r) \in Seq(Record) /\ HasLast(Append(wal, r))
    BY <2>1, EntryIsRecord, LastAppend
  <2>3. /\ wal' = Append(wal, Entry(op.key, op.val))
        /\ \A log \in logsOnDisk' : log \in logsOnDisk \/ log = wal'
                                     \/ log = Append(wal, Torn(op.key, op.val))
        /\ wal' \in logsOnDisk'
    BY <1>6 DEF AppendRecord
  <2>4. allowed' \in [Keys -> SUBSET Stored]
    BY <1>6, <2>1 DEF AppendRecord
  <2>5. tainted' \in BOOLEAN
    BY <1>6 DEF AppendRecord, Intact
  <2>6. /\ pc' = "sync"
        /\ UNCHANGED <<op, mem, todo, closed, filesOpen, pages, pageOnDisk, faults>>
    BY <1>6 DEF AppendRecord
  <2> QED BY <1>6, <2>2, <2>3, <2>4, <2>5, <2>6 DEF AppendRecord
<1>7. CASE AppendFails
  <2>1. op.key \in Keys /\ op.val \in Stored
    BY <1>7, OpKeyVal DEF AppendFails
  <2>2. /\ Append(wal, Torn(op.key, op.val)) \in Seq(Record)
        /\ HasLast(Append(wal, Torn(op.key, op.val)))
    BY <2>1, EntryIsRecord, LastAppend
  <2>3. /\ wal' = wal \/ wal' = Append(wal, Torn(op.key, op.val))
        /\ logsOnDisk' = logsOnDisk \cup {wal'}
    BY <1>7 DEF AppendFails
  <2>4. faults' \in Nat
    BY <1>7 DEF AppendFails, Fault, NoFault
  <2> QED BY <1>7, <2>2, <2>3, <2>4 DEF AppendFails, Return, NoOp, Operation
<1>8. CASE SyncRecord
  BY <1>8 DEF SyncRecord, history
<1>9. CASE SyncFails
  BY <1>9 DEF SyncFails, Fault, Return, NoOp, Operation, disk
<1>10. CASE ApplyToMemTable
  <2>1. op.key \in Keys /\ op.val \in Stored
    BY <1>10, OpKeyVal DEF ApplyToMemTable
  <2>2. /\ mem' \in [Keys -> Stored \cup {Absent}]
        /\ allowed' \in [Keys -> SUBSET Stored]
        /\ UNCHANGED <<closed, filesOpen, wal, logsOnDisk, pages, pageOnDisk, faults, tainted>>
    BY <1>10, <2>1 DEF ApplyToMemTable, disk
  <2>3. /\ pc' \in {"unindex", "flush", "idle"}
        /\ op' \in Operation
        /\ todo' \in SUBSET Keys
        /\ pc' = "unindex" => op' = op /\ pc = "apply"
        /\ pc' # "flush" => todo' = {}
        /\ \A k \in todo' : mem'[k] # Absent
    BY <1>10, Literals DEF ApplyToMemTable, Return, InMem
  <2>4. OpFits'
    BY <2>3
  <2> QED BY <2>2, <2>3, <2>4
<1>11. CASE UnindexKey
  <2>1. op.key \in Keys
    BY <1>11, OpKeyVal DEF UnindexKey
  <2>2. /\ pages' \in [Keys -> Stored]
        /\ pageOnDisk' \in [Keys -> SUBSET Stored]
        /\ \A k \in Keys : pages'[k] \in pageOnDisk'[k]
        /\ faults' \in Nat
    BY <1>11, <2>1 DEF UnindexKey, RemoveKey, WriteKey, Fault, NoFault, Stored
  <2> QED BY <1>11, <2>2 DEF UnindexKey, Return, NoOp, Operation
<1>12. CASE FlushEntry
  <2>1. PICK k \in Keys :
          /\ NextToFlush(k)
          /\ \/ mem[k] = NoValue /\ RemoveKey(k)
             \/ mem[k] # NoValue /\ WriteKey(k, mem[k]) /\ NoFault
          /\ todo' = todo \ {k}
    BY <1>12 DEF FlushEntry
  <2>2. mem[k] \in Stored
    BY <2>1 DEF NextToFlush
  <2>3. \/ pages' = pages /\ pageOnDisk' = pageOnDisk
        \/ \E v \in Stored : WriteKey(k, v)
    BY <2>1, <2>2 DEF RemoveKey, Stored
  <2>4. /\ pages' \in [Keys -> Stored]
        /\ pageOnDisk' \in [Keys -> SUBSET Stored]
        /\ \A j \in Keys : pages'[j] \in pageOnDisk'[j]
    BY <2>3 DEF WriteKey
  <2>5. faults' \in Nat
    BY <2>1 DEF RemoveKey, Fault, NoFault
  <2>6. /\ UNCHANGED <<pc, op, mem, closed, filesOpen, wal, logsOnDisk, allowed, tainted>>
        /\ todo' = todo \ {k}
        /\ pc = "flush"
    BY <1>12, <2>1 DEF FlushEntry
  <2> QED BY <2>4, <2>5, <2>6
<1>13. CASE FlushEntryFails
  <2>1. faults' \in Nat
    BY <1>13 DEF FlushEntryFails, Fault, NoFault
  <2> QED BY <1>13, <2>1 DEF FlushEntryFails, GiveUp, NoOp, EmptyMem, Operation, disk
<1>14. CASE SyncPages
  BY <1>14 DEF SyncPages, history
<1>15. CASE SyncPagesFails
  <2>1. faults' \in Nat
    BY <1>15 DEF SyncPagesFails, Fault, NoFault
  <2> QED BY <1>15, <2>1 DEF SyncPagesFails, GiveUp, NoOp, EmptyMem, Operation, disk
<1>16. CASE ClearMemTable
  BY <1>16 DEF ClearMemTable, EmptyMem, disk, history
<1>17. CASE TruncateLog
  <2>1. <<>> \in Seq(Record) /\ HasLast(<<>>)
    BY EmptyHasLast
  <2>2. /\ pc' \in {"shut", "idle"}
        /\ op' \in Operation
        /\ todo' = {}
    BY <1>17, Literals DEF TruncateLog, Return
  <2>3. /\ wal' = <<>>
        /\ logsOnDisk' = logsOnDisk \cup {<<>>}
        /\ UNCHANGED <<mem, closed, filesOpen, pages, pageOnDisk, faults, allowed, tainted>>
    BY <1>17 DEF TruncateLog, history
  <2> QED BY <2>1, <2>2, <2>3
<1>18. CASE TruncateFails
  BY <1>18 DEF TruncateFails, GiveUp, Fault, NoOp, EmptyMem, Operation, disk
<1>19. CASE Shut
  BY <1>19 DEF Shut, Return, NoOp, Operation, history
<1>20. CASE ShutFails
  BY <1>20 DEF ShutFails, Fault, Return, NoOp, Operation, disk
<1>21. CASE ProcessCrash
  <2>1. /\ faults' \in Nat
        /\ UNCHANGED <<wal, logsOnDisk, pages, pageOnDisk, allowed, tainted>>
    BY <1>21 DEF ProcessCrash, Fault, disk
  <2>2. /\ pc' = "down"
        /\ op' \in Operation
        /\ mem' \in [Keys -> Stored \cup {Absent}]
        /\ todo' = {}
        /\ closed' \in BOOLEAN
        /\ filesOpen' \in BOOLEAN
    BY <1>21, Literals DEF ProcessCrash, Die
  <2> QED BY <2>1, <2>2
<1>22. CASE PowerFailure
  <2>1. /\ wal' \in Seq(Record)
        /\ logsOnDisk' \subseteq Seq(Record)
        /\ wal' \in logsOnDisk'
        /\ \A log \in logsOnDisk' : HasLast(log)
    BY <1>22 DEF PowerFailure
  <2>2. /\ pages' \in [Keys -> Stored]
        /\ pageOnDisk' \in [Keys -> SUBSET Stored]
        /\ \A k \in Keys : pages'[k] \in pageOnDisk'[k]
    BY <1>22 DEF PowerFailure
  <2>3. /\ faults' \in Nat
        /\ UNCHANGED <<allowed, tainted>>
    BY <1>22 DEF PowerFailure, Fault
  <2>4. /\ pc' = "down"
        /\ op' \in Operation
        /\ mem' \in [Keys -> Stored \cup {Absent}]
        /\ todo' = {}
        /\ closed' \in BOOLEAN
        /\ filesOpen' \in BOOLEAN
    BY <1>22, Literals DEF PowerFailure, Die
  <2> QED BY <2>1, <2>2, <2>3, <2>4
<1>23. CASE UNCHANGED vars
  BY <1>23 DEF vars, engine, disk, history
<1> QED
  BY <1>1, <1>2, <1>3, <1>4, <1>5, <1>6, <1>7, <1>8, <1>9, <1>10, <1>11, <1>12,
     <1>13, <1>14, <1>15, <1>16, <1>17, <1>18, <1>19, <1>20, <1>21, <1>22, <1>23
     DEF Next, Step

(* Every variable keeps its type, whatever fails and whenever it crashes:  *)
(* in particular Open always finds, for every key the readable part of the *)
(* log mentions, a last record to put into the memtable.                   *)
THEOREM TypeCorrect == Spec => []TypeOK
<1>1. WellFormed => TypeOK
  BY DEF WellFormed
<1> QED BY <1>1, InitWellFormed, NextWellFormed, PTL DEF Spec

-----------------------------------------------------------------------------
(* Durability.                                                             *)

(* What a log restores stays promised while the pages only gain promised   *)
(* values and promises are only added.                                     *)
LEMMA RestoresMonotone ==
    ASSUME NEW log, NEW k \in Keys, Restores(log, k),
           pageOnDisk'[k] \subseteq pageOnDisk[k] \cup allowed'[k],
           allowed[k] \subseteq allowed'[k]
    PROVE  Restores(log, k)'
BY DEF Restores

(* One more record changes what a log restores only if it is readable, and *)
(* then to the value of that record.                                       *)
LEMMA RestoresAppend ==
    ASSUME NEW log \in Seq(Record), NEW r \in Record, NEW k \in Keys,
           Restores(log, k),
           pageOnDisk' = pageOnDisk,
           allowed[k] \subseteq allowed'[k],
           r.key = k /\ r.whole => r.val \in allowed'[k]
    PROVE  Restores(Append(log, r), k)'
<1> DEFINE new == Append(log, r)
<1>1. /\ DOMAIN new = 1..Len(log) + 1
      /\ DOMAIN log = 1..Len(log)
      /\ Len(log) \in Nat
      /\ \A i \in 1..Len(log) : new[i] = log[i]
      /\ new[Len(log) + 1] = r
  OBVIOUS
<1>2. About(log, k) \subseteq 1..Len(log)
  BY DEF About, Readable
<1>3. About(new, k) = About(log, k) \cup
        (IF Intact(log) /\ r.whole /\ r.key = k THEN {Len(log) + 1} ELSE {})
  BY AboutAppend
<1> HIDE DEF new
<1>4. ASSUME NEW i \in DOMAIN new, IsLast(new, k, i)
      PROVE  new[i].val \in allowed'[k]
  <2>1. CASE i = Len(log) + 1
    BY <1>1, <1>2, <1>3, <1>4, <2>1 DEF IsLast
  <2>2. CASE i # Len(log) + 1
    <3>1. i \in DOMAIN log /\ IsLast(log, k, i)
      BY <1>1, <1>3, <1>4, <2>2 DEF IsLast
    <3> QED BY <1>1, <3>1 DEF Restores
  <2> QED BY <2>1, <2>2
<1>5. About(new, k) = {} => pageOnDisk'[k] \subseteq allowed'[k]
  BY <1>3 DEF Restores
<1>6. Restores(new, k)'
  BY <1>4, <1>5 DEF Restores
<1> QED BY <1>6 DEF new

LEMMA AppendWhole ==
    ASSUME NEW log \in Seq(Record), NEW r \in Record, Intact(log), r.whole
    PROVE  /\ Intact(Append(log, r))
           /\ Append(log, r) # <<>>
           /\ Append(log, r)[Len(Append(log, r))] = r
<1> DEFINE new == Append(log, r)
<1>1. /\ DOMAIN new = 1..Len(log) + 1
      /\ DOMAIN log = 1..Len(log)
      /\ Len(log) \in Nat
      /\ Len(new) = Len(log) + 1
      /\ \A i \in 1..Len(log) : new[i] = log[i]
      /\ new[Len(log) + 1] = r
  OBVIOUS
<1>2. Intact(new)
  BY <1>1 DEF Intact
<1>3. new # <<>>
  BY <1>1
<1> QED BY <1>1, <1>2, <1>3

LEMMA InitIInv == Init => IInv
<1> SUFFICES ASSUME Init PROVE IInv
  OBVIOUS
<1>1. Durable
  BY DEF Init, Durable, Restores, About, Readable
<1>2. ReadsAllowed /\ Progress
  BY DEF Init, ReadsAllowed, Progress
<1> QED BY <1>1, <1>2, InitWellFormed DEF IInv

LEMMA NextIInv ==
    ASSUME DeleteErrors = FALSE, IInv, [Next]_vars
    PROVE  IInv'
<1>1. WellFormed'
  BY NextWellFormed DEF IInv
<1> SUFFICES ASSUME ~tainted'
             PROVE  Durable' /\ ReadsAllowed' /\ Progress'
  BY <1>1 DEF IInv
<1> DEFINE Goal == Durable' /\ ReadsAllowed' /\ Progress'
<1> USE DEF WellFormed, TypeOK, DiskView
<1>2. ~tainted
  BY DEF Next, Step, Put, Begin, Delete, Flush, Close, Open, AppendRecord,
         AppendFails, SyncRecord, SyncFails, ApplyToMemTable, UnindexKey,
         FlushEntry, FlushEntryFails, SyncPages, SyncPagesFails, ClearMemTable,
         TruncateLog, TruncateFails, Shut, ShutFails, ProcessCrash,
         PowerFailure, vars, history
<1>3. /\ WellFormed
      /\ \A log \in logsOnDisk, k \in Keys : Restores(log, k)
      /\ ReadsAllowed
      /\ Progress
  BY <1>2 DEF IInv, Durable
<1>4. ASSUME logsOnDisk' \subseteq logsOnDisk,
             \A k \in Keys : pageOnDisk'[k] \subseteq pageOnDisk[k] \cup allowed'[k],
             allowed' = allowed
      PROVE  Durable'
  BY <1>3, <1>4, RestoresMonotone DEF Durable
<1>5. ASSUME pc # "down", UNCHANGED <<mem, pages>>,
             \A k \in Keys : allowed[k] \subseteq allowed'[k]
      PROVE  ReadsAllowed'
  BY <1>3, <1>5 DEF ReadsAllowed, Lookup
<1>6. ASSUME pc' \in {"idle", "down", "append", "shut"}
      PROVE  Progress'
  BY <1>6 DEF Progress
<1>7. ASSUME pc' = "flush", todo' = InMem(mem')
      PROVE  Progress'
  BY <1>7 DEF Progress, InMem
<1>10. ASSUME NEW k \in Keys, NEW v \in Values, Put(k, v) PROVE Goal
  BY <1>10, <1>4, <1>5, <1>6 DEF Put, Begin, disk, history
<1>11. ASSUME NEW k \in Keys, Delete(k) PROVE Goal
  BY <1>11, <1>4, <1>5, <1>6 DEF Delete, Begin, disk, history
<1>12. CASE Flush
  BY <1>12, <1>4, <1>5, <1>7 DEF Flush, disk, history
<1>13. CASE Close
  BY <1>13, <1>4, <1>5, <1>6, <1>7 DEF Close, disk, history
<1>14. CASE Open
  <2>1. Durable'
    BY <1>14, <1>4 DEF Open, disk, history
  <2>2. ASSUME NEW k \in Keys PROVE Lookup(k)' \in allowed'[k]
    <3>1. mem'[k] = Replay(wal, k) /\ pages' = pages /\ allowed' = allowed
      BY <1>14 DEF Open, disk, history
    <3>2. Restores(wal, k) /\ HasLast(wal)
      BY <1>3
    <3>3. CASE About(wal, k) = {} /\ Replay(wal, k) = Absent
      BY <1>3, <3>1, <3>2, <3>3 DEF Lookup, Restores
    <3>4. CASE \E i \in DOMAIN wal : IsLast(wal, k, i) /\ Replay(wal, k) = wal[i].val
                                     /\ wal[i].val \in Stored
      <4>1. Replay(wal, k) \in allowed[k] /\ Replay(wal, k) \in Stored
        BY <3>2, <3>4 DEF Restores
      <4> QED BY <3>1, <4>1, DistinctMarks DEF Lookup, Stored
    <3> QED BY <1>3, <3>2, <3>3, <3>4, ReplayIsLast
  <2>3. ReadsAllowed'
    BY <2>2 DEF ReadsAllowed
  <2>4. Progress'
    BY <1>14, <1>6, <1>7 DEF Open, Return
  <2> QED BY <2>1, <2>3, <2>4
<1>15. CASE AppendRecord
  <2>1. /\ op.key \in Keys /\ op.val \in Stored
        /\ Intact(wal)
    BY <1>3, <1>15, OpKeyVal DEF AppendRecord, OpFits
  <2>2. /\ wal' = Append(wal, Entry(op.key, op.val))
        /\ \A log \in logsOnDisk' : log \in logsOnDisk \/ log = wal'
                                     \/ log = Append(wal, Torn(op.key, op.val))
        /\ UNCHANGED <<op, mem, pages, pageOnDisk>>
        /\ pc' = "sync"
        /\ pc # "down"
    BY <1>15 DEF AppendRecord
  <2>3. \A k \in Keys : /\ allowed[k] \subseteq allowed'[k]
                        /\ k = op.key => op.val \in allowed'[k]
    BY <1>3, <1>15, <2>1 DEF AppendRecord
  <2>4. /\ Entry(op.key, op.val) \in Record
        /\ Torn(op.key, op.val) \in Record
        /\ Entry(op.key, op.val).key = op.key
        /\ Entry(op.key, op.val).val = op.val
        /\ Entry(op.key, op.val).whole
        /\ ~Torn(op.key, op.val).whole
    BY <2>1, EntryIsRecord DEF Entry, Torn
  <2>5. ASSUME NEW log \in logsOnDisk', NEW k \in Keys PROVE Restores(log, k)'
    <3>1. CASE log \in logsOnDisk
      BY <1>3, <2>2, <2>3, <3>1, RestoresMonotone
    <3>2. CASE log = Append(wal, Entry(op.key, op.val))
      BY <1>3, <2>2, <2>3, <2>4, <3>2, RestoresAppend
    <3>3. CASE log = Append(wal, Torn(op.key, op.val))
      BY <1>3, <2>2, <2>3, <2>4, <3>3, RestoresAppend
    <3> QED BY <2>2, <3>1, <3>2, <3>3
  <2>6. Durable'
    BY <2>5 DEF Durable
  <2>7. Progress'
    <3>1. /\ Intact(wal')
          /\ wal' # <<>>
          /\ wal'[Len(wal')] = Entry(op.key, op.val)
      BY <1>3, <2>1, <2>2, <2>4, AppendWhole
    <3> QED BY <2>2, <3>1 DEF Progress
  <2> QED BY <1>5, <2>2, <2>3, <2>6, <2>7
<1>16. CASE AppendFails
  <2>1. op.key \in Keys /\ op.val \in Stored
    BY <1>3, <1>16, OpKeyVal DEF AppendFails, OpFits
  <2>2. /\ Torn(op.key, op.val) \in Record
        /\ ~Torn(op.key, op.val).whole
    BY <2>1, EntryIsRecord DEF Torn
  <2>3. /\ \A log \in logsOnDisk' : log \in logsOnDisk
                                     \/ log = Append(wal, Torn(op.key, op.val))
        /\ UNCHANGED <<mem, pages, pageOnDisk, allowed>>
        /\ pc' = "idle"
        /\ pc # "down"
    BY <1>3, <1>16 DEF AppendFails, Return
  <2>4. ASSUME NEW log \in logsOnDisk', NEW k \in Keys PROVE Restores(log, k)'
    <3>1. CASE log \in logsOnDisk
      BY <1>3, <2>3, <3>1, RestoresMonotone
    <3>2. CASE log = Append(wal, Torn(op.key, op.val))
      BY <1>3, <2>2, <2>3, <3>2, RestoresAppend
    <3> QED BY <2>3, <3>1, <3>2
  <2>5. Durable'
    BY <2>4 DEF Durable
  <2> QED BY <1>5, <1>6, <2>3, <2>5
<1>17. CASE SyncRecord
  <2>1. Durable' /\ ReadsAllowed'
    BY <1>3, <1>17, <1>4, <1>5 DEF SyncRecord, history
  <2>2. Progress'
    BY <1>3, <1>17 DEF SyncRecord, Progress, history
  <2> QED BY <2>1, <2>2
<1>18. CASE SyncFails
  BY <1>18, <1>4, <1>5, <1>6 DEF SyncFails, Return, disk
<1>19. CASE ApplyToMemTable
  <2>1. /\ op.key \in Keys /\ op.val \in Stored
        /\ op.kind = "delete" => op.val = NoValue
    BY <1>3, <1>19, OpKeyVal DEF ApplyToMemTable, OpFits
  <2>2. /\ mem' = [mem EXCEPT ![op.key] = op.val]
        /\ allowed' = [allowed EXCEPT ![op.key] = {op.val}]
        /\ UNCHANGED <<wal, logsOnDisk, pages, pageOnDisk>>
        /\ pc # "down"
    BY <1>19 DEF ApplyToMemTable, disk
  <2>3. /\ Intact(wal)
        /\ wal # <<>>
        /\ wal[Len(wal)] = Entry(op.key, op.val)
        /\ logsOnDisk = {wal}
    BY <1>3, <1>19 DEF ApplyToMemTable, Progress
  <2>4. Len(wal) \in DOMAIN wal /\ DOMAIN wal = 1..Len(wal) /\ Len(wal) \in Nat
    BY <1>3, <2>3
  <2>5. Len(wal) \in About(wal, op.key)
    BY <2>3, <2>4 DEF About, Readable, Intact, Entry
  <2>6. ASSUME NEW log \in logsOnDisk', NEW k \in Keys PROVE Restores(log, k)'
    <3>1. log = wal /\ Restores(log, k)
      BY <1>3, <2>2, <2>3
    <3>2. CASE k = op.key
      <4>1. ASSUME NEW i \in DOMAIN log, IsLast(log, k, i)
            PROVE  log[i].val \in allowed'[k]
        <5>1. i = Len(wal)
          BY <2>4, <2>5, <3>1, <3>2, <4>1 DEF IsLast
        <5> QED BY <1>3, <2>1, <2>2, <2>3, <3>1, <3>2, <5>1 DEF Entry
      <4>2. About(log, k) # {}
        BY <2>5, <3>1, <3>2
      <4> QED BY <4>1, <4>2 DEF Restores
    <3>3. CASE k # op.key
      <4>1. allowed'[k] = allowed[k] /\ pageOnDisk' = pageOnDisk
        BY <1>3, <2>2, <3>3
      <4> QED BY <3>1, <4>1, RestoresMonotone
    <3> QED BY <3>2, <3>3
  <2>8. Durable'
    BY <2>6 DEF Durable
  <2>9. ReadsAllowed'
    <3>1. ASSUME NEW k \in Keys PROVE Lookup(k)' \in allowed'[k]
      <4>1. CASE k = op.key
        <5>1. mem'[k] = op.val /\ allowed'[k] = {op.val} /\ op.val # Absent
          BY <1>3, <2>1, <2>2, <4>1, DistinctMarks DEF Stored
        <5> QED BY <5>1 DEF Lookup
      <4>2. CASE k # op.key
        <5>1. mem'[k] = mem[k] /\ allowed'[k] = allowed[k] /\ pages' = pages
          BY <1>3, <2>1, <2>2, <4>2
        <5>2. Lookup(k) \in allowed[k]
          BY <1>3, <2>2 DEF ReadsAllowed
        <5> QED BY <5>1, <5>2 DEF Lookup
      <4> QED BY <4>1, <4>2
    <3> QED BY <3>1 DEF ReadsAllowed
  <2>10. Progress'
    <3>1. CASE pc' = "unindex"
      <4>1. op.kind = "delete" /\ op' = op
        BY <1>19, <3>1 DEF ApplyToMemTable, Return
      <4> QED BY <1>3, <2>1, <2>2, <3>1, <4>1 DEF Progress
    <3>2. CASE pc' = "flush"
      BY <1>19, <1>7, <3>2 DEF ApplyToMemTable, Return
    <3>3. CASE pc' = "idle"
      BY <1>6, <3>3
    <3> QED BY <1>19, <3>1, <3>2, <3>3 DEF ApplyToMemTable, Return
  <2> QED BY <2>8, <2>9, <2>10
<1>20. ASSUME NEW k \in Keys, WriteKey(k, mem[k]), mem[k] # Absent,
              pc # "down", UNCHANGED <<mem, allowed, logsOnDisk>>
       PROVE  Durable' /\ ReadsAllowed'
  <2>1. mem[k] \in allowed[k]
    BY <1>3, <1>20 DEF ReadsAllowed, Lookup
  <2>2. \A j \in Keys : pageOnDisk'[j] \subseteq pageOnDisk[j] \cup allowed'[j]
    BY <1>3, <1>20, <2>1 DEF WriteKey
  <2>3. Durable'
    BY <1>4, <1>20, <2>2
  <2>4. \A j \in Keys : Lookup(j)' = Lookup(j)
    BY <1>3, <1>20 DEF WriteKey, Lookup
  <2>5. ReadsAllowed'
    BY <1>3, <1>20, <2>4 DEF ReadsAllowed
  <2> QED BY <2>3, <2>5
<1>21. CASE UnindexKey
  <2>1. op.key \in Keys /\ mem[op.key] = NoValue
    BY <1>3, <1>21, OpKeyVal DEF UnindexKey, OpFits, Progress
  <2>2. WriteKey(op.key, mem[op.key])
    BY <2>1, <1>21 DEF UnindexKey, RemoveKey
  <2> QED
    BY <1>6, <1>20, <1>21, <2>1, <2>2, DistinctMarks DEF UnindexKey, Return
<1>22. CASE FlushEntry
  <2>1. PICK k \in Keys :
          /\ NextToFlush(k)
          /\ \/ mem[k] = NoValue /\ RemoveKey(k)
             \/ mem[k] # NoValue /\ WriteKey(k, mem[k]) /\ NoFault
          /\ todo' = todo \ {k}
    BY <1>22 DEF FlushEntry
  <2>2. WriteKey(k, mem[k])
    BY <2>1 DEF RemoveKey
  <2>3. /\ pc = "flush" /\ pc' = "flush"
        /\ UNCHANGED <<mem, op, wal, logsOnDisk, allowed, tainted>>
    BY <1>22 DEF FlushEntry
  <2>4. mem[k] # Absent
    BY <1>3, <2>1 DEF TodoInMem, NextToFlush
  <2>5. Durable' /\ ReadsAllowed'
    BY <1>20, <2>2, <2>3, <2>4
  <2>6. Progress'
    <3>1. ASSUME NEW j \in Keys, mem'[j] # Absent, j \notin todo'
          PROVE  pages'[j] = mem'[j]
      BY <1>3, <2>1, <2>2, <2>3, <3>1 DEF Progress, WriteKey
    <3> QED BY <2>3, <3>1 DEF Progress
  <2> QED BY <2>5, <2>6
<1>23. ASSUME GiveUp, UNCHANGED <<disk, allowed>>, pc # "down"
       PROVE  Goal
  <2>1. Durable'
    BY <1>4, <1>23 DEF disk
  <2>2. ReadsAllowed'
    BY <1>5, <1>23 DEF GiveUp, ReadsAllowed, disk
  <2> QED BY <1>6, <1>23, <2>1, <2>2 DEF GiveUp
<1>24. CASE FlushEntryFails
  BY <1>23, <1>24 DEF FlushEntryFails
<1>25. CASE SyncPages
  <2>1. /\ pageOnDisk' = [k \in Keys |-> {pages[k]}]
        /\ pc' = "clear" /\ pc = "flush" /\ todo = {}
        /\ UNCHANGED <<op, mem, wal, logsOnDisk, pages, allowed, tainted>>
    BY <1>25 DEF SyncPages, history
  <2>2. Durable' /\ ReadsAllowed'
    BY <1>3, <1>4, <1>5, <2>1
  <2>3. Progress'
    BY <1>3, <2>1 DEF Progress
  <2> QED BY <2>2, <2>3
<1>26. CASE SyncPagesFails
  BY <1>23, <1>26 DEF SyncPagesFails
<1>27. CASE ClearMemTable
  <2>1. /\ mem' = EmptyMem /\ pc' = "truncate" /\ pc = "clear"
        /\ UNCHANGED <<op, wal, logsOnDisk, pages, pageOnDisk, allowed, tainted>>
    BY <1>27 DEF ClearMemTable, disk, history
  <2>2. Durable'
    BY <1>4, <2>1
  <2>3. \A k \in Keys : Lookup(k)' = Lookup(k)
    BY <1>3, <2>1 DEF Progress, Lookup, EmptyMem
  <2>4. ReadsAllowed'
    BY <1>3, <2>1, <2>3 DEF ReadsAllowed
  <2>5. Progress'
    BY <1>3, <2>1 DEF Progress
  <2> QED BY <2>2, <2>4, <2>5
<1>28. CASE TruncateLog
  <2>1. /\ logsOnDisk' = logsOnDisk \cup {<<>>} /\ pc = "truncate"
        /\ pc' \in {"shut", "idle"}
        /\ UNCHANGED <<mem, pages, pageOnDisk, allowed, tainted>>
    BY <1>28 DEF TruncateLog, Return, history
  <2>2. \A k \in Keys : pageOnDisk[k] = {pages[k]} /\ pages[k] \in allowed[k]
    BY <1>3, <2>1 DEF Progress, ReadsAllowed, Lookup, EmptyMem
  <2>3. ASSUME NEW log \in logsOnDisk', NEW k \in Keys PROVE Restores(log, k)'
    <3>1. CASE log \in logsOnDisk
      BY <1>3, <2>1, <3>1, RestoresMonotone
    <3>2. CASE log = <<>>
      BY <2>1, <2>2, <3>2 DEF Restores
    <3> QED BY <2>1, <3>1, <3>2
  <2>4. Durable'
    BY <2>3 DEF Durable
  <2> QED BY <1>5, <1>6, <2>1, <2>4
<1>29. CASE TruncateFails
  BY <1>23, <1>29 DEF TruncateFails
<1>30. CASE Shut
  <2>1. /\ pageOnDisk' = [k \in Keys |-> {pages[k]}]
        /\ pc = "shut" /\ pc' = "idle"
        /\ UNCHANGED <<mem, logsOnDisk, pages, allowed>>
    BY <1>30 DEF Shut, Return, history
  <2> QED BY <1>3, <1>4, <1>5, <1>6, <2>1
<1>31. CASE ShutFails
  BY <1>31, <1>4, <1>5, <1>6 DEF ShutFails, Return, disk
<1>32. CASE ProcessCrash
  BY <1>32, <1>4, <1>6 DEF ProcessCrash, Die, ReadsAllowed, disk
<1>33. CASE PowerFailure
  <2>1. /\ logsOnDisk' \subseteq logsOnDisk
        /\ \A k \in Keys : pageOnDisk'[k] \subseteq pageOnDisk[k]
        /\ allowed' = allowed
        /\ pc' = "down"
    BY <1>3, <1>33 DEF PowerFailure, Die
  <2> QED BY <1>4, <1>6, <2>1 DEF ReadsAllowed
<1>34. CASE UNCHANGED vars
  BY <1>3, <1>34 DEF vars, engine, disk, history, Durable, Restores,
     ReadsAllowed, Lookup, Progress
<1> QED
  BY <1>10, <1>11, <1>12, <1>13, <1>14, <1>15, <1>16, <1>17, <1>18, <1>19,
     <1>21, <1>22, <1>24, <1>25, <1>26, <1>27, <1>28, <1>29, <1>30, <1>31,
     <1>32, <1>33, <1>34 DEF Next, Step

(* Crash safety of the engine: if a failing BTree.Delete is always seen,   *)
(* then whatever a power failure leaves restores every completed write,    *)
(* for every behaviour in which no record was appended behind a torn one.  *)
THEOREM CrashSafe ==
    ASSUME DeleteErrors = FALSE
    PROVE  Spec => []Durable
<1>1. IInv /\ [Next]_vars => IInv'
  BY NextIInv
<1>2. IInv => Durable
  BY DEF IInv, Durable
<1> QED BY <1>1, <1>2, InitIInv, PTL DEF Spec

-----------------------------------------------------------------------------
(* Refinement.                                                             *)

(* If no append leaves part of a record, every log is whole, ...           *)
LogsIntact == ~tainted /\ \A log \in logsOnDisk : Intact(log)

LEMMA InitIntact == Init => LogsIntact
BY DEF Init, LogsIntact, Intact

(* ... because only torn records are ever left behind others.              *)
LEMMA NextIntact ==
    ASSUME TornWrites = FALSE, WellFormed, LogsIntact, [Next]_vars
    PROVE  LogsIntact'
<1> USE DEF WellFormed, TypeOK, DiskView
<1>1. CASE AppendRecord
  <2>1. op.key \in Keys /\ op.val \in Stored /\ Intact(wal)
    BY <1>1, OpKeyVal DEF AppendRecord, OpFits, LogsIntact
  <2>2. Intact(Append(wal, Entry(op.key, op.val)))
    BY <2>1, EntryIsRecord, AppendWhole DEF Entry
  <2>3. /\ \A log \in logsOnDisk' : log \in logsOnDisk
                                  \/ log = Append(wal, Entry(op.key, op.val))
        /\ tainted' = FALSE
    BY <1>1, <2>1 DEF AppendRecord, LogsIntact
  <2> QED BY <2>2, <2>3 DEF LogsIntact
<1>2. CASE ~AppendRecord
  <2>1. tainted' = tainted
    BY <1>2 DEF Next, Step, Put, Begin, Delete, Flush, Close, Open,
         AppendFails, SyncRecord, SyncFails, ApplyToMemTable, UnindexKey,
         FlushEntry, FlushEntryFails, SyncPages, SyncPagesFails, ClearMemTable,
         TruncateLog, TruncateFails, Shut, ShutFails, ProcessCrash,
         PowerFailure, vars, history
  <2>2. logsOnDisk' \subseteq logsOnDisk \cup {<<>>}
    BY <1>2 DEF Next, Step, Put, Begin, Delete, Flush, Close, Open,
         AppendFails, SyncRecord, SyncFails, ApplyToMemTable, UnindexKey,
         FlushEntry, FlushEntryFails, SyncPages, SyncPagesFails, ClearMemTable,
         TruncateLog, TruncateFails, Shut, ShutFails, ProcessCrash,
         PowerFailure, vars, disk
  <2>3. Intact(<<>>)
    BY DEF Intact
  <2> QED BY <2>1, <2>2, <2>3 DEF LogsIntact
<1> QED BY <1>1, <1>2

(* What a restart would answer is promised, and is a value.                *)
RecoversAllowed == \A k \in Keys : Recovered(k) \in allowed[k] /\ Recovered(k) \in Stored

LEMMA RestartIsAllowed == WellFormed /\ AcknowledgedWritesSurvive => RecoversAllowed
<1> SUFFICES ASSUME WellFormed, AcknowledgedWritesSurvive, NEW k \in Keys
             PROVE  Recovered(k) \in allowed[k] /\ Recovered(k) \in Stored
  BY DEF RecoversAllowed
<1>1. /\ wal \in Seq(Record) /\ HasLast(wal) /\ Restores(wal, k)
      /\ pages[k] \in pageOnDisk[k] /\ pages[k] \in Stored
  BY DEF WellFormed, TypeOK, DiskView, AcknowledgedWritesSurvive
<1>2. CASE About(wal, k) = {} /\ Replay(wal, k) = Absent
  BY <1>1, <1>2 DEF Recovered, Restores
<1>3. CASE \E i \in DOMAIN wal : IsLast(wal, k, i) /\ Replay(wal, k) = wal[i].val
                                 /\ wal[i].val \in Stored
  BY <1>1, <1>3, DistinctMarks DEF Recovered, Restores, Stored
<1> QED BY <1>1, <1>2, <1>3, ReplayIsLast

StoreInv == IInv /\ LogsIntact

LEMMA InitStoreInv == Init => StoreInv
BY InitIInv, InitIntact DEF StoreInv

LEMMA NextStoreInv ==
    ASSUME DeleteErrors = FALSE, TornWrites = FALSE, StoreInv, [Next]_vars
    PROVE  StoreInv'
BY NextIInv, NextIntact DEF StoreInv, IInv

LEMMA InitIsStoreInit == Init => Store!Init
<1> SUFFICES ASSUME Init PROVE Store!Init
  OBVIOUS
<1>1. \A k \in Keys : Current(k) = NoValue
  BY DEF Init, Current, Recovered, Replay, About, Readable
<1>2. allowed = [k \in Keys |-> {NoValue}]
  BY DEF Init
<1> QED BY <1>1, <1>2 DEF Store!Init

(* A step is an attempt where the record enters the log, a commit where    *)
(* the memtable is changed, a restart where the process ends, and nothing  *)
(* to the callers everywhere else.                                         *)
LEMMA NextIsStoreNext ==
    ASSUME DeleteErrors = FALSE, TornWrites = FALSE, StoreInv, StoreInv', [Next]_vars
    PROVE  [Store!Next]_(Store!vars)
<1> DEFINE view == [k \in Keys |-> Current(k)]
<1> USE DEF WellFormed, TypeOK, DiskView
<1>1. /\ WellFormed /\ ReadsAllowed /\ Progress
      /\ \A log \in logsOnDisk, k \in Keys : Restores(log, k)
  BY DEF StoreInv, LogsIntact, IInv, Durable
<1>2. RecoversAllowed'
  <2>1. WellFormed' /\ AcknowledgedWritesSurvive'
    BY DEF StoreInv, LogsIntact, IInv, Durable, AcknowledgedWritesSurvive
  <2> QED BY <2>1, RestartIsAllowed, PTL
<1>3. ASSUME allowed' = allowed, \A k \in Keys : Current(k)' = Current(k)
      PROVE  [Store!Next]_(Store!vars)
  <2>1. view' = view
    BY <1>3
  <2> QED BY <1>3, <2>1 DEF Store!vars
<1>4. ASSUME pc' = "down", allowed' = allowed
      PROVE  [Store!Next]_(Store!vars)
  <2>1. view' \in [Keys -> Stored] /\ \A k \in Keys : view'[k] \in allowed[k]
    BY <1>2, <1>4 DEF Current, RecoversAllowed, Stored
  <2>2. Store!Restart
    BY <1>4, <2>1 DEF Store!Restart, Store!Stored, Stored
  <2> QED BY <2>2 DEF Store!Next
<1>5. ASSUME pc # "down", pc' # "down", mem' = mem, pages' = pages, allowed' = allowed
      PROVE  [Store!Next]_(Store!vars)
  BY <1>3, <1>5 DEF Current, Lookup
<1>6. ASSUME NEW k \in Keys, NEW v \in Values, Put(k, v) PROVE [Store!Next]_(Store!vars)
  BY <1>5, <1>6 DEF Put, Begin, disk, history
<1>7. ASSUME NEW k \in Keys, Delete(k) PROVE [Store!Next]_(Store!vars)
  BY <1>5, <1>7 DEF Delete, Begin, disk, history
<1>8. CASE Flush
  BY <1>5, <1>8 DEF Flush, disk, history
<1>9. CASE Close
  BY <1>5, <1>9 DEF Close, disk, history
<1>10. CASE Open
  <2>1. /\ mem' = [k \in Keys |-> Replay(wal, k)] /\ pc = "down" /\ pc' # "down"
        /\ pages' = pages /\ allowed' = allowed
    BY <1>10 DEF Open, Return, disk, history
  <2> QED BY <1>3, <2>1 DEF Current, Lookup, Recovered
<1>11. CASE AppendRecord
  <2>1. op.key \in Keys /\ op.val \in Stored
    BY <1>1, <1>11, OpKeyVal DEF AppendRecord, OpFits
  <2>2. /\ pc = "append" /\ pc' = "sync" /\ mem' = mem /\ pages' = pages
        /\ allowed' = [allowed EXCEPT ![op.key] = @ \cup {op.val}]
    BY <1>11 DEF AppendRecord
  <2>3. view' = view
    BY <2>2 DEF Current, Lookup
  <2>4. Store!Attempt(op.key, op.val)
    BY <2>2, <2>3 DEF Store!Attempt
  <2> QED BY <2>1, <2>4 DEF Store!Next, Store!Stored, Stored
<1>12. CASE AppendFails
  BY <1>5, <1>12 DEF AppendFails, Return
<1>13. CASE SyncRecord
  BY <1>5, <1>13 DEF SyncRecord, history
<1>14. CASE SyncFails
  BY <1>5, <1>14 DEF SyncFails, Return, disk
<1>15. CASE ApplyToMemTable
  <2>1. op.key \in Keys /\ op.val \in Stored
    BY <1>1, <1>15, OpKeyVal DEF ApplyToMemTable, OpFits
  <2>2. /\ pc = "apply" /\ pc' # "down" /\ pages' = pages
        /\ mem' = [mem EXCEPT ![op.key] = op.val]
        /\ allowed' = [allowed EXCEPT ![op.key] = {op.val}]
    BY <1>15 DEF ApplyToMemTable, Return, disk
  <2>3. /\ Intact(wal) /\ wal # <<>> /\ wal[Len(wal)] = Entry(op.key, op.val)
        /\ logsOnDisk = {wal}
    BY <1>1, <2>2 DEF Progress
  <2>4. IsLast(wal, op.key, Len(wal)) /\ Len(wal) \in DOMAIN wal
    <3>1. Len(wal) \in DOMAIN wal /\ DOMAIN wal = 1..Len(wal) /\ Len(wal) \in Nat
      BY <1>1, <2>3
    <3> QED BY <2>3, <3>1 DEF IsLast, About, Readable, Intact, Entry
  <2>5. op.val \in allowed[op.key]
    BY <1>1, <2>1, <2>3, <2>4 DEF Restores, Entry
  <2>6. view' = [view EXCEPT ![op.key] = op.val]
    <3>1. op.val # Absent
      BY <2>1, DistinctMarks DEF Stored
    <3>2. ASSUME NEW k \in Keys PROVE Current(k)' = IF k = op.key THEN op.val ELSE Current(k)
      BY <1>1, <2>1, <2>2, <3>1 DEF Current, Lookup
    <3> QED BY <2>1, <3>2
  <2>7. Store!Commit(op.key, op.val)
    BY <2>2, <2>5, <2>6 DEF Store!Commit
  <2> QED BY <2>1, <2>7 DEF Store!Next, Store!Stored, Stored
<1>16. ASSUME NEW k \in Keys, WriteKey(k, mem[k]), mem[k] # Absent,
              pc # "down", pc' # "down", UNCHANGED <<mem, allowed>>
       PROVE  [Store!Next]_(Store!vars)
  <2>1. \A j \in Keys : Current(j)' = Current(j)
    BY <1>1, <1>16 DEF WriteKey, Current, Lookup
  <2> QED BY <1>3, <1>16, <2>1
<1>17. CASE UnindexKey
  <2>1. op.key \in Keys /\ mem[op.key] = NoValue
    BY <1>1, <1>17, OpKeyVal DEF UnindexKey, OpFits, Progress
  <2>2. WriteKey(op.key, mem[op.key])
    BY <2>1, <1>17 DEF UnindexKey, RemoveKey
  <2> QED BY <1>16, <1>17, <2>1, <2>2, DistinctMarks DEF UnindexKey, Return
<1>18. CASE FlushEntry
  <2>1. PICK k \in Keys :
          /\ NextToFlush(k)
          /\ \/ mem[k] = NoValue /\ RemoveKey(k)
             \/ mem[k] # NoValue /\ WriteKey(k, mem[k]) /\ NoFault
    BY <1>18 DEF FlushEntry
  <2>2. WriteKey(k, mem[k])
    BY <2>1 DEF RemoveKey
  <2>3. mem[k] # Absent
    BY <1>1, <2>1 DEF TodoInMem, NextToFlush
  <2> QED BY <1>16, <1>18, <2>2, <2>3 DEF FlushEntry
<1>19. ASSUME GiveUp, UNCHANGED <<disk, allowed>>, pc # "down"
       PROVE  [Store!Next]_(Store!vars)
  BY <1>4, <1>5, <1>19 DEF GiveUp, disk
<1>20. CASE FlushEntryFails
  BY <1>19, <1>20 DEF FlushEntryFails
<1>21. CASE SyncPages
  BY <1>5, <1>21 DEF SyncPages, history
<1>22. CASE SyncPagesFails
  BY <1>19, <1>22 DEF SyncPagesFails
<1>23. CASE ClearMemTable
  <2>1. /\ mem' = EmptyMem /\ pc = "clear" /\ pc' = "truncate"
        /\ pages' = pages /\ allowed' = allowed
    BY <1>23 DEF ClearMemTable, disk, history
  <2>2. \A k \in Keys : Current(k)' = Current(k)
    BY <1>1, <2>1 DEF Progress, Current, Lookup, EmptyMem
  <2> QED BY <1>3, <2>1, <2>2
<1>24. CASE TruncateLog
  BY <1>5, <1>24 DEF TruncateLog, Return, history
<1>25. CASE TruncateFails
  BY <1>19, <1>25 DEF TruncateFails
<1>26. CASE Shut
  BY <1>5, <1>26 DEF Shut, Return, history
<1>27. CASE ShutFails
  BY <1>5, <1>27 DEF ShutFails, Return, disk
<1>28. CASE ProcessCrash
  BY <1>4, <1>28 DEF ProcessCrash, Die
<1>29. CASE PowerFailure
  BY <1>4, <1>29 DEF PowerFailure, Die
<1>30. CASE UNCHANGED vars
  <2>1. UNCHANGED <<pc, mem, wal, pages, allowed>>
    BY <1>30 DEF vars, engine, disk, history
  <2> QED BY <1>3, <2>1 DEF Current, Recovered, Lookup
<1> QED
  BY <1>6, <1>7, <1>8, <1>9, <1>10, <1>11, <1>12, <1>13, <1>14, <1>15, <1>17,
     <1>18, <1>20, <1>21, <1>22, <1>23, <1>24, <1>25, <1>26, <1>27, <1>28,
     <1>29, <1>30 DEF Next, Step

(* The engine keeps the promise of DurableStore: while no record is torn   *)
(* and no failing BTree.Delete is swallowed, a completed Put or Delete is  *)
(* never undone, and one that was cut off happened or did not.             *)
THEOREM Implements ==
    ASSUME DeleteErrors = FALSE, TornWrites = FALSE
    PROVE  Spec => StoreSpec
<1>1. StoreInv /\ [Next]_vars => StoreInv'
  BY NextStoreInv
<1>2. StoreInv /\ StoreInv' /\ [Next]_vars => [Store!Next]_(Store!vars)
  BY NextIsStoreNext
<1> QED BY <1>1, <1>2, InitStoreInv, InitIsStoreInit, PTL DEF Spec, StoreSpec, Store!Spec
=============================================================================
