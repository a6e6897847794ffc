---------------------------- MODULE KodedEngine ----------------------------
(***************************************************************************)
(* The storage engine of kodeddb-core: the write-ahead log, the memtable,  *)
(* the B+tree of pages seen as a map, and the recovery that puts them      *)
(* together again after a crash.                                           *)
(*                                                                         *)
(* Every operation holds Engine.mu for its whole length, so at most one is *)
(* in progress; what interleaves with it are crashes and I/O errors, which *)
(* can strike between any two of its steps. Readers hold the read lock and *)
(* see only the states in which pc = "idle".                               *)
(*                                                                         *)
(* Durability is modelled by what the code fsyncs. The process sees wal    *)
(* and pages; logsOnDisk and pageOnDisk[k] hold everything a power failure *)
(* may leave in their place, and an fsync shrinks them to the one content  *)
(* the process sees. The truncation of the log is not fsynced.             *)
(***************************************************************************)
EXTENDS Integers, Sequences, FiniteSets

CONSTANTS
    Keys,            (* keys, ordered as bytes.Compare orders them          *)
    Values,          (* values                                              *)
    Oversized,       (* the values no B+tree page has room for              *)
    NoValue,         (* "no value": a tombstone, or a key not in the tree   *)
    Absent,          (* the memtable has no entry for the key               *)
    FlushThreshold,  (* types.MemTableFlushThreshold                        *)
    MaxLog,          (* bound: records in the log when an operation starts  *)
    MaxFaults,       (* bound: crashes and I/O errors in a behaviour        *)
    TornWrites,      (* may an interrupted append leave part of a record?   *)
    IOErrors,        (* may a write, fsync or truncate return an error?     *)
    DeleteErrors     (* may BTree.Delete fail with something other than     *)
                     (* ErrKeyNotFound?                                     *)

ASSUME KeysAreOrdered == Keys \subseteq Int
ASSUME DistinctMarks ==
    /\ NoValue \notin Values
    /\ Absent \notin Values
    /\ Absent # NoValue
ASSUME Bounds ==
    /\ Oversized \subseteq Values
    /\ FlushThreshold \in Nat \ {0}
    /\ MaxLog \in Nat
    /\ MaxFaults \in Nat
ASSUME Switches == {TornWrites, IOErrors, DeleteErrors} \subseteq BOOLEAN

Stored == Values \cup {NoValue}

VARIABLES
    pc,          (* where the operation in progress is                      *)
    op,          (* the operation in progress                               *)
    mem,         (* the memtable                                            *)
    todo,        (* the memtable entries flushMemTable has not written yet  *)
    wal,         (* the log file as the process sees it                     *)
    logsOnDisk,  (* the logs a power failure may leave                      *)
    pages,       (* the B+tree as the process sees it                       *)
    pageOnDisk,  (* the values a power failure may leave for each key       *)
    closed,      (* Engine.closed                                           *)
    filesOpen,   (* the data file and the log are open                      *)
    faults,      (* crashes and I/O errors so far                           *)
    allowed,     (* history: the values a restart may give each key         *)
    tainted      (* history: a record was appended behind a torn one        *)

engine == <<pc, op, mem, todo, closed, filesOpen>>
disk == <<wal, logsOnDisk, pages, pageOnDisk>>
history == <<faults, allowed, tainted>>
vars == <<engine, disk, history>>

-----------------------------------------------------------------------------
(* The log. A record that was not written whole fails the length or the    *)
(* checksum test of ReadAll, and ReadAll stops there.                      *)

Record == [key : Keys, val : Stored, whole : BOOLEAN]

Entry(k, v) == [key |-> k, val |-> v, whole |-> TRUE]
Torn(k, v) == [key |-> k, val |-> v, whole |-> FALSE]

Intact(log) == \A i \in DOMAIN log : log[i].whole

(* The positions ReadAll hands to its callback, and those about k.         *)
Readable(log) == {i \in DOMAIN log : \A j \in 1..i : log[j].whole}
About(log, k) == {i \in Readable(log) : log[i].key = k}

IsLast(log, k, i) ==
    /\ i \in About(log, k)
    /\ \A j \in About(log, k) : j <= i

(* What replaying the log into an empty memtable leaves for k.             *)
Replay(log, k) ==
    IF About(log, k) = {} THEN Absent
    ELSE log[CHOOSE i \in About(log, k) : IsLast(log, k, i)].val

-----------------------------------------------------------------------------
(* Reads. Get answers from the memtable, tombstones included, and falls    *)
(* through to the B+tree.                                                  *)

(* Mutant: Get that does not ask IsDeleted. *)
LookupSkippingTombstones(k) ==
    IF mem[k] \in {Absent, NoValue} THEN pages[k] ELSE mem[k]

Lookup(k) == IF mem[k] = Absent THEN pages[k] ELSE mem[k]

(* What Get answers after the restart in progress, if it succeeds.         *)
Recovered(k) == IF Replay(wal, k) = Absent THEN pages[k] ELSE Replay(wal, k)

Current(k) == IF pc = "down" THEN Recovered(k) ELSE Lookup(k)

-----------------------------------------------------------------------------
NoOp == [kind |-> "none"]
Operation ==
    [kind : {"none", "flush", "close", "open"}]
        \cup [kind : {"put", "delete"}, key : Keys, val : Stored]

EmptyMem == [k \in Keys |-> Absent]
InMem(m) == {k \in Keys : m[k] # Absent}

Init ==
    /\ pc = "down"
    /\ op = NoOp
    /\ mem = EmptyMem
    /\ todo = {}
    /\ wal = <<>>
    /\ logsOnDisk = {<<>>}
    /\ pages = [k \in Keys |-> NoValue]
    /\ pageOnDisk = [k \in Keys |-> {NoValue}]
    /\ closed = FALSE
    /\ filesOpen = FALSE
    /\ faults = 0
    /\ allowed = [k \in Keys |-> {NoValue}]
    /\ tainted = FALSE

(* One more crash or I/O error. *)
Fault ==
    /\ faults < MaxFaults
    /\ faults' = faults + 1

NoFault == UNCHANGED faults

(* The operation returns to its caller and releases Engine.mu.             *)
Return ==
    /\ pc' = "idle"
    /\ op' = NoOp
    /\ todo' = {}

-----------------------------------------------------------------------------
(* Engine.Put and Engine.Delete, up to the log.                            *)

Begin(kind, k, v) ==
    /\ pc = "idle"
    /\ Len(wal) < MaxLog
    /\ pc' = "append"
    /\ op' = [kind |-> kind, key |-> k, val |-> v]
    /\ UNCHANGED <<mem, todo, closed, filesOpen, disk, history>>

Put(k, v) == v \in Values /\ Begin("put", k, v)

Delete(k) == Begin("delete", k, NoValue)

(* WAL.Write: one write call. Until the fsync a power failure may drop the *)
(* record or keep part of it.                                              *)
AppendRecord ==
    /\ pc = "append"
    /\ filesOpen
    /\ wal' = Append(wal, Entry(op.key, op.val))
    /\ logsOnDisk' = logsOnDisk \cup {wal'}
            \cup {Append(wal, r) : r \in IF TornWrites
                                         THEN {Torn(op.key, op.val)} ELSE {}}
    /\ pc' = "sync"
    /\ allowed' = [allowed EXCEPT ![op.key] = @ \cup {op.val}]
    /\ tainted' = (tainted \/ ~Intact(wal))
    /\ UNCHANGED <<op, mem, todo, closed, filesOpen, pages, pageOnDisk, faults>>

(* The write call fails: the file is closed, or the device refused it and  *)
(* took none or part of the record. Nothing removes that part.             *)
AppendFails ==
    /\ pc = "append"
    /\ \/ ~filesOpen /\ NoFault /\ wal' = wal
       \/ filesOpen /\ IOErrors /\ Fault /\ wal' = wal
       \/ /\ filesOpen /\ IOErrors /\ TornWrites /\ Fault
          /\ wal' = Append(wal, Torn(op.key, op.val))
    /\ logsOnDisk' = logsOnDisk \cup {wal'}
    /\ Return
    /\ UNCHANGED <<mem, closed, filesOpen, pages, pageOnDisk, allowed, tainted>>

(* Mutant: WAL.Write without its fsync. *)
SyncRecordNoFsync ==
    /\ pc = "sync"
    /\ pc' = "apply"
    /\ UNCHANGED <<op, mem, todo, closed, filesOpen, disk, history>>

SyncRecord ==
    /\ pc = "sync"
    /\ logsOnDisk' = {wal}
    /\ pc' = "apply"
    /\ UNCHANGED <<op, mem, todo, closed, filesOpen, wal, pages, pageOnDisk, history>>

(* The fsync fails: Put returns an error but the record stays in the log.  *)
SyncFails ==
    /\ pc = "sync"
    /\ IOErrors /\ Fault
    /\ Return
    /\ UNCHANGED <<mem, closed, filesOpen, disk, allowed, tainted>>

(* MemTable.Put and MemTable.Delete; a Put then tests ShouldFlush, a       *)
(* Delete goes on to the B+tree.                                           *)
ApplyToMemTable ==
    /\ pc = "apply"
    /\ mem' = [mem EXCEPT ![op.key] = op.val]
    /\ allowed' = [allowed EXCEPT ![op.key] = {op.val}]
    /\ \/ /\ op.kind = "delete"
          /\ pc' = "unindex"
          /\ UNCHANGED <<op, todo>>
       \/ /\ op.kind = "put"
          /\ Cardinality(InMem(mem')) >= FlushThreshold
          /\ pc' = "flush"
          /\ todo' = InMem(mem')
          /\ UNCHANGED op
       \/ /\ op.kind = "put"
          /\ Cardinality(InMem(mem')) < FlushThreshold
          /\ Return
    /\ UNCHANGED <<closed, filesOpen, disk, faults, tainted>>

-----------------------------------------------------------------------------
(* The B+tree as a map. A page write reaches the file and is durable only  *)
(* after the next fsync of the data file.                                  *)

WriteKey(k, v) ==
    /\ pages' = [pages EXCEPT ![k] = v]
    /\ pageOnDisk' = [pageOnDisk EXCEPT ![k] = @ \cup {v}]

(* Mutants: a removal that leaves a mark in the tree, one that does nothing. *)
RemoveKeyMarking(k) == WriteKey(k, Absent) /\ NoFault

(* BTree.Delete, whose error both callers drop.                            *)
RemoveKey(k) ==
    \/ WriteKey(k, NoValue) /\ NoFault
    \/ DeleteErrors /\ Fault /\ UNCHANGED <<pages, pageOnDisk>>

UnindexKey ==
    /\ pc = "unindex"
    /\ RemoveKey(op.key)
    /\ Return
    /\ UNCHANGED <<mem, closed, filesOpen, wal, logsOnDisk, allowed, tainted>>

-----------------------------------------------------------------------------
(* flushMemTable: every entry to the B+tree in key order, fsync, clear the *)
(* memtable, truncate the log.                                             *)

NextToFlush(k) == k \in todo /\ \A j \in todo : k <= j

Flush ==
    /\ pc = "idle"
    /\ pc' = "flush"
    /\ op' = [kind |-> "flush"]
    /\ todo' = InMem(mem)
    /\ UNCHANGED <<mem, closed, filesOpen, disk, history>>

FlushEntry ==
    /\ pc = "flush"
    /\ \E k \in Keys :
        /\ NextToFlush(k)
        /\ mem[k] \notin Oversized
        /\ \/ mem[k] = NoValue /\ RemoveKey(k)
           \/ mem[k] # NoValue /\ WriteKey(k, mem[k]) /\ NoFault
        /\ todo' = todo \ {k}
    /\ UNCHANGED <<pc, op, mem, closed, filesOpen, wal, logsOnDisk, allowed, tainted>>

(* flushMemTable returns an error. Put and Flush hand it to the caller and *)
(* keep running; Open gives up and the process ends. A failed Close leaves *)
(* closed set and the files open.                                          *)
GiveUp ==
    /\ pc' = IF op.kind = "open" THEN "down" ELSE "idle"
    /\ filesOpen' = (filesOpen /\ op.kind # "open")
    /\ mem' = IF op.kind = "open" THEN EmptyMem ELSE mem
    /\ op' = NoOp
    /\ todo' = {}
    /\ UNCHANGED closed

(* BTree.Put fails: a page could not be read or written, or is full.       *)
FlushEntryFails ==
    /\ pc = "flush"
    /\ \E k \in Keys :
        /\ NextToFlush(k)
        /\ \/ mem[k] \in Oversized /\ NoFault
           \/ mem[k] # NoValue /\ IOErrors /\ Fault
    /\ GiveUp
    /\ UNCHANGED <<disk, allowed, tainted>>

SyncPages ==
    /\ pc = "flush"
    /\ todo = {}
    /\ filesOpen
    /\ pageOnDisk' = [k \in Keys |-> {pages[k]}]
    /\ pc' = "clear"
    /\ UNCHANGED <<op, mem, todo, closed, filesOpen, wal, logsOnDisk, pages, history>>

SyncPagesFails ==
    /\ pc = "flush"
    /\ todo = {}
    /\ \/ IOErrors /\ Fault
       \/ ~filesOpen /\ NoFault
    /\ GiveUp
    /\ UNCHANGED <<disk, allowed, tainted>>

ClearMemTable ==
    /\ pc = "clear"
    /\ mem' = EmptyMem
    /\ pc' = "truncate"
    /\ UNCHANGED <<op, todo, closed, filesOpen, disk, history>>

(* WAL.Truncate does not fsync: the old log may come back. Recovery        *)
(* truncates the empty log once more, which changes nothing.               *)
TruncateLog ==
    /\ pc = "truncate"
    /\ wal' = <<>>
    /\ logsOnDisk' = logsOnDisk \cup {<<>>}
    /\ \/ /\ op.kind = "close"
          /\ pc' = "shut"
          /\ UNCHANGED <<op, todo>>
       \/ op.kind # "close" /\ Return
    /\ UNCHANGED <<mem, closed, filesOpen, pages, pageOnDisk, history>>

TruncateFails ==
    /\ pc = "truncate"
    /\ IOErrors /\ Fault
    /\ GiveUp
    /\ UNCHANGED <<disk, allowed, tainted>>

-----------------------------------------------------------------------------
(* Engine.Close: closed is set first, then the memtable is flushed if it   *)
(* has entries, then Pager.Close fsyncs and both files are closed. A       *)
(* second Close returns at once, whatever the first one managed to do.     *)

Close ==
    /\ pc = "idle"
    /\ ~closed
    /\ closed' = TRUE
    /\ op' = [kind |-> "close"]
    /\ pc' = IF InMem(mem) = {} THEN "shut" ELSE "flush"
    /\ todo' = InMem(mem)
    /\ UNCHANGED <<mem, filesOpen, disk, history>>

Shut ==
    /\ pc = "shut"
    /\ pageOnDisk' = [k \in Keys |-> {pages[k]}]
    /\ filesOpen' = FALSE
    /\ Return
    /\ UNCHANGED <<mem, closed, wal, logsOnDisk, pages, history>>

ShutFails ==
    /\ pc = "shut"
    /\ IOErrors /\ Fault
    /\ Return
    /\ UNCHANGED <<mem, closed, filesOpen, disk, allowed, tainted>>

-----------------------------------------------------------------------------
(* Engine.Open and Engine.recover. A log with nothing readable in it is    *)
(* left as it is; any other is replayed, flushed and truncated.            *)

(* Mutant: an Open that refuses a log it can read nothing from. *)
OpenRefusing ==
    /\ pc = "down"
    /\ wal = <<>> \/ Readable(wal) # {}
    /\ filesOpen' = TRUE
    /\ closed' = FALSE
    /\ mem' = [k \in Keys |-> Replay(wal, k)]
    /\ IF wal = <<>>
       THEN Return
       ELSE /\ pc' = "flush"
            /\ op' = [kind |-> "open"]
            /\ todo' = InMem(mem')
    /\ UNCHANGED <<disk, history>>

Open ==
    /\ pc = "down"
    /\ filesOpen' = TRUE
    /\ closed' = FALSE
    /\ mem' = [k \in Keys |-> Replay(wal, k)]
    /\ IF Readable(wal) = {}
       THEN Return
       ELSE /\ pc' = "flush"
            /\ op' = [kind |-> "open"]
            /\ todo' = InMem(mem')
    /\ UNCHANGED <<disk, history>>

(* The process dies and the machine stays up: nothing written is lost.     *)
Die ==
    /\ pc' = "down"
    /\ op' = NoOp
    /\ mem' = EmptyMem
    /\ todo' = {}
    /\ closed' = FALSE
    /\ filesOpen' = FALSE

ProcessCrash ==
    /\ pc # "down"
    /\ Fault
    /\ Die
    /\ UNCHANGED <<disk, allowed, tainted>>

(* The machine dies: what was not fsynced may be lost, each part on its    *)
(* own.                                                                    *)
PowerFailure ==
    /\ Fault
    /\ Die
    /\ wal' \in logsOnDisk
    /\ logsOnDisk' = {wal'}
    /\ pages' \in [Keys -> Stored]
    /\ \A k \in Keys : pages'[k] \in pageOnDisk[k]
    /\ pageOnDisk' = [k \in Keys |-> {pages'[k]}]
    /\ UNCHANGED <<allowed, tainted>>

-----------------------------------------------------------------------------
Step ==
    \/ AppendRecord \/ AppendFails \/ SyncRecord \/ SyncFails
    \/ ApplyToMemTable \/ UnindexKey
    \/ FlushEntry \/ FlushEntryFails \/ SyncPages \/ SyncPagesFails
    \/ ClearMemTable \/ TruncateLog \/ TruncateFails
    \/ Shut \/ ShutFails

Next ==
    \/ \E k \in Keys, v \in Values : Put(k, v)
    \/ \E k \in Keys : Delete(k)
    \/ Flush
    \/ Close
    \/ Open
    \/ Step
    \/ ProcessCrash
    \/ PowerFailure

Spec == Init /\ [][Next]_vars

(* An operation that has the lock runs on until it returns, and a process  *)
(* that died is started again.                                             *)
FairSpec == Spec /\ WF_vars(Step) /\ WF_vars(Open)

-----------------------------------------------------------------------------
TypeOK ==
    /\ pc \in {"down", "idle", "append", "sync", "apply", "unindex",
               "flush", "clear", "truncate", "shut"}
    /\ op \in Operation
    /\ mem \in [Keys -> Stored \cup {Absent}]
    /\ todo \in SUBSET Keys
    /\ wal \in Seq(Record)
    /\ logsOnDisk \subseteq Seq(Record)
    /\ pages \in [Keys -> Stored]
    /\ pageOnDisk \in [Keys -> SUBSET Stored]
    /\ closed \in BOOLEAN
    /\ filesOpen \in BOOLEAN
    /\ faults \in Nat
    /\ allowed \in [Keys -> SUBSET Stored]
    /\ tainted \in BOOLEAN

(* What a restart from this log, over these pages, would answer for k is   *)
(* one of the values promised for k.                                       *)
Restores(log, k) ==
    /\ \A i \in DOMAIN log : IsLast(log, k, i) => log[i].val \in allowed[k]
    /\ About(log, k) = {} => pageOnDisk[k] \subseteq allowed[k]

(* Whatever a power failure leaves of the log and of the pages, replaying  *)
(* that log over those pages gives every key the value of its last         *)
(* completed write or of a later attempt: WAL.Write, flushMemTable and     *)
(* recover, in the order they write, fsync, clear and truncate. The only   *)
(* exception is a log in which a record was appended behind a torn one.    *)
Durable == ~tainted => \A log \in logsOnDisk, k \in Keys : Restores(log, k)

(* The same without the exception, as the header of engine.go and the      *)
(* comment of WAL.ReadAll have it.                                         *)
AcknowledgedWritesSurvive ==
    \A log \in logsOnDisk, k \in Keys : Restores(log, k)

(* A process that died comes back: Open replays the log and succeeds.      *)
Reopens == pc = "down" ~> pc = "idle"

(* The engine implements the store its callers are promised.               *)
Store == INSTANCE DurableStore WITH store <- [k \in Keys |-> Current(k)]
StoreSpec == Store!Spec

-----------------------------------------------------------------------------
(* The inductive invariant behind Durable.                                 *)

(* The process sees one of the contents a power failure may leave.         *)
DiskView ==
    /\ wal \in logsOnDisk
    /\ \A k \in Keys : pages[k] \in pageOnDisk[k]

(* Only a Put or a Delete passes through the log.                          *)
OpFits ==
    pc \in {"append", "sync", "apply", "unindex"} =>
        /\ op.kind \in {"put", "delete"}
        /\ op.kind = "delete" => op.val = NoValue

HasLast(log) ==
    \A k \in Keys : About(log, k) # {} => \E i \in DOMAIN log : IsLast(log, k, i)

(* A flush writes only what the memtable holds.                            *)
TodoInMem ==
    /\ pc # "flush" => todo = {}
    /\ \A k \in todo : mem[k] # Absent

WellFormed ==
    /\ TypeOK
    /\ DiskView
    /\ OpFits
    /\ TodoInMem
    /\ \A log \in logsOnDisk : HasLast(log)

(* Reads of a running engine see promised values only.                     *)
ReadsAllowed == pc # "down" => \A k \in Keys : Lookup(k) \in allowed[k]

(* What the operation in progress has made true so far.                    *)
Progress ==
    /\ pc \in {"sync", "apply"} =>
         /\ Intact(wal)
         /\ wal # <<>>
         /\ wal[Len(wal)] = Entry(op.key, op.val)
    /\ pc = "apply" => logsOnDisk = {wal}
    /\ pc = "unindex" => mem[op.key] = NoValue
    /\ pc = "flush" =>
         \A k \in Keys : mem[k] # Absent /\ k \notin todo => pages[k] = mem[k]
    /\ pc \in {"clear", "truncate"} =>
         \A k \in Keys : pageOnDisk[k] = {pages[k]}
    /\ pc = "clear" => \A k \in Keys : mem[k] # Absent => pages[k] = mem[k]
    /\ pc = "truncate" => mem = EmptyMem

(* Every conjunct is needed: a step is only as durable as what is on disk, *)
(* in the memtable and in the pages when it is taken.                      *)
IInv ==
    /\ WellFormed
    /\ ~tainted => Durable /\ ReadsAllowed /\ Progress
=============================================================================
