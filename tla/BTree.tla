------------------------------- MODULE BTree -------------------------------
(***************************************************************************)
(* The B+tree of kodeddb-core (engine/btree.go) on the pages of its pager  *)
(* (storage/pager.go).                                                     *)
(*                                                                         *)
(* Put writes one page, or, when a node overflows, two pages per level and *)
(* the header. The pages reach the file one at a time; between any two a   *)
(* write may fail, a node may turn out too large for its page, or the      *)
(* process may die. Nothing is rolled back. work holds the page writes the *)
(* operation has decided on, in order, and up the separator it has yet to  *)
(* insert into the parent.                                                 *)
(*                                                                         *)
(* A value stands for its own length, in the unit in which LeafRoom counts *)
(* the bytes of a page; a key counts for one.                              *)
(***************************************************************************)
EXTENDS Integers, SequencesExt

CONSTANTS
    Keys,          (* keys, ordered as bytes.Compare orders them            *)
    Values,        (* values, each its own length                           *)
    Inputs,        (* bound: the values to try with each key                *)
    NoValue,       (* what a key not in the tree has                        *)
    Order,         (* types.BTreeOrder: the most keys of a node             *)
    LeafRoom,      (* how much of a leaf fits a page                        *)
    InternalRoom,  (* how many keys of an internal node fit a page          *)
    MaxPages,      (* bound: pages of the data file                         *)
    MaxFaults,     (* bound: crashes and failed writes                      *)
    IOErrors       (* may the file refuse a write?                          *)

ASSUME KeysAreOrdered == Keys \subseteq Int /\ Keys # {}
ASSUME ValuesAreLengths == Values \subseteq Nat /\ NoValue \notin Values
ASSUME InputsAreValues == Inputs \in [Keys -> SUBSET Values]
ASSUME Bounds == {Order, MaxPages, MaxFaults} \subseteq Nat /\ Order > 1 /\ MaxPages > 1

Pages == 1..MaxPages
None == 0  (* no page: page 0 is the header *)

Leaf(entries, next, prev) ==
    [kind |-> "leaf", entries |-> entries, next |-> next, prev |-> prev]
Internal(keys, children) ==
    [kind |-> "internal", keys |-> keys, children |-> children]

BlankLeaf == Leaf(<<>>, None, None)
BlankInternal == Internal(<<>>, <<>>)
NoUp == [left |-> None]

IsLeaf(n) == n.kind = "leaf"

VARIABLES
    pc,         (* "down", "idle" or "busy"                                 *)
    op,         (* the key and value of the operation in progress           *)
    work,       (* page writes and header writes still to do                *)
    up,         (* the split whose separator the parent has yet to learn    *)
    began,      (* the operation in progress changed a page                 *)
    cache,      (* the pages as the process sees them                       *)
    file,       (* the pages in the file                                    *)
    root,       (* BTree.rootID, Pager.rootPage                             *)
    count,      (* Pager.pageCount                                          *)
    header,     (* page 0 of the file                                       *)
    faults,     (* crashes and failed writes so far                         *)
    allowed,    (* history: the values each key may have                    *)
    cutShort    (* history: a split was left half done                      *)

process == <<pc, op, work, up, began, cache, root, count>>
vars == <<process, file, header, faults, allowed, cutShort>>

-----------------------------------------------------------------------------
(* Reading the tree in pgs, the pages of the process or of the file, from  *)
(* page r down.                                                            *)

(* Mutant: a key equal to a separator goes left. *)
ChooseChildLeft(n, k) ==
    LET above == {i \in DOMAIN n.keys : k <= n.keys[i]}
    IN  IF above = {} THEN Last(n.children) ELSE n.children[Min(above)]

ChooseChild(n, k) ==
    LET above == {i \in DOMAIN n.keys : k < n.keys[i]}
    IN  IF above = {} THEN Last(n.children) ELSE n.children[Min(above)]

Stops(n) == IsLeaf(n) \/ n.children = <<>>

(* findLeafWithPath: the pages from r to the leaf for k. A blank internal  *)
(* node has no child to choose and stops the walk short.                   *)
Trail(pgs, r, k) ==
    LET walk[d \in Nat] ==
            IF d = 0 THEN <<r>>
            ELSE LET t == walk[d - 1]
                     n == pgs[Last(t)]
                 IN  IF Stops(n) THEN t ELSE Append(t, ChooseChild(n, k))
    IN  walk[MaxPages]

HasKey(leaf, k) == \E i \in DOMAIN leaf.entries : leaf.entries[i].key = k
At(leaf, k) == CHOOSE i \in DOMAIN leaf.entries : leaf.entries[i].key = k

Get(pgs, r, k) ==
    LET leaf == pgs[Last(Trail(pgs, r, k))]
    IN  IF IsLeaf(leaf) /\ HasKey(leaf, k)
        THEN leaf.entries[At(leaf, k)].val ELSE NoValue

Leftmost(pgs, r) ==
    LET walk[d \in Nat] ==
            IF d = 0 THEN r
            ELSE LET p == walk[d - 1]
                 IN  IF Stops(pgs[p]) THEN p ELSE pgs[p].children[1]
    IN  walk[MaxPages]

(* The leaves FullScan visits, following nextLeaf.                         *)
Chain(pgs, r) ==
    LET walk[d \in Nat] ==
            IF d = 0 THEN <<Leftmost(pgs, r)>>
            ELSE LET c == walk[d - 1]
                     next == pgs[Last(c)].next
                 IN  IF next = None THEN c ELSE Append(c, next)
    IN  walk[MaxPages]

FullScan(pgs, r) ==
    FlattenSeq([i \in DOMAIN Chain(pgs, r) |-> pgs[Chain(pgs, r)[i]].entries])

-----------------------------------------------------------------------------
Entry(k, v) == [key |-> k, val |-> v]
WriteOf(p, n) == [page |-> p, node |-> n]
RootIs(p) == [page |-> None, root |-> p]

(* writeLeaf and writeInternal: does the node fit its page?                *)
Fits(n) ==
    IF IsLeaf(n)
    THEN FoldSeq(LAMBDA e, sum : sum + 1 + e.val, 0, n.entries) <= LeafRoom
    ELSE Len(n.keys) <= InternalRoom

NewDatabase ==
    /\ file = [p \in Pages |-> BlankLeaf]
    /\ header = [root |-> None, count |-> 1]

Rest ==
    /\ work' = <<>>
    /\ up' = NoUp
    /\ began' = FALSE
    /\ op' = Entry(None, NoValue)

Init ==
    /\ NewDatabase
    /\ pc = "down"
    /\ work = <<>> /\ up = NoUp /\ began = FALSE
    /\ op = Entry(None, NoValue)
    /\ cache = file
    /\ root = None
    /\ count = 1
    /\ faults = 0
    /\ allowed = [k \in Keys |-> {NoValue}]
    /\ cutShort = FALSE

Fault == faults < MaxFaults /\ faults' = faults + 1

(* Pager.AllocatePage: a blank page at the end of the file, then the       *)
(* header.                                                                 *)
Allocate(n) ==
    /\ cache' = [cache EXCEPT ![count] = n]
    /\ file' = [file EXCEPT ![count] = n]
    /\ count' = count + 1
    /\ header' = [root |-> root, count |-> count + 1]

-----------------------------------------------------------------------------
(* NewPager and NewBTree. A new file gets an empty leaf as its root.       *)
Open ==
    /\ pc = "down"
    /\ pc' = "idle"
    /\ IF header.root = None
       THEN /\ file' = [file EXCEPT ![header.count] = BlankLeaf]
            /\ header' = [root |-> header.count, count |-> header.count + 1]
       ELSE UNCHANGED <<file, header>>
    /\ cache' = file'
    /\ root' = header'.root
    /\ count' = header'.count
    /\ UNCHANGED <<op, work, up, began, faults, allowed, cutShort>>

(* The process dies, in the middle of an operation or between two. *)
Crash ==
    /\ pc # "down"
    /\ Fault
    /\ pc' = "down"
    /\ Rest
    /\ cutShort' = (cutShort \/ began)
    /\ cache' = file
    /\ root' = None
    /\ count' = 1
    /\ UNCHANGED <<file, header, allowed>>

-----------------------------------------------------------------------------
(* BTree.Put and BTree.Delete: find the leaf, decide what to write.        *)

Start(k, v) ==
    /\ pc = "idle"
    /\ pc' = "busy"
    /\ op' = Entry(k, v)
    /\ allowed' = [allowed EXCEPT ![k] = @ \cup {v}]
    /\ began' = FALSE
    /\ UNCHANGED <<root, faults, cutShort>>

LeafPage(k) == Last(Trail(cache, root, k))
LeafFor(k) == cache[LeafPage(k)]

WriteEntries(k, entries) ==
    /\ work' = <<WriteOf(LeafPage(k), [LeafFor(k) EXCEPT !.entries = entries])>>
    /\ up' = NoUp
    /\ UNCHANGED <<cache, file, count, header>>

Update(k, v) ==
    /\ Start(k, v)
    /\ IsLeaf(LeafFor(k))
    /\ HasKey(LeafFor(k), k)
    /\ WriteEntries(k, [LeafFor(k).entries EXCEPT ![At(LeafFor(k), k)].val = v])

(* Mutant: Delete that clears the key and keeps the entry. *)
DeleteMarking(k) ==
    /\ Start(k, NoValue)
    /\ IsLeaf(LeafFor(k))
    /\ HasKey(LeafFor(k), k)
    /\ WriteEntries(k, [LeafFor(k).entries EXCEPT ![At(LeafFor(k), k)].key = None])

Delete(k) ==
    /\ Start(k, NoValue)
    /\ IsLeaf(LeafFor(k))
    /\ HasKey(LeafFor(k), k)
    /\ WriteEntries(k, RemoveAt(LeafFor(k).entries, At(LeafFor(k), k)))

(* The first of these positions in s, or the one behind it. *)
FirstOf(positions, s) == IF positions = {} THEN Len(s) + 1 ELSE Min(positions)

(* leafInsertPos: before the first larger key. *)
Inserted(leaf, k, v) ==
    LET larger == {i \in DOMAIN leaf.entries : k < leaf.entries[i].key}
    IN  InsertAt(leaf.entries, FirstOf(larger, leaf.entries), Entry(k, v))

Insert(k, v) ==
    /\ Start(k, v)
    /\ IsLeaf(LeafFor(k))
    /\ ~HasKey(LeafFor(k), k)
    /\ Len(LeafFor(k).entries) < Order
    /\ WriteEntries(k, Inserted(LeafFor(k), k, v))

(* Mutant: splitLeaf that forgets leaf.nextLeaf = right.pageID. *)
LeafHalvesUnlinked(leaf, entries, p, right) ==
    LET mid == Len(entries) \div 2
    IN  <<WriteOf(p, Leaf(SubSeq(entries, 1, mid), leaf.next, leaf.prev)),
          WriteOf(right, Leaf(SubSeq(entries, mid + 1, Len(entries)), leaf.next, p))>>

(* splitLeaf: the upper half moves to a new page to the right. *)
LeafHalves(leaf, entries, p, right) ==
    LET mid == Len(entries) \div 2
    IN  <<WriteOf(p, Leaf(SubSeq(entries, 1, mid), right, leaf.prev)),
          WriteOf(right, Leaf(SubSeq(entries, mid + 1, Len(entries)), leaf.next, p))>>

InsertAndSplit(k, v) ==
    /\ Start(k, v)
    /\ IsLeaf(LeafFor(k))
    /\ ~HasKey(LeafFor(k), k)
    /\ Len(LeafFor(k).entries) = Order
    /\ count + Len(Trail(cache, root, k)) <= MaxPages
    /\ ~cutShort  (* bound: a tree that lost keys is not split again *)
    /\ LET p == LeafPage(k)
           entries == Inserted(LeafFor(k), k, v)
       IN  /\ work' = LeafHalves(LeafFor(k), entries, p, count)
           /\ up' = [left |-> p, sep |-> work'[2].node.entries[1].key,
                     right |-> count, path |-> Front(Trail(cache, root, k))]
    /\ Allocate(BlankLeaf)

-----------------------------------------------------------------------------
(* The writes of the operation in progress.                                *)

Return ==
    /\ pc' = "idle"
    /\ Rest

(* The last write is done and the operation returns without an error.      *)
Acknowledge ==
    /\ Return
    /\ allowed' = [allowed EXCEPT ![op.key] = {op.val}]

Proceed ==
    \/ /\ Len(work) = 1 /\ up = NoUp
       /\ Acknowledge
    \/ /\ Len(work) > 1 \/ up # NoUp
       /\ work' = Tail(work)
       /\ began' = TRUE
       /\ UNCHANGED <<pc, op, up, allowed>>

(* flushLeaf, flushInternal: the cached page, then the file. *)
WritePage ==
    /\ pc = "busy" /\ work # <<>>
    /\ Head(work).page # None
    /\ Fits(Head(work).node)
    /\ cache' = [cache EXCEPT ![Head(work).page] = Head(work).node]
    /\ file' = [file EXCEPT ![Head(work).page] = Head(work).node]
    /\ Proceed
    /\ UNCHANGED <<root, count, header, faults, cutShort>>

SetRootPage ==
    /\ pc = "busy" /\ work # <<>>
    /\ Head(work).page = None
    /\ root' = Head(work).root
    /\ header' = [root |-> root', count |-> count]
    /\ Proceed
    /\ UNCHANGED <<cache, file, count, faults, cutShort>>

(* ErrPageFull, before the page is touched: the operation gives up. *)
PageFull ==
    /\ pc = "busy" /\ work # <<>>
    /\ Head(work).page # None
    /\ ~Fits(Head(work).node)
    /\ Return
    /\ cutShort' = (cutShort \/ began)
    /\ UNCHANGED <<cache, file, root, count, header, faults, allowed>>

(* The file refuses the write; what the process holds was changed already. *)
WriteFails ==
    /\ pc = "busy" /\ work # <<>>
    /\ IOErrors /\ Fault
    /\ \/ /\ Head(work).page # None
          /\ cache' = [cache EXCEPT ![Head(work).page] = Head(work).node]
          /\ UNCHANGED root
       \/ /\ Head(work).page = None
          /\ root' = Head(work).root
          /\ UNCHANGED cache
    /\ Return
    /\ cutShort' = (cutShort \/ began \/ up # NoUp)
    /\ UNCHANGED <<file, count, header, allowed>>

(* A page whose write failed is not marked dirty: PageCache.put may evict  *)
(* it, and the next ReadPage takes the old content from the file.          *)
Evict(p) ==
    /\ pc = "idle"
    /\ cache[p] # file[p]
    /\ cache' = [cache EXCEPT ![p] = file[p]]
    /\ UNCHANGED <<pc, op, work, up, began, root, count, file, header, faults,
                   allowed, cutShort>>

-----------------------------------------------------------------------------
(* insertIntoParent, once both halves are written.                         *)

Climbing == pc = "busy" /\ work = <<>>

NewRoot ==
    /\ Climbing
    /\ up.path = <<>>
    /\ Allocate(BlankInternal)
    /\ work' = <<WriteOf(count, Internal(<<up.sep>>, <<up.left, up.right>>)),
                 RootIs(count)>>
    /\ up' = NoUp
    /\ UNCHANGED <<pc, op, began, root, faults, allowed, cutShort>>

(* The parent with the separator and, right of it, the new child. *)
Adopted ==
    LET n == cache[Last(up.path)]
        pos == FirstOf({i \in DOMAIN n.keys : up.sep <= n.keys[i]}, n.keys)
    IN  Internal(InsertAt(n.keys, pos, up.sep), InsertAt(n.children, pos + 1, up.right))

InsertIntoParent ==
    /\ Climbing
    /\ up.path # <<>>
    /\ Len(Adopted.keys) <= Order
    /\ work' = <<WriteOf(Last(up.path), Adopted)>>
    /\ up' = NoUp
    /\ UNCHANGED <<pc, op, began, cache, root, count, file, header, faults,
                   allowed, cutShort>>

(* Mutant: splitInternal that drops the first child of the right half. *)
InternalHalvesLossy(n, p, right) ==
    LET mid == Len(n.keys) \div 2
    IN  <<WriteOf(p, Internal(SubSeq(n.keys, 1, mid), SubSeq(n.children, 1, mid))),
          WriteOf(right, Internal(SubSeq(n.keys, mid + 2, Len(n.keys)),
                                  SubSeq(n.children, mid + 2, Len(n.children))))>>

(* splitInternal: the middle key moves up, the rest to either side. *)
InternalHalves(n, p, right) ==
    LET mid == Len(n.keys) \div 2
    IN  <<WriteOf(p, Internal(SubSeq(n.keys, 1, mid), SubSeq(n.children, 1, mid + 1))),
          WriteOf(right, Internal(SubSeq(n.keys, mid + 2, Len(n.keys)),
                                  SubSeq(n.children, mid + 2, Len(n.children))))>>

SplitParent ==
    /\ Climbing
    /\ up.path # <<>>
    /\ Len(Adopted.keys) > Order
    /\ work' = InternalHalves(Adopted, Last(up.path), count)
    /\ up' = [left |-> Last(up.path),
              sep |-> Adopted.keys[Len(Adopted.keys) \div 2 + 1],
              right |-> count, path |-> Front(up.path)]
    /\ Allocate(BlankInternal)
    /\ UNCHANGED <<pc, op, began, root, faults, allowed, cutShort>>

-----------------------------------------------------------------------------
Next ==
    \/ Open
    \/ \E k \in Keys :
        \/ \E v \in Inputs[k] : Update(k, v) \/ Insert(k, v) \/ InsertAndSplit(k, v)
        \/ Delete(k)
    \/ WritePage \/ SetRootPage \/ PageFull \/ WriteFails
    \/ NewRoot \/ InsertIntoParent \/ SplitParent
    \/ \E p \in Pages : Evict(p)
    \/ Crash

Spec == Init /\ [][Next]_vars

-----------------------------------------------------------------------------
Child == 0..MaxPages

Leaves ==
    [kind : {"leaf"}, entries : Seq([key : Keys, val : Values]), next : Child, prev : Child]
Internals == [kind : {"internal"}, keys : Seq(Keys), children : Seq(Pages)]

TypeOK ==
    /\ pc \in {"down", "idle", "busy"}
    /\ op.key \in Keys \cup {None} /\ op.val \in Values \cup {NoValue}
    /\ work \in Seq([page : Pages, node : Leaves \cup Internals] \cup [page : {None}, root : Pages])
    /\ up \in {NoUp} \cup [left : Pages, sep : Keys, right : Pages, path : Seq(Pages)]
    /\ {cache, file} \subseteq [Pages -> Leaves \cup Internals]
    /\ root \in Child
    /\ count \in 1..(MaxPages + 1)
    /\ header \in [root : Child, count : 1..(MaxPages + 1)]
    /\ faults \in 0..MaxFaults
    /\ allowed \in [Keys -> SUBSET (Values \cup {NoValue})]
    /\ {began, cutShort} \subseteq BOOLEAN

(* Nothing is in progress: what a reader, or a restart, would see. *)
ViewsHold(P(_, _)) ==
    /\ pc = "idle" => P(cache, root)
    /\ pc # "busy" /\ header.root # None => P(file, header.root)

GetsAllowed(pgs, r) == \A k \in Keys : Get(pgs, r, k) \in allowed[k]

(* Between operations every key reads as its last completed Put or Delete, *)
(* or as one that failed since, in the process (BTree.Get) and after a     *)
(* restart from the file.                                                  *)
KeepsEveryKey == ~cutShort => ViewsHold(GetsAllowed)

(* The same without the exemption for a split that was left half done.     *)
NeverLosesKeys == ViewsHold(GetsAllowed)

ScansWhatItGets(pgs, r) ==
    LET found == FullScan(pgs, r)
    IN  /\ \A i, j \in DOMAIN found : i < j => found[i].key < found[j].key
        /\ ToSet(found) = {Entry(k, Get(pgs, r, k)) :
                              k \in {x \in Keys : Get(pgs, r, x) # NoValue}}

(* BTree.FullScan and RangeScan follow the leaf chain, BTree.Get the       *)
(* separators: they agree, and the scan is in key order without repeats.   *)
ScanAgreesWithGet == ~cutShort => ViewsHold(ScansWhatItGets)

(* The pages below and including p, level by level.                        *)
Level(pgs, r, d) ==
    LET level[i \in Nat] ==
            IF i = 0 THEN <<r>>
            ELSE FlattenSeq([j \in DOMAIN level[i - 1] |->
                    LET n == pgs[level[i - 1][j]]
                    IN  IF IsLeaf(n) THEN <<>> ELSE n.children])
    IN  level[d]

Reached(pgs, r) ==
    FlattenSeq([d \in 1..MaxPages |-> Level(pgs, r, d - 1)])

Balanced(pgs, r) ==
    LET reached == Reached(pgs, r)
        height == Len(Trail(pgs, r, CHOOSE k \in Keys : TRUE))
    IN  /\ IsInjective(reached)
        /\ \A k \in Keys : Len(Trail(pgs, r, k)) = height
        /\ \A i \in DOMAIN reached :
            LET n == pgs[reached[i]]
            IN  IF IsLeaf(n) THEN Len(n.entries) <= Order
                ELSE /\ Len(n.keys) \in 1..Order
                     /\ Len(n.children) = Len(n.keys) + 1

(* splitLeaf, splitInternal and insertIntoParent keep a tree: no page is   *)
(* shared or reached twice, every leaf is equally deep, no node exceeds    *)
(* the order, every separator has a child on both sides.                   *)
StaysBalanced == ~cutShort => ViewsHold(Balanced)
=============================================================================
