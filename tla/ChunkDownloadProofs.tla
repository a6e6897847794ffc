------------------------ MODULE ChunkDownloadProofs ------------------------
(***************************************************************************)
(* What holds of koded download for any number of chunks, goroutines,      *)
(* attempts and sources, however often it dies and is started again.       *)
(***************************************************************************)
EXTENDS ChunkDownload, TLAPS

(* A goroutine is there only while the main one has not passed its wait,   *)
(* and not before its turn.                                                *)
InTurn ==
    /\ phase # "spawning" => \A c \in Chunks : worker[c] \notin Working
    /\ phase = "spawning" => \A c \in Chunks : c >= next => worker[c] = "none"

(* What is completed has its bytes, and its goroutine does not fetch. The  *)
(* state file of a running process never names more.                       *)
CompletedIsWhole ==
    /\ \A c \in Chunks : worker[c] \in {"got", "saving", "done"} => parts[c] # Cut
    /\ \A c \in completed : parts[c] # Cut /\ worker[c] \in {"none", "saving", "done"}
    /\ phase # "idle" => Loaded \subseteq completed

(* Every chunk that is behind the main goroutine is completed, or its own  *)
(* is at it or has given up.                                               *)
Accounted ==
    /\ \A c \in Chunks : worker[c] \in {"saving", "done"} => c \in completed
    /\ phase = "spawning" =>
        \A c \in Chunks : c < next /\ worker[c] = "none" => c \in completed
    /\ phase \in {"merging", "cleaning"} => Chunks \subseteq completed

(* The output is what was merged so far; the cleanup begins with the right *)
(* file and has removed what is behind it.                                 *)
Merged ==
    /\ phase = "merging" =>
        output \in Seq(Contents) /\ output = [i \in 1..next |-> parts[i - 1]]
    /\ phase = "cleaning" =>
        /\ IsFile(source)
        /\ \A c \in Chunks : c < next => parts[c] = None
    /\ result # "none" => phase = "idle"

IInv ==
    /\ TypeOK /\ InTurn /\ CompletedIsWhole /\ Accounted /\ Merged
    /\ SavedIsWhole /\ OkIsComplete /\ FailsForAReason

-----------------------------------------------------------------------------
LEMMA InitInv == Init => IInv
  BY Limits, Distinct DEF Init, IInv, TypeOK, InTurn, CompletedIsWhole, Accounted,
     Merged, SavedIsWhole, OkIsComplete, FailsForAReason, Loaded, Chunks, Contents,
     Working, Ended, Torn

LEMMA Inductive == IInv /\ [Next]_vars => IInv'
  <1> SUFFICES ASSUME IInv, [Next]_vars  PROVE IInv'
    OBVIOUS
  <1> USE Limits, Distinct
      DEF IInv, TypeOK, InTurn, CompletedIsWhole, Accounted, Merged, SavedIsWhole,
          OkIsComplete, FailsForAReason, IsFile, Failed, Running, Loaded, Torn, Chunks,
          Contents, Working, Ended, End, Step, MainUnchanged, WorkersUnchanged, files
  <1>1. ASSUME NEW s \in Sources, Start(s)  PROVE IInv'
    BY <1>1 DEF Start
  <1>2. CASE Skip
    BY <1>2 DEF Skip
  <1>3. CASE Spawn
    BY <1>3 DEF Spawn, SpawnOneOf
  <1>4. CASE GiveUp
    <2>1. TypeOK' /\ InTurn' /\ CompletedIsWhole' /\ SavedIsWhole'
      BY <1>4 DEF GiveUp
    <2>2. Accounted' /\ Merged' /\ OkIsComplete' /\ FailsForAReason'
      BY <1>4 DEF GiveUp
    <2> QED  BY <2>1, <2>2
  <1>5. CASE StartMerge
    BY <1>5 DEF StartMerge, StartMergeInto
  <1>6. CASE MergePart
    <2>1. parts[next] \in Contents
      BY <1>6 DEF MergePart
    <2>2. output' \in Seq(Contents)
      BY <1>6, <2>1 DEF MergePart
    <2>3. output' = [i \in 1..next' |-> parts'[i - 1]]
      <3>1. Len(output) = next
        BY <1>6 DEF MergePart
      <3>2. output' = [i \in 1..(Len(output) + 1) |->
                          IF i = Len(output) + 1 THEN parts[next] ELSE output[i]]
        BY <1>6 DEF MergePart
      <3> QED  BY <1>6, <3>1, <3>2 DEF MergePart
    <2>4. TypeOK'
      <3>1. next' \in 0..Total
        BY <1>6 DEF MergePart
      <3> QED  BY <1>6, <2>2, <3>1 DEF MergePart
    <2>5. InTurn' /\ CompletedIsWhole' /\ Accounted' /\ SavedIsWhole'
      BY <1>6 DEF MergePart
    <2>6. Merged' /\ OkIsComplete' /\ FailsForAReason'
      BY <1>6, <2>2, <2>3 DEF MergePart
    <2> QED  BY <2>4, <2>5, <2>6
  <1>7. CASE PartIsMissing
    BY <1>7 DEF PartIsMissing
  <1>8. CASE Verify
    BY <1>8 DEF Verify
  <1>9. CASE RemovePart
    BY <1>9 DEF RemovePart
  <1>10. CASE Finish
    BY <1>10 DEF Finish, Success
  <1>11. CASE Crash
    BY <1>11 DEF Crash
  <1>12. ASSUME NEW c \in Chunks, OpenPart(c)  PROVE IInv'
    BY <1>12 DEF OpenPart
  <1>13. ASSUME NEW c \in Chunks, CopyBody(c)  PROVE IInv'
    BY <1>13 DEF CopyBody
  <1>14. ASSUME NEW c \in Chunks, FetchFails(c)  PROVE IInv'
    <2>1. TypeOK'
      <3>1. attempt' \in [Chunks -> 0..RetryLimit]
        <4>1. attempt[c] \in 0..RetryLimit
          OBVIOUS
        <4>2. CASE attempt[c] < RetryLimit
          <5>1. attempt[c] + 1 \in 0..RetryLimit
            BY <4>1, <4>2
          <5> QED  BY <1>14, <4>2, <5>1 DEF FetchFails, FailOrRetry
        <4>3. CASE ~(attempt[c] < RetryLimit)
          BY <1>14, <4>3 DEF FetchFails, FailOrRetry
        <4> QED  BY <4>2, <4>3
      <3>2. worker' \in [Chunks -> Working \cup Ended \cup {"none"}]
        BY <1>14 DEF FetchFails, FailOrRetry
      <3> QED  BY <1>14, <3>1, <3>2 DEF FetchFails, FailOrRetry
    <2>2. InTurn' /\ CompletedIsWhole' /\ Accounted'
      BY <1>14 DEF FetchFails, FailOrRetry
    <2>3. Merged' /\ SavedIsWhole' /\ OkIsComplete' /\ FailsForAReason'
      BY <1>14 DEF FetchFails, FailOrRetry
    <2> QED  BY <2>1, <2>2, <2>3
  <1>15. ASSUME NEW c \in Chunks, Mark(c)  PROVE IInv'
    BY <1>15 DEF Mark
  <1>16. ASSUME NEW c \in Chunks, SaveState(c)  PROVE IInv'
    <2>1. TypeOK' /\ InTurn' /\ CompletedIsWhole' /\ Accounted'
      BY <1>16 DEF SaveState
    <2>2. Merged' /\ SavedIsWhole' /\ OkIsComplete' /\ FailsForAReason'
      BY <1>16 DEF SaveState
    <2> QED  BY <2>1, <2>2
  <1>17. CASE UNCHANGED vars
    BY <1>17 DEF vars
  <1> QED  BY <1>1, <1>2, <1>3, <1>4, <1>5, <1>6, <1>7, <1>8,
          <1>9, <1>10, <1>11, <1>12, <1>13, <1>14, <1>15, <1>16, <1>17
       DEF Next, Main, Worker

LEMMA Invariant == Spec => []IInv
  BY InitInv, Inductive, PTL DEF Spec

-----------------------------------------------------------------------------
(* Every variable keeps its type; an output that exists is a sequence of   *)
(* parts that exist.                                                       *)
THEOREM TypeCorrect == Spec => []TypeOK
  BY Invariant, PTL DEF IInv

(* However the goroutines interleave and wherever a run died, a part that  *)
(* a later run would skip is not half written.                             *)
THEOREM SavedWhole == Spec => []SavedIsWhole
  BY Invariant, PTL DEF IInv

(* A run that reports success leaves the file of its own source, and       *)
(* neither parts nor a state file.                                         *)
THEOREM OkComplete == Spec => []OkIsComplete
  BY Invariant, PTL DEF IInv

(* A run fails only if a fetch did or what it resumed from was no good.    *)
THEOREM FailsWithReason == Spec => []FailsForAReason
  BY Invariant, PTL DEF IInv

(* What the state file names is not fetched again.                         *)
THEOREM SavedKept == Spec => SavedIsKept
  <1> DEFINE Kept == \A c \in Loaded : parts'[c] = parts[c] \/ phase = "cleaning"
  <1>1. IInv /\ [Next]_vars => [Kept]_vars
    <2> SUFFICES ASSUME IInv, Next  PROVE Kept
      BY DEF vars
    <2>1. CASE \E c \in Chunks : OpenPart(c) \/ CopyBody(c)
      <3> PICK c \in Chunks : OpenPart(c) \/ CopyBody(c)
        BY <2>1
      <3>1. worker[c] \in {"fetching", "copying"}
        BY DEF OpenPart, CopyBody, Step
      <3>2. phase = "spawning"
        BY <3>1 DEF IInv, InTurn, Working
      <3>3. c \notin Loaded
        BY <3>1, <3>2 DEF IInv, CompletedIsWhole
      <3>4. \A d \in Chunks \ {c} : parts'[d] = parts[d]
        BY DEF OpenPart, CopyBody, IInv, TypeOK
      <3>5. Loaded \subseteq Chunks
        BY DEF IInv, TypeOK, Loaded
      <3> QED  BY <3>3, <3>4, <3>5
    <2>2. CASE RemovePart
      BY <2>2 DEF RemovePart
    <2>3. CASE ~RemovePart /\ ~\E c \in Chunks : OpenPart(c) \/ CopyBody(c)
      <3>1. parts' = parts
        BY <2>3 DEF Next, Main, Worker, Start, Skip, Spawn, SpawnOneOf, GiveUp,
           StartMerge, StartMergeInto, MergePart, PartIsMissing, Verify, Finish, Success,
           Crash, FetchFails, FailOrRetry, Mark, SaveState, files
      <3> QED  BY <3>1
    <2> QED  BY <2>1, <2>2, <2>3
  <1>2. [][Kept]_vars <=> SavedIsKept
    BY DEF SavedIsKept
  <1> QED  BY Invariant, <1>1, <1>2, PTL DEF Spec
=============================================================================
