--------------------------- MODULE ChunkDownload ---------------------------
(***************************************************************************)
(* koded download (koded-cli/cmd/download.go): a file fetched in chunks by *)
(* parallel goroutines, each chunk into a part file of its own, with a     *)
(* state file that lets a later run go on where an earlier one stopped.    *)
(*                                                                         *)
(* One process runs at a time; it may die at any step (kill, ^C, or the    *)
(* runtime's abort on the unlocked map read of line 194). The files        *)
(* outlive it. The name of the output, and so of its parts and its state,  *)
(* holds the package and version but not the OS: runs for different        *)
(* sources share them. The sources here have the same number of chunks.    *)
(*                                                                         *)
(* What is in a part: bytes of a source, bytes that are Wrong (a 200 with  *)
(* the whole file instead of a 206 with the range, a file that changed on  *)
(* the server), or Cut, the beginning of either. The progress bar is left  *)
(* out, and power failures: no file is ever fsynced.                       *)
(***************************************************************************)
EXTENDS Integers, FiniteSets, Sequences

CONSTANTS
    Sources,       (* the sources of a manifest, by OS and architecture     *)
    Total,         (* totalChunks                                           *)
    Parallel,      (* capacity of semaphore                                 *)
    RetryLimit,    (* retryLimit                                            *)
    WrongAnswers,  (* may the server answer with other bytes?               *)
    Cut, Wrong,    (* what is in a part, if not bytes of a source           *)
    None           (* there is no such file                                 *)

ASSUME Limits == /\ Total \in Nat /\ Parallel \in Nat \ {0}
                 /\ RetryLimit \in Nat \ {0} /\ WrongAnswers \in BOOLEAN
ASSUME Distinct == /\ Cut # Wrong /\ Cut # None /\ Wrong # None
                   /\ {Cut, Wrong, None} \cap Sources = {}

Chunks == 0..(Total - 1)
Contents == Sources \cup {Cut, Wrong}
Torn == {-1}    (* a state file that does not parse *)

VARIABLES
    parts,      (* the part files                                           *)
    saved,      (* the state file: CompletedChunks, Torn or None            *)
    output,     (* the output file, part by part, or None                   *)
    source,     (* the source of this run, or of the last                   *)
    phase,      (* where downloadWithResume is; "idle": no process          *)
    next,       (* its loop variable i                                      *)
    completed,  (* state.CompletedChunks                                    *)
    worker,     (* the goroutine of each chunk                              *)
    attempt,    (* and its attempt                                          *)
    result      (* how the last run ended: "ok", "failed", or "none"        *)

files == <<parts, saved, output>>
vars == <<parts, saved, output, source, phase, next, completed, worker, attempt, result>>

Working == {"fetching", "copying", "got", "saving"}
Ended == {"done", "failed"}

Init ==
    /\ parts = [c \in Chunks |-> None] /\ saved = None /\ output = None
    /\ source \in Sources
    /\ phase = "idle" /\ next = 0 /\ completed = {}
    /\ worker = [c \in Chunks |-> "none"] /\ attempt = [c \in Chunks |-> 0]
    /\ result = "none"

(* json.Unmarshal of a torn file fails and leaves the empty state. *)
Loaded == IF saved \in {None, Torn} THEN {} ELSE saved

Start(s) ==
    /\ phase = "idle"
    /\ phase' = "spawning" /\ source' = s /\ next' = 0
    /\ completed' = Loaded
    /\ worker' = [c \in Chunks |-> "none"] /\ attempt' = [c \in Chunks |-> 0]
    /\ result' = "none"
    /\ UNCHANGED files

-----------------------------------------------------------------------------
(* The main goroutine starts one goroutine for each chunk that is missing, *)
(* no more than the semaphore admits.                                      *)

Skip ==
    /\ phase = "spawning" /\ next \in completed
    /\ next' = next + 1
    /\ UNCHANGED <<files, source, phase, completed, worker, attempt, result>>

(* Mutant: a goroutine that gives up keeps its place. *)
RunningOrFailed == {c \in Chunks : worker[c] \in Working \cup {"failed"}}

Running == {c \in Chunks : worker[c] \in Working}

SpawnOneOf(missing) ==
    /\ phase = "spawning" /\ next \in missing
    /\ Cardinality(Running) < Parallel
    /\ worker' = [worker EXCEPT ![next] = "fetching"]
    /\ attempt' = [attempt EXCEPT ![next] = 1]
    /\ next' = next + 1
    /\ UNCHANGED <<files, source, phase, completed, result>>

SpawnAgain == SpawnOneOf(Chunks)    (* mutant: what is saved is fetched again *)
Spawn == SpawnOneOf(Chunks \ completed)

Step(c, from, to) == worker[c] = from /\ worker' = [worker EXCEPT ![c] = to]
MainUnchanged == UNCHANGED <<output, source, phase, next, result>>

(* The response is there: os.Create empties the part. *)
OpenPart(c) ==
    /\ Step(c, "fetching", "copying")
    /\ parts' = [parts EXCEPT ![c] = Cut]
    /\ UNCHANGED <<saved, completed, attempt>>
    /\ MainUnchanged

CopyBody(c) ==
    /\ Step(c, "copying", "got")
    /\ \E bytes \in {source} \cup (IF WrongAnswers THEN {Wrong} ELSE {}) :
           parts' = [parts EXCEPT ![c] = bytes]
    /\ attempt' = [attempt EXCEPT ![c] = 0]
    /\ UNCHANGED <<saved, completed>>
    /\ MainUnchanged

(* downloadChunk returns an error: no answer, another status, or a body    *)
(* that breaks off. After RetryLimit attempts the goroutine reports it.    *)
FailOrRetry(c, again) ==
    /\ worker[c] \in {"fetching", "copying"}
    /\ IF again
       THEN /\ worker' = [worker EXCEPT ![c] = "fetching"]
            /\ attempt' = [attempt EXCEPT ![c] = @ + 1]
       ELSE worker' = [worker EXCEPT ![c] = "failed"] /\ UNCHANGED attempt
    /\ UNCHANGED <<parts, saved, completed>>
    /\ MainUnchanged

(* Mutants: one attempt too many; the error of io.Copy is not looked at. *)
FetchFailsOnceMore(c) == FailOrRetry(c, attempt[c] <= RetryLimit)
FetchFailsUnseen(c) ==
    /\ Step(c, "copying", "got")
    /\ UNCHANGED <<parts, saved, completed, attempt>>
    /\ MainUnchanged

FetchFails(c) == FailOrRetry(c, attempt[c] < RetryLimit)

(* Under stateMutex the chunk is marked and os.WriteFile empties the state *)
(* file, ...                                                               *)
Mark(c) ==
    /\ \A d \in Chunks : worker[d] # "saving"
    /\ Step(c, "got", "saving")
    /\ completed' = completed \cup {c}
    /\ saved' = Torn
    /\ UNCHANGED <<parts, attempt>>
    /\ MainUnchanged

(* ... and writes it. An error of either is not looked at. *)
SaveState(c) ==
    /\ Step(c, "saving", "done")
    /\ saved' \in {completed, Torn}
    /\ UNCHANGED <<parts, completed, attempt>>
    /\ MainUnchanged

Worker(c) == OpenPart(c) \/ CopyBody(c) \/ FetchFails(c) \/ Mark(c) \/ SaveState(c)

-----------------------------------------------------------------------------
(* When all goroutines have ended. *)

Failed == {c \in Chunks : worker[c] = "failed"}
WorkersUnchanged == UNCHANGED <<source, completed, worker, attempt>>

End(how) == phase' = "idle" /\ result' = how

GiveUp ==
    /\ phase = "spawning" /\ next = Total /\ Running = {}
    /\ Failed # {}
    /\ End("failed")
    /\ UNCHANGED <<files, next>>
    /\ WorkersUnchanged

(* mergeChunks creates the output, ... *)
StartMergeInto(file) ==
    /\ phase = "spawning" /\ next = Total /\ Running = {}
    /\ Failed = {}
    /\ phase' = "merging" /\ next' = 0
    /\ output' = file
    /\ UNCHANGED <<parts, saved, result>>
    /\ WorkersUnchanged

(* Mutant: it opens the output for appending. *)
StartMergeAppending == StartMergeInto(IF output = None THEN <<>> ELSE output)
StartMerge == StartMergeInto(<<>>)

(* ... and appends the parts. *)
MergePart ==
    /\ phase = "merging" /\ next \in Chunks
    /\ parts[next] # None
    /\ output' = Append(output, parts[next])
    /\ next' = next + 1
    /\ UNCHANGED <<parts, saved, phase, result>>
    /\ WorkersUnchanged

PartIsMissing ==
    /\ phase = "merging" /\ next \in Chunks
    /\ parts[next] = None
    /\ End("failed")
    /\ UNCHANGED <<files, next>>
    /\ WorkersUnchanged

IsFile(s) == output = [i \in 1..Total |-> s]

(* verifySHA256. *)
Verify ==
    /\ phase = "merging" /\ next = Total
    /\ IF IsFile(source) THEN phase' = "cleaning" /\ UNCHANGED result
       ELSE End("failed")
    /\ next' = 0
    /\ UNCHANGED files
    /\ WorkersUnchanged

RemovePart ==
    /\ phase = "cleaning" /\ next \in Chunks
    /\ parts' = [parts EXCEPT ![next] = None]
    /\ next' = next + 1
    /\ UNCHANGED <<saved, output, phase, result>>
    /\ WorkersUnchanged

Success(stateFile) ==
    /\ phase = "cleaning" /\ next = Total
    /\ saved' = stateFile
    /\ End("ok")
    /\ UNCHANGED <<parts, output, next>>
    /\ WorkersUnchanged

FinishKeepingState == Success(saved)    (* mutant: the state file stays *)
Finish == Success(None)

Main ==
    \/ Skip \/ Spawn \/ GiveUp \/ StartMerge \/ MergePart \/ PartIsMissing
    \/ Verify \/ RemovePart \/ Finish

(* The process dies, and its memory with it. *)
Crash ==
    /\ phase # "idle"
    /\ phase' = "idle" /\ next' = 0 /\ completed' = {}
    /\ worker' = [c \in Chunks |-> "none"] /\ attempt' = [c \in Chunks |-> 0]
    /\ UNCHANGED <<files, source, result>>

Next ==
    \/ \E s \in Sources : Start(s)
    \/ Main
    \/ \E c \in Chunks : Worker(c)
    \/ Crash

Spec == Init /\ [][Next]_vars

(* A goroutine that can go on does. A fetch ends, with an answer or an     *)
(* error: the client sets no timeout of its own.                           *)
Progress == Main \/ \E c \in Chunks : Worker(c)
FairSpec == Spec /\ WF_vars(Progress)

-----------------------------------------------------------------------------
TypeOK ==
    /\ parts \in [Chunks -> Contents \cup {None}]
    /\ saved \in {None, Torn} \cup SUBSET Chunks
    /\ output = None \/ output \in Seq(Contents)
    /\ source \in Sources
    /\ phase \in {"idle", "spawning", "merging", "cleaning"}
    /\ next \in 0..Total
    /\ completed \subseteq Chunks
    /\ worker \in [Chunks -> Working \cup Ended \cup {"none"}]
    /\ attempt \in [Chunks -> 0..RetryLimit]
    /\ result \in {"none", "ok", "failed"}

(* What a later run would skip is never half written, wherever this one or *)
(* any before it died.                                                     *)
SavedIsWhole == \A c \in Loaded : parts[c] # Cut

(* A run that reports success leaves the file of its own source, whatever  *)
(* earlier runs left in its parts, and nothing beside it.                  *)
OkIsComplete ==
    result = "ok" =>
        /\ IsFile(source)
        /\ saved = None /\ \A c \in Chunks : parts[c] = None

(* A run fails only if a fetch of its own did, or the state file names a   *)
(* part that is gone or holds other bytes than its source's.               *)
FailsForAReason ==
    result = "failed" =>
        Failed # {} \/ \E c \in completed : parts[c] # source

(* What is saved is not downloaded again: its part stays as it is until    *)
(* the cleanup removes it.                                                 *)
SavedIsKept ==
    [][\A c \in Loaded : parts'[c] = parts[c] \/ phase = "cleaning"]_vars

(* A run comes to an end: the goroutines never block each other or the     *)
(* main one for good, however many chunks fail.                            *)
RunEnds == phase # "idle" ~> phase = "idle"

(* A run to which every fetch brought the right bytes succeeds, and so     *)
(* repairs what a run before it left.                                      *)
RerunRepairs ==
    result = "failed" =>
        \/ Failed # {}
        \/ \E c \in Chunks : worker[c] = "done" /\ parts[c] # source
=============================================================================
