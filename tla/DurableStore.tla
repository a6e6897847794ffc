---------------------------- MODULE DurableStore ----------------------------
(***************************************************************************)
(* What the storage engine promises to its callers: a map from keys to     *)
(* values in which a completed write is never undone, and in which a write *)
(* that was cut off (by an error or a crash) may or may not have happened. *)
(*                                                                         *)
(* store[k]   is what a Get of k answers.                                  *)
(* allowed[k] is what a restart may make of k: the value of the last       *)
(*            completed write of k, and of every later attempt on k that   *)
(*            did not complete.                                            *)
(***************************************************************************)
CONSTANTS Keys,    (* the keys                            *)
          Values,  (* the values a Put can store          *)
          NoValue  (* what a key without a value maps to  *)

VARIABLES store, allowed

vars == <<store, allowed>>

Stored == Values \cup {NoValue}

Init ==
    /\ store = [k \in Keys |-> NoValue]
    /\ allowed = [k \in Keys |-> {NoValue}]

(* A Put (v a value) or Delete (v = NoValue) of k has begun.               *)
Attempt(k, v) ==
    /\ allowed' = [allowed EXCEPT ![k] = @ \cup {v}]
    /\ UNCHANGED store

(* The operation takes effect: from here on nothing can undo it.           *)
Commit(k, v) ==
    /\ v \in allowed[k]
    /\ store' = [store EXCEPT ![k] = v]
    /\ allowed' = [allowed EXCEPT ![k] = {v}]

(* The process dies. Attempts that did not complete are decided.           *)
Restart ==
    /\ store' \in [Keys -> Stored]
    /\ \A k \in Keys : store'[k] \in allowed[k]
    /\ UNCHANGED allowed

Next ==
    \/ \E k \in Keys, v \in Stored : Attempt(k, v) \/ Commit(k, v)
    \/ Restart

Spec == Init /\ [][Next]_vars
=============================================================================
