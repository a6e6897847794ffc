------------------------------ MODULE MCBTree ------------------------------
(* BTree with nodes of at most two keys, so that five keys make three      *)
(* levels. Two long values are enough to fill a page before the order does.  *)
EXTENDS BTree

MCKeys == 1..5
MCValues == {1, 4}
MCInputs == [k \in MCKeys |-> IF k \in {3, 4} THEN {4} ELSE {1}]
=============================================================================
