--------------------------- MODULE MCKodedEngine ---------------------------
(* KodedEngine on two keys and two values. *)
EXTENDS KodedEngine

CONSTANTS v1, v2

MCKeys == {1, 2}
MCValues == {v1, v2}
MCOne == {v1}
MCNone == {}
MCBig == {v2}
=============================================================================
