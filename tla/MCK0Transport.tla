--------------------------- MODULE MCK0Transport ---------------------------
(* K0Transport as TLC checks it: the bounds are in the configurations.     *)
EXTENDS K0Transport
=============================================================================
