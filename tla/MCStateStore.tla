---------------------------- MODULE MCStateStore ----------------------------
(***************************************************************************)
(* Instances of StateStore for TLC: two values of different length.        *)
(***************************************************************************)
EXTENDS StateStore

CONSTANTS short, long

Lengths == [v \in Values |-> IF v = long THEN 2 ELSE 1]
=============================================================================
