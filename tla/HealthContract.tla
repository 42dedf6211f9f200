--------------------------- MODULE HealthContract ---------------------------
(***************************************************************************)
(* What a running health monitor promises whoever only sees the bypass     *)
(* being kept, dropped and taken up again: it is dropped after `threshold' *)
(* probes in a row went unanswered and never sooner, it is taken up again  *)
(* only when the user asked for that (`auto'), and nothing happens after   *)
(* the monitor was retired.                                                *)
(***************************************************************************)
EXTENDS Naturals

VARIABLES
    terms,    \* the threshold and the auto switch agreed on at the start
    phase,    \* is the bypass kept, dropped, or none of the monitor's business
    misses    \* unanswered probes in a row while it is kept

contractVars == <<terms, phase, misses>>

ContractInit ==
    /\ terms \in [threshold: Nat \ {0}, auto: BOOLEAN]
    /\ phase \in {"kept", "retired"}
    /\ misses = 0

Answered ==
    /\ phase = "kept"
    /\ misses' = 0
    /\ UNCHANGED <<terms, phase>>

Unanswered ==
    /\ phase = "kept" /\ misses < terms.threshold
    /\ misses' = misses + 1
    /\ UNCHANGED <<terms, phase>>

Drop ==
    /\ phase = "kept" /\ misses = terms.threshold
    /\ phase' = "dropped" /\ misses' = 0
    /\ UNCHANGED terms

TakeUp ==
    /\ phase = "dropped" /\ terms.auto
    /\ phase' = "kept"
    /\ UNCHANGED <<terms, misses>>

ContractRetire ==
    /\ phase # "retired"
    /\ phase' = "retired" /\ misses' = 0
    /\ UNCHANGED terms

ContractNext == Answered \/ Unanswered \/ Drop \/ TakeUp \/ ContractRetire

ContractSpec == ContractInit /\ [][ContractNext]_contractVars
=============================================================================
