-------------------------- MODULE DistinctNetworks --------------------------
(***************************************************************************)
(* What one capture of the C server promises, without slots, counters or   *)
(* scans: the report is the set of networks heard, cut off at a capacity.  *)
(***************************************************************************)
EXTENDS Naturals, FiniteSets

CONSTANTS Networks, Capacity

VARIABLES listening, present, reported

vars == <<listening, present, reported>>

Init == listening = FALSE /\ present = {} /\ reported = {}

Begin == /\ ~ listening
         /\ listening' = TRUE
         /\ present' = {}
         /\ reported' = {}

\* A network is heard, for the first time or again: it is reported if there is room.
Hear(n) == /\ listening
           /\ present' = present \union {n}
           /\ reported' = IF Cardinality(reported) < Capacity
                          THEN reported \union {n} ELSE reported
           /\ UNCHANGED listening

End == listening /\ listening' = FALSE /\ UNCHANGED <<present, reported>>

Next == Begin \/ (\E n \in Networks : Hear(n)) \/ End

Spec == Init /\ [][Next]_vars
=============================================================================
