----------------------------- MODULE MCJobRunner -----------------------------
(* Instances of JobRunner for TLC: jobs 1 and 2 share a VOD, 3 has its own. *)
EXTENDS JobRunner

CONSTANTS t1, t2, t3, vodA, vodB

OneVod   == [j \in Jobs |-> vodA]
TwoVods  == [j \in Jobs |-> IF j = 3 THEN vodB ELSE vodA]
GateAt2  == {{2}}
=============================================================================
