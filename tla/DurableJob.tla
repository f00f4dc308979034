------------------------------ MODULE DurableJob -----------------------------
(****************************************************************************)
(* What a durable job promises, whatever runs it: it is worked on by one    *)
(* worker at a time, together with no other job of its key, it passes its   *)
(* steps one by one in order, and it is back at the first step only after   *)
(* a worker got through the last.  A worker may vanish at any time.         *)
(****************************************************************************)
EXTENDS Naturals

CONSTANTS Jobs, NSteps, KeyOf

VARIABLES at,       \* at[j]: the step job j resumes at
          working   \* working[j]: someone is working on job j

abstractVars == <<at, working>>

Init == at = [j \in Jobs |-> 1] /\ working = [j \in Jobs |-> FALSE]

Begin(j) ==
  /\ \A k \in Jobs : KeyOf[k] = KeyOf[j] => ~working[k]
  /\ working' = [working EXCEPT ![j] = TRUE]
  /\ UNCHANGED at

NextStep(j) == IF at[j] < NSteps THEN at[j] + 1 ELSE 1

\* A worker gets through the step and carries on, or leaves with or without it.
Pass(j) ==
  /\ working[j]
  /\ at' = [at EXCEPT ![j] = NextStep(j)]
  /\ working' \in {working, [working EXCEPT ![j] = FALSE]}

\* Workers leave where they are: each on its own, all that were stopped, or all in a crash.
Leave ==
  /\ working' \in [Jobs -> BOOLEAN]
  /\ \A j \in Jobs : working'[j] => working[j]
  /\ UNCHANGED at

Next == (\E j \in Jobs : Begin(j) \/ Pass(j)) \/ Leave

Spec == Init /\ [][Next]_abstractVars
=============================================================================
