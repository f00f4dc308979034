--------------------------- MODULE JobRunnerProofs ---------------------------
(****************************************************************************)
(* What TLAPS proves of JobRunner for every value of its constants.         *)
(****************************************************************************)
EXTENDS JobRunner, TLAPS

----------------------------------------------------------------------------
(* Lemmas on the helpers.                                                   *)

LEMMA ResumeAtType == ASSUME NEW r \in Rows PROVE ResumeAt(r) \in 1..NSteps
  BY StepsAssumption DEF ResumeAt, Rows, None

LEMMA KeyType == ASSUME NEW j \in Jobs, NEW known \in BOOLEAN PROVE Key(j, known) \in Keys
  BY DEF Key, Keys

\* A request changes a row only in the columns admins may change.
LEMMA UpdatedType ==
  ASSUME NEW r \in Rows, NEW seen \in Rows, NEW op \in AllOps, NEW want \in Wanted(op, seen)
  PROVE  /\ Updated(r, seen, want) \in Rows
         /\ Updated(r, seen, want).step = r.step /\ Updated(r, seen, want).known = r.known
<1>1. want \in Rows
  <2>1. \A g \in Gates : [seen EXCEPT !.own = g] \in Rows
    BY DEF Rows
  <2>2. \A b \in BOOLEAN : [seen EXCEPT !.pauseNext = b] \in Rows
    BY DEF Rows
  <2>3. /\ \A s \in RowStates, b \in BOOLEAN : [seen EXCEPT !.state = s, !.pauseNext = b] \in Rows
        /\ \A s \in RowStates : [seen EXCEPT !.state = s] \in Rows
        /\ [seen EXCEPT !.state = "queued", !.attempts = 0, !.waiting = FALSE] \in Rows
    BY DEF Rows, RowStates
  <2>4. QED BY <2>1, <2>2, <2>3 DEF Wanted, AllOps, RowStates
<1>2. QED BY ZenonT(60), <1>1 DEF Updated, Rows

\* A task that is over keeps its job, key and VOD.
LEMMA OverType ==
  ASSUME NEW x \in TaskRecs
  PROVE  /\ Over(x) \in TaskRecs
         /\ Over(x).job = x.job /\ Over(x).key = x.key /\ Over(x).known = x.known
         /\ Over(x).pc = "ended"
<1>1. None \in 0..NSteps
  BY StepsAssumption DEF None
<1>2. Inherit \in Gates
  BY DEF Gates
<1>3. QED BY <1>1, <1>2 DEF Over, TaskRecs, Pcs

\* What a cancellation leaves of a task: the same job and key, and either nothing to do, or the
\* interruption of the place it was at.
LEMMA CancelledType ==
  ASSUME NEW x \in TaskRecs, NEW to \in {"queued", "cancelled"}
  PROVE  /\ Cancelled(x, to) \in TaskRecs
         /\ Cancelled(x, to).job = x.job /\ Cancelled(x, to).key = x.key
         /\ Cancelled(x, to).known = x.known
         /\ \/ Cancelled(x, to).pc = "ended"
            \/ /\ Cancelled(x, to).pc = "interrupt" /\ Cancelled(x, to).cur = x.cur
               /\ x.pc \in Working \ {"new", "fail"}
<1>1. CASE x.pc \in {"new", "fail", "ended"}
  BY <1>1, OverType DEF Cancelled
<1>2. CASE x.pc = "interrupt"
  BY <1>2 DEF Cancelled, Working, Pcs
<1>3. CASE x.pc \in Pcs \ {"new", "fail", "ended", "interrupt"}
  <2> DEFINE y == [x EXCEPT !.pc = "interrupt", !.to = to, !.pausing = FALSE]
  <2>1. Cancelled(x, to) = y
    BY <1>3 DEF Cancelled
  <2>2. /\ y \in TaskRecs /\ y.job = x.job /\ y.key = x.key /\ y.known = x.known
        /\ y.pc = "interrupt" /\ y.cur = x.cur
    BY DEF TaskRecs, Pcs
  <2>3. QED BY <1>3, <2>1, <2>2 DEF Working
<1>4. x.pc \in Pcs
  BY DEF TaskRecs
<1>5. QED BY <1>1, <1>2, <1>3, <1>4

\* The name Register takes is a free one.
LEMMA FreeTaskFree == ASSUME Live # Tasks PROVE FreeTask \in Tasks /\ task[FreeTask] = NoTask
  BY DEF Live, FreeTask

----------------------------------------------------------------------------
(* Type correctness, with the registry it rests on: shutdown and cancel     *)
(* reach tasks through Runner.running.                                      *)

TypeInv == TypeOK /\ RegistryOK

LEMMA Zero == None \in 0..NSteps /\ 1 \in 0..NSteps /\ 1 \in 1..NSteps
  BY StepsAssumption DEF None

LEMMA LiveTask ==
  ASSUME TypeOK, NEW t \in Tasks, task[t] # NoTask
  PROVE  task[t] \in TaskRecs /\ task[t].job \in Jobs /\ row[task[t].job] \in Rows
  BY DEF TypeOK, TaskRecs

\* What a step inside a task's body does: it moves that task and, at most, its job's row.
BodyStep(t) ==
  \/ Start(t) \/ ResolveVod(t) \/ StepReturns(t) \/ Checkpoint(t) \/ MoveOn(t) \/ Finish(t)
  \/ FinishReturns(t) \/ RecordFailure(t) \/ RecordInterrupt(t) \/ TaskFails(t)

LEMMA BodyStepType ==
  ASSUME TypeOK, NEW t \in Tasks, BodyStep(t)
  PROVE  /\ t \in Live
         /\ \E y \in TaskRecs : SetTask(t, y) /\ y.job = task[t].job /\ y.key = task[t].key
         /\ row' = row \/ \E r \in Rows : SetRow(task[t].job, r)
         /\ UNCHANGED <<running, claim, mode, awaited, call>>
         /\ spent' \in [{"calls", "stops", "faults"} -> Nat]
<1> DEFINE x == task[t]
           j == x.job
           r == row[j]
<1>1. t \in Live
  BY DEF BodyStep, TaskFails, Start, ResolveVod, StepReturns, Checkpoint, MoveOn, Finish, FinishReturns,
     RecordFailure, RecordInterrupt, StepRaises, WriteRaises, RecordRaises, At, Live
<1>2. x \in TaskRecs /\ j \in Jobs /\ r \in Rows
  BY <1>1, LiveTask DEF Live
<1>3. \A what \in {"calls", "stops", "faults"} :
        Spend(what) \/ UNCHANGED spent => spent' \in [{"calls", "stops", "faults"} -> Nat]
  BY DEF Spend, TypeOK
<1> DEFINE Keeps(y) == y \in TaskRecs /\ y.job = j /\ y.key = x.key
<1>4. \A pc \in Pcs : Keeps([x EXCEPT !.pc = pc])
  BY <1>2 DEF TaskRecs
<1>5. Keeps(Over(x))
  BY <1>2, OverType
<1>6. \A n \in Nat : Keeps(Failing(t, n))
  BY <1>2 DEF TaskRecs, Pcs, Failing
<1>7. x.attempts \in Nat /\ x.attempts + 1 \in Nat /\ MaxAttempts \in Nat
  BY <1>2, LimitsAssumption DEF TaskRecs
<1>8. x.cur \in 0..NSteps /\ x.known \in BOOLEAN /\ x.to \in RowStates
  BY <1>2 DEF TaskRecs, RowStates
<1>9. CASE Start(t) \/ FinishReturns(t) \/ MoveOn(t)
  BY <1>1, <1>3, <1>4, <1>5, <1>9 DEF Start, FinishReturns, MoveOn, Goto, End, TaskOnly, Pcs
<1>10. CASE ResolveVod(t)
  <2>1. Keeps([x EXCEPT !.known = TRUE])
    BY <1>2 DEF TaskRecs
  <2>2. QED BY <1>1, <1>3, <1>10, <2>1 DEF ResolveVod, TaskOnly
<1>11. CASE StepReturns(t)
  <2>1. ASSUME x.cur < NSteps PROVE Keeps([x EXCEPT !.pc = "checkpoint", !.cur = @ + 1])
    <3>1. x.cur + 1 \in 0..NSteps
      BY <1>8, <2>1, StepsAssumption
    <3>2. QED BY <1>2, <3>1 DEF TaskRecs, Pcs
  <2>2. Keeps([x EXCEPT !.pc = "finish", !.cur = None])
    BY <1>2, Zero DEF TaskRecs, Pcs
  <2>3. QED BY <1>1, <1>3, <1>11, <2>1, <2>2 DEF StepReturns, TaskOnly
<1>12. CASE Checkpoint(t)
  <2>1. Pausing(t) \in BOOLEAN
    BY <1>2 DEF Pausing, Rows
  <2>2. Keeps([x EXCEPT !.pc = "moved", !.pausing = Pausing(t)])
    BY <1>2, <2>1 DEF TaskRecs, Pcs
  <2>3. /\ [r EXCEPT !.step = x.cur, !.known = x.known] \in Rows
        /\ [[r EXCEPT !.step = x.cur, !.known = x.known] EXCEPT !.state = "paused", !.pauseNext = FALSE] \in Rows
    BY <1>2, <1>8 DEF Rows, RowStates
  <2>4. QED BY <1>1, <1>3, <1>12, <2>2, <2>3 DEF Checkpoint
<1>13. CASE Finish(t)
  <2>1. [r EXCEPT !.state = "done", !.step = None, !.known = x.known, !.waiting = FALSE, !.pauseNext = FALSE] \in Rows
    BY <1>2, <1>8, Zero DEF Rows, RowStates
  <2>2. QED BY <1>1, <1>3, <1>4, <1>13, <2>1 DEF Finish, Goto, Pcs
<1>14. CASE RecordFailure(t)
  <2>1. \A s \in RowStates, w \in BOOLEAN :
          [r EXCEPT !.state = s, !.step = x.cur, !.attempts = x.attempts, !.known = x.known, !.waiting = w] \in Rows
    BY <1>2, <1>7, <1>8 DEF Rows
  <2> DEFINE last == x.attempts >= MaxAttempts
  <2>2. (IF last THEN "failed" ELSE "queued") \in RowStates /\ (~last) \in BOOLEAN
    BY DEF RowStates
  <2>3. [r EXCEPT !.state = IF last THEN "failed" ELSE "queued", !.step = x.cur, !.attempts = x.attempts,
                  !.known = x.known, !.waiting = ~last] \in Rows
    BY <2>1, <2>2
  <2>4. QED BY <1>1, <1>3, <1>5, <1>14, <2>3 DEF RecordFailure, End
<1>15. CASE RecordInterrupt(t)
  <2>1. [r EXCEPT !.state = x.to, !.step = x.cur, !.known = x.known] \in Rows
    BY <1>2, <1>8 DEF Rows
  <2>2. QED BY <1>1, <1>3, <1>5, <1>15, <2>1 DEF RecordInterrupt, End
<1>16. CASE TaskFails(t)
  BY <1>1, <1>3, <1>5, <1>6, <1>7, <1>16 DEF TaskFails, StepRaises, WriteRaises, RecordRaises, End, TaskOnly
<1>17. QED
  BY <1>9, <1>10, <1>11, <1>12, <1>13, <1>14, <1>15, <1>16 DEF BodyStep

\* Next, as the proofs split it.
LEMMA NextCases ==
  ASSUME Next
  PROVE  \/ \E j \in Jobs : Claim(j)
         \/ Register
         \/ \E t \in Tasks : BodyStep(t)
         \/ \E t \in Tasks : Done(t)
         \/ \E j \in Jobs : BackoffEnds(j)
         \/ \E c \in Callers : \/ \E op \in Ops, j \in Jobs : ReadRow(c, op, j)
                              \/ WriteRow(c)
                              \/ CancelTask(c)
         \/ Stop \/ LoopStops \/ Exit \/ Crash \/ Boot
  BY DEF Next, Pick, RunTask, TaskFails, Admin, BodyStep

LEMMA TypeInit == Init => TypeInv
<1>1. \A known \in BOOLEAN :
        [state |-> "queued", step |-> 1, attempts |-> 0, waiting |-> FALSE, pauseNext |-> FALSE,
         own |-> Inherit, known |-> known] \in Rows
  BY Zero DEF Rows, RowStates, Gates
<1>2. Init => row \in [Jobs -> Rows]
  BY <1>1 DEF Init
<1>3. Init => spent \in [{"calls", "stops", "faults"} -> Nat]
  BY DEF Init
<1>4. QED BY <1>2, <1>3 DEF Init, TypeInv, TypeOK, RegistryOK, Live

\* Cancelling some of the live tasks keeps the table of tasks well-typed and the registry true.
LEMMA CancelSome ==
  ASSUME TypeInv, NEW S \in SUBSET Live, NEW to \in {"queued", "cancelled"},
         task' = [t \in Tasks |-> IF t \in S THEN Cancelled(task[t], to) ELSE task[t]],
         running' = running
  PROVE  task' \in [Tasks -> TaskRecs \cup {NoTask}] /\ RegistryOK' /\ Live' = Live
<1>1. \A t \in S : /\ task'[t] \in TaskRecs /\ task'[t].job = task[t].job
  BY LiveTask, CancelledType DEF TypeInv, Live
<1>2. NoTask \notin TaskRecs
  BY NullsAssumption
<1>3. \A t \in Tasks : task'[t] = IF t \in S THEN Cancelled(task[t], to) ELSE task[t]
  OBVIOUS
<1>4. \A t \in Tasks \ S : task'[t] = task[t]
  BY <1>3
<1>5. Live' = Live
  BY <1>1, <1>2, <1>4 DEF Live
<1>6. task' \in [Tasks -> TaskRecs \cup {NoTask}]
  BY <1>1, <1>4 DEF TypeInv, TypeOK
<1>7. RegistryOK'
  BY <1>1, <1>4, <1>5 DEF RegistryOK, TypeInv, TypeOK, Live
<1>8. QED BY <1>5, <1>6, <1>7

LEMMA TypeStep == TypeInv /\ [Next]_vars => TypeInv'
<1> SUFFICES ASSUME TypeInv, [Next]_vars PROVE TypeInv'
  OBVIOUS
<1> USE DEF TypeInv
<1>1. ASSUME NEW j \in Jobs, Claim(j) PROVE TypeInv'
  <2>1. row[j] \in Rows /\ ResumeAt(row[j]) \in 1..NSteps
    BY ResumeAtType DEF TypeOK
  <2>2. [row[j] EXCEPT !.state = "running"] \in Rows
    BY <2>1 DEF Rows, RowStates
  <2>3. [job |-> j, cur |-> ResumeAt(row[j]), attempts |-> row[j].attempts,
         own |-> row[j].own, known |-> row[j].known] \in Claims
    BY <2>1 DEF Rows, Claims
  <2>4. QED BY <1>1, <2>2, <2>3 DEF Claim, SetRow, TypeOK, RegistryOK, Live
<1>2. ASSUME Register PROVE TypeInv'
  <2>1. claim \in Claims
    BY <1>2 DEF Register, TypeOK
  <2>2. FreeTask \in Tasks /\ task[FreeTask] = NoTask
    BY <1>2, FreeTaskFree DEF Register
  <2> DEFINE new == [pc |-> "new", job |-> claim.job, cur |-> claim.cur, attempts |-> claim.attempts,
                     own |-> claim.own, known |-> claim.known, pausing |-> FALSE, to |-> "queued",
                     key |-> Key(claim.job, claim.known)]
  <2>3. claim.job \in Jobs /\ claim.cur \in 0..NSteps /\ Key(claim.job, claim.known) \in Keys
    BY <2>1, KeyType, StepsAssumption DEF Claims
  <2>4. new \in TaskRecs /\ new.job = claim.job
    BY <2>1, <2>3 DEF Claims, TaskRecs, Pcs
  <2>5. new # NoTask
    BY <2>4, NullsAssumption
  <2> HIDE DEF new
  <2>6. task' = [task EXCEPT ![FreeTask] = new] /\ running' = [running EXCEPT ![claim.job] = FreeTask]
        /\ claim' = NoClaim /\ UNCHANGED <<row, mode, awaited, call, spent>>
    BY <1>2 DEF Register, SetTask, new
  <2>7. TypeOK'
    BY <2>2, <2>3, <2>4, <2>6 DEF TypeOK
  <2>8. RegistryOK'
    BY <2>2, <2>3, <2>4, <2>5, <2>6 DEF TypeOK, RegistryOK, Live
  <2>9. QED BY <2>7, <2>8
<1>3. ASSUME NEW t \in Tasks, BodyStep(t) PROVE TypeInv'
  <2>1. t \in Live /\ task[t] \in TaskRecs /\ task[t].job \in Jobs
    BY <1>3, BodyStepType, LiveTask DEF Live
  <2>2. PICK y \in TaskRecs : SetTask(t, y) /\ y.job = task[t].job /\ y.key = task[t].key
    BY <1>3, BodyStepType
  <2>3. row' = row \/ \E r \in Rows : SetRow(task[t].job, r)
    BY <1>3, BodyStepType
  <2>4. /\ UNCHANGED <<running, claim, mode, awaited, call>>
        /\ spent' \in [{"calls", "stops", "faults"} -> Nat]
    BY <1>3, BodyStepType
  <2>5. row' \in [Jobs -> Rows]
    BY <2>1, <2>3 DEF TypeOK, SetRow
  <2>6. y # NoTask
    BY NullsAssumption
  <2>7. TypeOK'
    BY <2>2, <2>4, <2>5 DEF TypeOK, SetTask
  <2>8. RegistryOK'
    BY <2>1, <2>2, <2>4, <2>6 DEF TypeOK, RegistryOK, Live, SetTask
  <2>9. QED BY <2>7, <2>8
<1>4. ASSUME NEW t \in Tasks, Done(t) PROVE TypeInv'
  <2>1. t \in Live /\ task[t].job \in Jobs
    BY <1>4, LiveTask DEF Done, At, Live
  <2>2. TypeOK'
    BY <1>4, <2>1 DEF Done, SetTask, TypeOK
  <2>3. RegistryOK'
    BY <1>4, <2>1 DEF Done, SetTask, TypeOK, RegistryOK, Live
  <2>4. QED BY <2>2, <2>3
<1>5. ASSUME NEW j \in Jobs, BackoffEnds(j) PROVE TypeInv'
  <2>1. [row[j] EXCEPT !.waiting = FALSE] \in Rows
    BY ZenonT(60) DEF TypeOK, Rows
  <2>2. QED BY <1>5, <2>1 DEF BackoffEnds, SetRow, TypeOK, RegistryOK, Live
<1>6. ASSUME NEW c \in Callers, NEW op \in Ops, NEW j \in Jobs, ReadRow(c, op, j) PROVE TypeInv'
  <2>1. [op |-> op, job |-> j, seen |-> row[j]] \in Calls
    BY JobDataAssumption DEF TypeOK, Calls
  <2>2. spent' \in [{"calls", "stops", "faults"} -> Nat]
    BY <1>6 DEF ReadRow, Spend, TypeOK
  <2>3. QED BY <1>6, <2>1, <2>2 DEF ReadRow, TypeOK, RegistryOK, Live
<1>7. ASSUME NEW c \in Callers, WriteRow(c) PROVE TypeInv'
  <2>1. call[c] \in Calls
    BY <1>7 DEF WriteRow, TypeOK
  <2>2. call[c].job \in Jobs /\ call[c].op \in AllOps /\ call[c].seen \in Rows
    BY <2>1 DEF Calls
  <2>3. \A want \in Wanted(call[c].op, call[c].seen) :
          Updated(row[call[c].job], call[c].seen, want) \in Rows
    BY <2>2, UpdatedType DEF TypeOK
  <2>4. QED BY <1>7, <2>2, <2>3 DEF WriteRow, SetRow, TypeOK, RegistryOK, Live
<1>8. ASSUME NEW c \in Callers, CancelTask(c) PROVE TypeInv'
  <2> DEFINE u == running[call[c].job]
             S == IF u = NoTask THEN {} ELSE {u}
  <2>1. call[c] \in Calls /\ call[c].job \in Jobs
    BY <1>8 DEF CancelTask, TypeOK, Calls
  <2>2. S \subseteq Live
    BY <2>1 DEF RegistryOK
  <2>3. task' = [t \in Tasks |-> IF t \in S THEN Cancelled(task[t], "cancelled") ELSE task[t]]
    BY <1>8, <2>1, <2>2 DEF CancelTask, TypeOK, Live
  <2>4. running' = running
    BY <1>8 DEF CancelTask
  <2>5. task' \in [Tasks -> TaskRecs \cup {NoTask}] /\ RegistryOK'
    BY <2>2, <2>3, <2>4, CancelSome
  <2>6. QED BY <1>8, <2>5 DEF CancelTask, TypeOK
<1>9. ASSUME Stop PROVE TypeInv'
  <2>1. Registered \subseteq Live
    BY DEF Registered, RegistryOK
  <2>2. task' \in [Tasks -> TaskRecs \cup {NoTask}] /\ RegistryOK'
    BY <1>9, <2>1, CancelSome DEF Stop, CancelAll
  <2>3. spent' \in [{"calls", "stops", "faults"} -> Nat]
    BY <1>9 DEF Stop, Spend, TypeOK
  <2>4. Registered \subseteq Tasks
    BY <2>1 DEF Live
  <2>5. QED BY <1>9, <2>2, <2>3, <2>4 DEF Stop, TypeOK
<1>10. ASSUME LoopStops PROVE TypeInv'
  <2>1. task' \in [Tasks -> TaskRecs \cup {NoTask}] /\ RegistryOK'
    BY <1>10, CancelSome DEF LoopStops, CancelAll
  <2>2. QED BY <1>10, <2>1 DEF LoopStops, TypeOK
<1>11. ASSUME Exit \/ Crash PROVE TypeInv'
  <2>1. Gone /\ spent' \in [{"calls", "stops", "faults"} -> Nat]
    BY <1>11 DEF Exit, Crash, Spend, TypeOK
  <2>2. QED BY <2>1 DEF Gone, TypeOK, RegistryOK
<1>12. ASSUME Boot PROVE TypeInv'
  <2>1. \A j \in Jobs : row[j] \in Rows /\ [row[j] EXCEPT !.state = "queued"] \in Rows
    BY DEF TypeOK, Rows, RowStates
  <2>2. row' \in [Jobs -> Rows]
    BY <1>12, <2>1 DEF Boot
  <2>3. QED BY <1>12, <2>2 DEF Boot, TypeOK, RegistryOK, Live
<1>13. CASE UNCHANGED vars
  BY <1>13 DEF vars, TypeOK, RegistryOK, Live
<1>14. QED
  BY <1>1, <1>2, <1>3, <1>4, <1>5, <1>6, <1>7, <1>8, <1>9, <1>10, <1>11, <1>12, <1>13, NextCases

\* Every state of the runner has the types TypeOK states.
THEOREM TypeCorrect == Spec => []TypeOK
<1>1. TypeInv => TypeOK
  BY DEF TypeInv
<1>2. QED BY <1>1, TypeInit, TypeStep, PTL DEF Spec

----------------------------------------------------------------------------
(* Exclusion and places, for the jobs that are queued with their VOD: the   *)
(* key of such a job's task is its VOD and type, so a pick sees every task  *)
(* it must keep away from, whatever live jobs run beside it.  (Of a live    *)
(* job itself it does not: that is claimed under its own id.)               *)

\* The live tasks of these jobs.
Mine == {t \in Live : task[t].job \in WithVod}

\* Every key of theirs is a VOD and type: no row, task or pick is without its VOD.
KnownVods ==
  /\ \A j \in WithVod : row[j].known
  /\ \A t \in Mine : task[t].known
  /\ claim # NoClaim /\ claim.job \in WithVod => claim.known

\* Every task of theirs is registered under its job, with its job's key.
Owned == \A t \in Mine : task[t].key = VodKey[task[t].job] /\ running[task[t].job] = t

OneLive == \A t, u \in Mine : VodKey[task[t].job] = VodKey[task[u].job] => t = u

\* Between the pick's commit and its task no task of the same VOD exists and the row does not move.
ClaimOK ==
  claim # NoClaim /\ claim.job \in WithVod =>
    /\ claim.cur = ResumeAt(row[claim.job])
    /\ \A t \in Mine : VodKey[task[t].job] # VodKey[claim.job]

\* How a task's place and the row's agree, at each point of a run.
InPlace(x, r) ==
  /\ x.pc \in {"new", "step", "moved"} => x.cur = ResumeAt(r)
  /\ x.pc = "checkpoint" => x.cur = ResumeAt(r) + 1
  /\ x.pc = "finish" => x.cur = None /\ ResumeAt(r) = NSteps
  /\ x.pc = "finished" => x.cur = None /\ r.step = None
  /\ x.pc \in {"fail", "interrupt"} =>
       \/ x.cur = ResumeAt(r)
       \/ x.cur = ResumeAt(r) + 1
       \/ x.cur = None /\ (ResumeAt(r) = NSteps \/ r.step = None)

Places == \A t \in Mine : InPlace(task[t], row[task[t].job])

SafeInv == TypeInv /\ KnownVods /\ Owned /\ OneLive /\ ClaimOK /\ Places

NextPlace(n) == IF n < NSteps THEN n + 1 ELSE 1

\* A step of a task in its place leaves it in its place, moves the place at most one step on,
\* and takes no task back to work.
LEMMA BodyStepPlace ==
  ASSUME TypeOK, NEW t \in Tasks, BodyStep(t),
         InPlace(task[t], row[task[t].job]), row[task[t].job].known, task[t].known
  PROVE  \E y \in TaskRecs, r \in Rows :
           /\ SetTask(t, y) /\ y.job = task[t].job /\ y.key = task[t].key /\ y.known
           /\ row' = [row EXCEPT ![task[t].job] = r] /\ r.known
           /\ InPlace(y, r)
           /\ ResumeAt(r) \in {ResumeAt(row[task[t].job]), NextPlace(ResumeAt(row[task[t].job]))}
           /\ task[t].pc \in Working
<1> DEFINE x == task[t]
           j == x.job
           r0 == row[j]
           Good(y, r) == /\ y \in TaskRecs /\ r \in Rows
                         /\ y.job = j /\ y.key = x.key /\ y.known /\ r.known
                         /\ InPlace(y, r)
                         /\ ResumeAt(r) \in {ResumeAt(r0), NextPlace(ResumeAt(r0))}
<1>1. t \in Live /\ x.pc \in Working
  BY BodyStepType DEF BodyStep, TaskFails, Start, ResolveVod, StepReturns, Checkpoint, MoveOn, Finish,
     FinishReturns, RecordFailure, RecordInterrupt, StepRaises, WriteRaises, RecordRaises, At, Working, Pcs
<1>2. x \in TaskRecs /\ j \in Jobs /\ r0 \in Rows
  BY <1>1, LiveTask DEF Live
<1>3. row = [row EXCEPT ![j] = r0]
  BY <1>2 DEF TypeOK
<1> SUFFICES \E y, r : Good(y, r) /\ SetTask(t, y) /\ row' = [row EXCEPT ![j] = r]
  BY <1>1
<1>4. ResumeAt(r0) \in 1..NSteps /\ x.cur \in 0..NSteps /\ x.attempts \in Nat /\ x.known = TRUE
  BY <1>2, ResumeAtType DEF TaskRecs
<1>5. Good(Over(x), r0)
  <2>1. InPlace(Over(x), r0)
    BY <1>2, OverType DEF InPlace
  <2>2. QED BY <1>2, <2>1, OverType
<1>6. ASSUME FinishReturns(t) \/ RecordRaises(t) \/ (MoveOn(t) /\ x.pausing)
      PROVE  SetTask(t, Over(x)) /\ row' = row
  BY <1>6 DEF FinishReturns, RecordRaises, MoveOn, End, TaskOnly
<1>7. CASE FinishReturns(t) \/ RecordRaises(t) \/ (MoveOn(t) /\ x.pausing)
  BY <1>3, <1>5, <1>6, <1>7
<1>8. CASE Start(t) \/ (MoveOn(t) /\ ~x.pausing)
  <2> DEFINE y == [x EXCEPT !.pc = "step"]
  <2>1. SetTask(t, y) /\ row' = row /\ x.pc \in {"new", "moved"}
    BY <1>8 DEF Start, MoveOn, Goto, TaskOnly, At
  <2>2. /\ y \in TaskRecs /\ y.job = j /\ y.key = x.key /\ y.known = x.known
        /\ y.pc = "step" /\ y.cur = x.cur
    BY <1>2 DEF TaskRecs, Pcs
  <2>3. InPlace(y, r0)
    BY <2>1, <2>2 DEF InPlace
  <2>4. QED BY <1>2, <1>3, <2>1, <2>2, <2>3
<1>9. CASE ResolveVod(t)
  BY <1>9 DEF ResolveVod
<1>10. CASE StepReturns(t)
  <2>1. x.pc = "step" /\ row' = row /\ x.cur = ResumeAt(r0)
    BY <1>10 DEF StepReturns, TaskOnly, At, InPlace
  <2>2. CASE x.cur < NSteps
    <3> DEFINE y == [x EXCEPT !.pc = "checkpoint", !.cur = @ + 1]
    <3>1. x.cur + 1 \in 0..NSteps
      BY <1>4, <2>2, StepsAssumption
    <3>2. /\ y \in TaskRecs /\ y.job = j /\ y.key = x.key /\ y.known = x.known
          /\ y.pc = "checkpoint" /\ y.cur = x.cur + 1
      BY <1>2, <3>1 DEF TaskRecs, Pcs
    <3>3. InPlace(y, r0)
      BY <2>1, <3>2 DEF InPlace
    <3>4. SetTask(t, y)
      BY <1>10, <2>2 DEF StepReturns
    <3>5. QED BY <1>2, <1>3, <2>1, <3>2, <3>3, <3>4
  <2>3. CASE ~(x.cur < NSteps)
    <3> DEFINE y == [x EXCEPT !.pc = "finish", !.cur = None]
    <3>1. /\ y \in TaskRecs /\ y.job = j /\ y.key = x.key /\ y.known = x.known
          /\ y.pc = "finish" /\ y.cur = None
      BY <1>2, Zero DEF TaskRecs, Pcs
    <3>2. ResumeAt(r0) = NSteps
      BY <1>4, <2>1, <2>3, StepsAssumption
    <3>3. InPlace(y, r0)
      BY <3>1, <3>2 DEF InPlace
    <3>4. SetTask(t, y)
      BY <1>10, <2>3 DEF StepReturns
    <3>5. QED BY <1>2, <1>3, <2>1, <3>1, <3>3, <3>4
  <2>4. QED BY <2>2, <2>3
<1>11. CASE Checkpoint(t)
  <2> DEFINE m == [r0 EXCEPT !.step = x.cur, !.known = x.known]
             p == [m EXCEPT !.state = "paused", !.pauseNext = FALSE]
             y == [x EXCEPT !.pc = "moved", !.pausing = Pausing(t)]
  <2>1. x.pc = "checkpoint" /\ x.cur = ResumeAt(r0) + 1
    BY <1>11 DEF Checkpoint, At, InPlace
  <2>2. Pausing(t) \in BOOLEAN
    BY <1>2 DEF Pausing, Rows
  <2>3. /\ y \in TaskRecs /\ y.job = j /\ y.key = x.key /\ y.known = x.known
        /\ y.pc = "moved" /\ y.cur = x.cur
    BY <1>2, <2>2 DEF TaskRecs, Pcs
  <2>4. m \in Rows /\ m.step = x.cur /\ m.known = x.known
    BY <1>2, <1>4 DEF Rows
  <2>5. p \in Rows /\ p.step = x.cur /\ p.known = x.known
    BY <2>4 DEF Rows, RowStates
  <2>6. \A r : r.step = x.cur => ResumeAt(r) = x.cur
    BY <1>4, <2>1 DEF ResumeAt, None
  <2>7. x.cur = NextPlace(ResumeAt(r0))
    BY <1>4, <2>1, StepsAssumption DEF NextPlace
  <2>8. InPlace(y, m) /\ InPlace(y, p)
    BY <2>3, <2>4, <2>5, <2>6 DEF InPlace
  <2>9. SetTask(t, y) /\ (row' = [row EXCEPT ![j] = m] \/ row' = [row EXCEPT ![j] = p])
    BY <1>11 DEF Checkpoint, SetRow
  <2>10. Good(y, m) /\ Good(y, p)
    BY <1>4, <2>3, <2>4, <2>5, <2>6, <2>7, <2>8
  <2> HIDE DEF y, m, p, Good
  <2>11. QED BY <2>9, <2>10
<1>12. CASE Finish(t)
  <2> DEFINE r == [r0 EXCEPT !.state = "done", !.step = None, !.known = x.known,
                             !.waiting = FALSE, !.pauseNext = FALSE]
             y == [x EXCEPT !.pc = "finished"]
  <2>1. x.pc = "finish" /\ x.cur = None /\ ResumeAt(r0) = NSteps
    BY <1>12 DEF Finish, At, InPlace
  <2>2. /\ y \in TaskRecs /\ y.job = j /\ y.key = x.key /\ y.known = x.known
        /\ y.pc = "finished" /\ y.cur = x.cur
    BY <1>2 DEF TaskRecs, Pcs
  <2>3. r \in Rows /\ r.step = None /\ r.known = x.known
    BY <1>2, <1>4, Zero DEF Rows, RowStates
  <2>4. ResumeAt(r) = NextPlace(ResumeAt(r0))
    BY <1>4, <2>1, <2>3, StepsAssumption DEF ResumeAt, NextPlace
  <2>5. InPlace(y, r)
    BY <2>1, <2>2, <2>3 DEF InPlace
  <2>6. SetTask(t, y) /\ row' = [row EXCEPT ![j] = r]
    BY <1>12 DEF Finish, SetRow, Goto
  <2> HIDE DEF y, r
  <2>7. QED BY <1>4, <2>2, <2>3, <2>4, <2>5, <2>6
<1>13. CASE RecordFailure(t) \/ RecordInterrupt(t)
  <2>1. PICK r \in Rows : row' = [row EXCEPT ![j] = r] /\ r.step = x.cur /\ r.known = x.known
    <3>1. CASE RecordFailure(t)
      <4>1. [r0 EXCEPT !.state = IF x.attempts >= MaxAttempts THEN "failed" ELSE "queued", !.step = x.cur,
                       !.attempts = x.attempts, !.known = x.known, !.waiting = ~(x.attempts >= MaxAttempts)]
              \in Rows
        BY <1>2, <1>4 DEF Rows, RowStates
      <4>2. QED BY <1>2, <3>1, <4>1 DEF RecordFailure, SetRow, Rows
    <3>2. CASE RecordInterrupt(t)
      <4>1. [r0 EXCEPT !.state = x.to, !.step = x.cur, !.known = x.known] \in Rows
        BY <1>2, <1>4 DEF Rows, RowStates, TaskRecs
      <4>2. QED BY <1>2, <3>2, <4>1 DEF RecordInterrupt, SetRow, Rows
    <3>3. QED BY <1>13, <3>1, <3>2
  <2>2. SetTask(t, Over(x))
    BY <1>13 DEF RecordFailure, RecordInterrupt, End
  <2>3. x.pc \in {"fail", "interrupt"}
    BY <1>13 DEF RecordFailure, RecordInterrupt, At
  <2>4. ResumeAt(r) \in {ResumeAt(r0), NextPlace(ResumeAt(r0))}
    BY <1>4, <2>1, <2>3, StepsAssumption DEF InPlace, ResumeAt, NextPlace, None
  <2>5. InPlace(Over(x), r)
    BY <1>2, OverType DEF InPlace
  <2>6. QED BY <1>2, <1>4, <2>1, <2>2, <2>4, <2>5, OverType
<1>14. CASE StepRaises(t) \/ WriteRaises(t)
  <2>1. PICK n \in Nat : SetTask(t, Failing(t, n)) /\ row' = row
    BY <1>4, <1>14, LimitsAssumption DEF StepRaises, WriteRaises, TaskOnly
  <2>2. /\ Failing(t, n) \in TaskRecs /\ Failing(t, n).job = j /\ Failing(t, n).key = x.key
        /\ Failing(t, n).known = x.known /\ Failing(t, n).pc = "fail" /\ Failing(t, n).cur = x.cur
    BY <1>2 DEF TaskRecs, Pcs, Failing
  <2>3. x.pc \in {"step", "checkpoint", "finish"}
    BY <1>14 DEF StepRaises, WriteRaises, At
  <2>4. InPlace(Failing(t, n), r0)
    BY <2>2, <2>3 DEF InPlace
  <2>5. QED BY <1>2, <1>3, <2>1, <2>2, <2>4
<1>15. QED
  BY <1>7, <1>8, <1>9, <1>10, <1>11, <1>12, <1>13, <1>14 DEF BodyStep, TaskFails

LEMMA SafeInit == Init => SafeInv
<1> SUFFICES ASSUME Init PROVE SafeInv
  OBVIOUS
<1>1. TypeInv
  BY TypeInit
<1>2. Mine = {}
  BY DEF Init, Live, Mine
<1>3. KnownVods /\ ClaimOK
  BY <1>2 DEF Init, KnownVods, ClaimOK, WithVod
<1>4. QED BY <1>1, <1>2, <1>3 DEF SafeInv, Owned, OneLive, Places

\* Cancelling some of the live tasks disturbs no place.
LEMMA CancelSafe ==
  ASSUME SafeInv, NEW S \in SUBSET Live, NEW to \in {"queued", "cancelled"},
         task' = [t \in Tasks |-> IF t \in S THEN Cancelled(task[t], to) ELSE task[t]],
         UNCHANGED <<row, running>>, claim' \in {claim, NoClaim}, TypeInv'
  PROVE  /\ SafeInv'
         /\ Live' = Live
         /\ \A t \in Live : task'[t].job = task[t].job /\ (task'[t].pc \in Working => task[t].pc \in Working)
<1>1. \A t \in Tasks : task'[t] = IF t \in S THEN Cancelled(task[t], to) ELSE task[t]
  OBVIOUS
<1>2. Live' = Live
  BY CancelSome DEF SafeInv
<1>3. \A t \in Live : task[t] \in TaskRecs
  BY LiveTask DEF SafeInv, TypeInv, Live
<1>4. ASSUME NEW x \in TaskRecs, NEW r, InPlace(x, r) PROVE InPlace(Cancelled(x, to), r)
  <2>1. CASE Cancelled(x, to).pc = "ended"
    BY <2>1 DEF InPlace
  <2>2. CASE /\ Cancelled(x, to).pc = "interrupt" /\ Cancelled(x, to).cur = x.cur
             /\ x.pc \in Working \ {"new", "fail"}
    BY <1>4, <2>2 DEF InPlace, Working, Pcs
  <2>3. QED BY <2>1, <2>2, CancelledType
<1>5. \A t \in Live : /\ task'[t].job = task[t].job /\ task'[t].key = task[t].key
                      /\ task'[t].known = task[t].known
                      /\ task'[t].pc \in Working => task[t].pc \in Working
                      /\ \A r : InPlace(task[t], r) => InPlace(task'[t], r)
  <2> TAKE t \in Live
  <2>1. t \in Tasks /\ task[t] \in TaskRecs
    BY <1>3 DEF Live
  <2>2. CASE t \in S
    BY <1>1, <1>4, <2>1, <2>2, CancelledType DEF Working
  <2>3. CASE t \notin S
    BY <1>1, <2>1, <2>3
  <2>4. QED BY <2>2, <2>3
<1>m. Mine' = Mine /\ Mine \subseteq Live
  BY <1>2, <1>5 DEF Mine
<1>6. KnownVods' /\ ClaimOK'
  <2>1. claim' = NoClaim \/ claim' = claim
    OBVIOUS
  <2>2. row' = row
    OBVIOUS
  <2>3. KnownVods'
    BY <1>m, <1>5, <2>1, <2>2 DEF SafeInv, KnownVods
  <2>4. ClaimOK'
    BY <1>m, <1>5, <2>1, <2>2 DEF SafeInv, ClaimOK
  <2>5. QED BY <2>3, <2>4
<1>7. Owned' /\ OneLive'
  <2>1. running' = running
    OBVIOUS
  <2>2. Owned'
    BY <1>m, <1>5, <2>1 DEF SafeInv, Owned
  <2>3. OneLive'
    <3>1. \A t \in Mine : task'[t].job = task[t].job
      BY <1>m, <1>5
    <3>2. OneLive
      BY DEF SafeInv
    <3>3. QED BY <1>m, <3>1, <3>2 DEF OneLive
  <2>4. QED BY <2>2, <2>3
<1>8. Places'
  BY <1>m, <1>5 DEF SafeInv, Places
<1>9. QED BY <1>2, <1>5, <1>6, <1>7, <1>8 DEF SafeInv

\* Rows written by anyone but a task keep their step and their VOD.
RowsStay == \A j \in Jobs : row'[j].step = row[j].step /\ row'[j].known = row[j].known

LEMMA RowsStaySafe ==
  ASSUME SafeInv, RowsStay, UNCHANGED <<task, running>>, TypeInv',
         \/ claim' \in {claim, NoClaim}
         \/ claim'.job \in WithVod => claim'.known /\ ClaimOK'
  PROVE  SafeInv' /\ \A j \in Jobs : ResumeAt(row'[j]) = ResumeAt(row[j])
<1>1. \A j \in Jobs : ResumeAt(row'[j]) = ResumeAt(row[j])
  BY DEF RowsStay, ResumeAt
<1>2. \A t \in Live : task[t].job \in Jobs
  BY LiveTask DEF SafeInv, TypeInv, Live
<1>3. Mine' = Mine /\ Mine \subseteq Live /\ WithVod \subseteq Jobs
  BY DEF Live, Mine, WithVod
<1>4. KnownVods'
  BY <1>3 DEF RowsStay, SafeInv, KnownVods
<1>5. ClaimOK'
  <2>1. claim # NoClaim => claim.job \in Jobs
    BY DEF SafeInv, TypeInv, TypeOK, Claims
  <2>2. CASE claim' \in {claim, NoClaim}
    BY <1>1, <1>3, <2>1, <2>2 DEF SafeInv, ClaimOK
  <2>3. QED BY <2>2 DEF ClaimOK
<1>6. Owned' /\ OneLive'
  BY <1>3 DEF SafeInv, Owned, OneLive
<1>7. \A t \in Mine : row'[task[t].job].step = row[task[t].job].step
  BY <1>2, <1>3 DEF RowsStay
<1>8. Places'
  BY <1>1, <1>2, <1>3, <1>7 DEF SafeInv, Places, InPlace
<1>9. QED BY <1>1, <1>4, <1>5, <1>6, <1>8 DEF SafeInv

\* What an admin request, a backoff, a pick's commit and a restart do to the rows.
LEMMA OthersStay ==
  ASSUME TypeOK,
         \/ \E j \in Jobs : Claim(j) \/ BackoffEnds(j)
         \/ \E c \in Callers : WriteRow(c) \/ \E op \in Ops, j \in Jobs : ReadRow(c, op, j)
         \/ Boot
  PROVE  RowsStay /\ UNCHANGED <<task, running>>
<1>1. ASSUME NEW j \in Jobs, Claim(j) \/ BackoffEnds(j) PROVE RowsStay /\ UNCHANGED <<task, running>>
  <2>1. row[j] \in Rows
    BY DEF TypeOK
  <2>2. PICK r : row' = [row EXCEPT ![j] = r] /\ r.step = row[j].step /\ r.known = row[j].known
    <3>1. CASE Claim(j)
      BY <2>1, <3>1 DEF Claim, SetRow, Rows
    <3>2. CASE BackoffEnds(j)
      BY <2>1, <3>2 DEF BackoffEnds, SetRow, Rows
    <3>3. QED BY <1>1, <3>1, <3>2
  <2>3. UNCHANGED <<task, running>>
    BY <1>1 DEF Claim, BackoffEnds
  <2>4. QED BY <2>2, <2>3 DEF RowsStay, TypeOK
<1>2. ASSUME NEW c \in Callers, WriteRow(c) PROVE RowsStay /\ UNCHANGED <<task, running>>
  <2>1. call[c].job \in Jobs /\ call[c].op \in AllOps /\ call[c].seen \in Rows
    BY <1>2 DEF WriteRow, TypeOK, Calls
  <2>2. PICK want \in Wanted(call[c].op, call[c].seen) :
          row' = [row EXCEPT ![call[c].job] = Updated(row[call[c].job], call[c].seen, want)]
    BY <1>2 DEF WriteRow, SetRow
  <2>3. /\ Updated(row[call[c].job], call[c].seen, want).step = row[call[c].job].step
        /\ Updated(row[call[c].job], call[c].seen, want).known = row[call[c].job].known
    BY <2>1, UpdatedType DEF TypeOK
  <2>4. QED BY <1>2, <2>1, <2>2, <2>3 DEF RowsStay, WriteRow, TypeOK
<1>3. ASSUME NEW c \in Callers, NEW op \in Ops, NEW j \in Jobs, ReadRow(c, op, j)
      PROVE  RowsStay /\ UNCHANGED <<task, running>>
  BY <1>3 DEF ReadRow, RowsStay
<1>4. ASSUME Boot PROVE RowsStay /\ UNCHANGED <<task, running>>
  BY <1>4 DEF Boot, RowsStay, TypeOK, Rows
<1>5. QED BY <1>1, <1>2, <1>3, <1>4

----------------------------------------------------------------------------
(* The rows and tasks implement DurableJob, step by step.                   *)

Place  == [j \in WithVod |-> ResumeAt(row[j])]
Worked == [j \in WithVod |-> \E t \in Tasks : Active(t) /\ task[t].job = j]

\* Tasks that stop working, one or many, while no row moves: DurableJob's Leave.
LEMMA AbsLeave ==
  ASSUME Place' = Place, \A j \in WithVod : Worked'[j] => Worked[j]
  PROVE  Durable!Next
<1>1. Worked' \in [WithVod -> BOOLEAN]
  BY DEF Worked
<1>2. Durable!Leave
  BY <1>1 DEF Durable!Leave, Place, Worked
<1>3. QED BY <1>2 DEF Durable!Next

\* A task for a job whose VOD no active task has: DurableJob's Begin.
LEMMA AbsBegin ==
  ASSUME NEW i \in WithVod, Place' = Place, Worked' = [Worked EXCEPT ![i] = TRUE],
         \A k \in WithVod : VodKey[k] = VodKey[i] => ~Worked[k]
  PROVE  Durable!Next
<1>1. Durable!Begin(i)
  BY DEF Durable!Begin, Place, Worked
<1>2. QED BY <1>1 DEF Durable!Next

\* A task that records its place one step on, and works on or not: DurableJob's Pass.
LEMMA AbsPass ==
  ASSUME NEW i \in WithVod, Worked[i], Place' = [Place EXCEPT ![i] = NextPlace(Place[i])],
         Worked' \in {Worked, [Worked EXCEPT ![i] = FALSE]}
  PROVE  Durable!Next
<1>1. NextPlace(Place[i]) = Durable!NextStep(i)
  BY DEF Durable!NextStep, NextPlace, Place
<1>2. Durable!Pass(i)
  BY <1>1 DEF Durable!Pass, Place, Worked
<1>3. QED BY <1>2 DEF Durable!Next

LEMMA AbsInit == Init => Durable!Init
<1> SUFFICES ASSUME Init PROVE Durable!Init
  OBVIOUS
<1>1. \A j \in WithVod : ResumeAt(row[j]) = 1
  BY DEF Init, ResumeAt, WithVod
<1>2. \A j \in WithVod : ~\E t \in Tasks : Active(t) /\ task[t].job = j
  BY DEF Init, Active, Live
<1>3. QED BY <1>1, <1>2 DEF Durable!Init

\* Who works at a step's two ends, one job at a time.
LEMMA WorkedAt ==
  /\ Worked = [k \in WithVod |-> Worked[k]] /\ Worked' = [k \in WithVod |-> Worked'[k]]
  /\ \A k \in WithVod :
       /\ Worked[k] \in BOOLEAN /\ Worked'[k] \in BOOLEAN
       /\ Worked[k] <=> (\E t \in Tasks : Active(t) /\ task[t].job = k)
       /\ Worked'[k] <=> (\E t \in Tasks : Active(t)' /\ task'[t].job = k)
  BY DEF Worked

Stutters == Place' = Place /\ Worked' = Worked

LEMMA StuttersStep == ASSUME Stutters PROVE UNCHANGED Durable!abstractVars
  BY DEF Stutters, Durable!abstractVars, Place, Worked

\* Whatever else happens, if it is not to these jobs, their rows or their tasks.
LEMMA OthersOnly ==
  ASSUME SafeInv, TypeInv', Mine' = Mine, \A t \in Mine : task'[t] = task[t],
         \A j \in WithVod : row'[j] = row[j] /\ running'[j] = running[j],
         claim' \in {claim, NoClaim}
  PROVE  SafeInv' /\ Stutters
<1>1. Mine \subseteq Tasks /\ \A t \in Mine : task[t].job \in WithVod
  BY DEF Mine, Live
<1>2. KnownVods' /\ Owned' /\ OneLive' /\ Places'
  BY <1>1 DEF SafeInv, KnownVods, Owned, OneLive, Places
<1>3. ClaimOK'
  <2>1. CASE claim' = NoClaim
    BY <2>1 DEF ClaimOK
  <2>2. CASE claim' = claim
    BY <1>1, <2>2 DEF SafeInv, ClaimOK
  <2>3. QED BY <2>1, <2>2
<1>4. \A k \in WithVod : (\E t \in Tasks : Active(t)' /\ task'[t].job = k)
                         <=> (\E t \in Tasks : Active(t) /\ task[t].job = k)
  <2>1. \A t \in Tasks : Active(t)' /\ task'[t].job \in WithVod <=> t \in Mine' /\ task'[t].pc \in Working
    BY DEF Active, Mine, Live
  <2>2. \A t \in Tasks : Active(t) /\ task[t].job \in WithVod <=> t \in Mine /\ task[t].pc \in Working
    BY DEF Active, Mine, Live
  <2>3. QED BY <2>1, <2>2
<1>5. Stutters
  BY <1>4 DEF Stutters, Place, Worked
<1>6. QED BY <1>2, <1>3, <1>5 DEF SafeInv

LEMMA SafeStep ==
  ASSUME SafeInv, [Next]_vars
  PROVE  SafeInv' /\ [Durable!Next]_(Durable!abstractVars)
<1> USE DEF SafeInv
<1> DEFINE Refines == [Durable!Next]_(Durable!abstractVars)
<1> HIDE DEF Refines
<1>0. TypeInv' /\ TypeOK
  BY TypeStep DEF TypeInv
<1>a. Stutters => Refines
  BY StuttersStep DEF Refines
<1>b. Durable!Next => Refines
  BY DEF Refines
<1>c. \A t \in Live : t \in Tasks /\ task[t] \in TaskRecs /\ task[t].job \in Jobs
  BY <1>0, LiveTask DEF Live
<1>d. Mine \subseteq Live /\ WithVod \subseteq Jobs /\ \A t \in Live : t \in Mine <=> task[t].job \in WithVod
  BY DEF Mine, WithVod
<1>1. ASSUME NEW j \in Jobs, Claim(j) PROVE SafeInv' /\ Refines
  <2>1. RowsStay /\ UNCHANGED <<task, running>>
    BY <1>0, <1>1, OthersStay
  <2>2. claim'.job = j /\ claim'.cur = ResumeAt(row[j]) /\ (j \in WithVod => claim'.known)
    BY <1>1 DEF Claim, KnownVods
  <2>3. j \in WithVod => \A t \in Mine : VodKey[task[t].job] # VodKey[j]
    <3>1. j \in WithVod => VodKey[j] \notin Busy
      BY <1>1 DEF Claim, Pickable, Key, KnownVods
    <3>2. \A t \in Mine : running[task[t].job] # NoTask
      BY <1>c, <1>d, NullsAssumption DEF Owned
    <3>3. \A t \in Mine : VodKey[task[t].job] \in Busy
      BY <1>c, <1>d, <3>2 DEF Owned, Busy
    <3>4. QED BY <3>1, <3>3
  <2>4. ClaimOK'
    BY <2>1, <2>2, <2>3 DEF ClaimOK, RowsStay, ResumeAt, Live, Mine
  <2>5. SafeInv' /\ \A k \in Jobs : ResumeAt(row'[k]) = ResumeAt(row[k])
    BY <1>0, <2>1, <2>2, <2>4, RowsStaySafe
  <2>6. Stutters
    BY <1>d, <2>1, <2>5 DEF Stutters, Place, Worked, Active, Live
  <2>7. QED BY <1>a, <2>5, <2>6
<1>2. ASSUME Register PROVE SafeInv' /\ Refines
  <2>0. FreeTask \in Tasks /\ task[FreeTask] = NoTask
    BY <1>2, FreeTaskFree DEF Register
  <2>1. PICK f \in Tasks : f = FreeTask /\ task[f] = NoTask
    BY <2>0
  <2>i. PICK i : i = claim.job
    OBVIOUS
  <2>2. claim # NoClaim /\ claim \in Claims /\ i \in Jobs /\ (i \in WithVod => claim.known = TRUE)
    BY <1>0, <1>2, <2>i DEF Register, TypeOK, Claims, KnownVods
  <2> DEFINE y == [pc |-> "new", job |-> claim.job, cur |-> claim.cur, attempts |-> claim.attempts,
                   own |-> claim.own, known |-> claim.known, pausing |-> FALSE, to |-> "queued",
                   key |-> Key(claim.job, claim.known)]
  <2>3. /\ task' = [task EXCEPT ![f] = y]
        /\ y.pc = "new" /\ y.job = i /\ y.cur = claim.cur /\ y.known = claim.known
        /\ y.key = Key(i, claim.known)
    BY <1>2, <2>1, <2>i DEF Register, SetTask
  <2> HIDE DEF y
  <2>4. running' = [running EXCEPT ![i] = f] /\ claim' = NoClaim /\ row' = row
    BY <1>2, <2>1, <2>i DEF Register
  <2>5. task'[f] = y /\ \A t \in Tasks \ {f} : task'[t] = task[t]
    BY <1>0, <2>1, <2>3 DEF TypeOK
  <2>7. Live' = Live \cup {f} /\ f \notin Live
    <3>1. y # NoTask
      BY <1>0, <2>1, <2>2, <2>4, <2>5, NullsAssumption DEF TypeInv, RegistryOK, TypeOK, Live
    <3>2. QED BY <2>1, <2>5, <3>1 DEF Live
  <2>10. running'[i] = f /\ \A k \in Jobs \ {i} : running'[k] = running[k]
    BY <1>0, <2>2, <2>4 DEF TypeOK
  <2>9. \A t \in Live : task'[t] = task[t]
    BY <1>c, <2>5, <2>7
  <2>l. CASE i \notin WithVod
    <3>1. Mine' = Mine
      BY <2>3, <2>5, <2>7, <2>9, <2>l DEF Mine
    <3>2. /\ \A t \in Mine : task'[t] = task[t]
          /\ \A k \in WithVod : row'[k] = row[k] /\ running'[k] = running[k]
      BY <1>d, <2>4, <2>9, <2>10, <2>l
    <3>3. QED BY <1>0, <1>a, <2>4, <3>1, <3>2, OthersOnly
  <2>w. SUFFICES ASSUME i \in WithVod PROVE SafeInv' /\ Refines
    BY <2>l
  <2>6. y.key = VodKey[i]
    BY <2>2, <2>3, <2>w DEF Key
  <2>m. Mine' = Mine \cup {f} /\ f \notin Mine
    BY <2>3, <2>5, <2>7, <2>9, <2>w DEF Mine
  <2>8. \A t \in Mine : /\ VodKey[task[t].job] # VodKey[i] /\ task[t].job # i
                         /\ task'[t] = task[t] /\ running'[task[t].job] = running[task[t].job]
    BY <1>c, <1>d, <2>2, <2>9, <2>10, <2>i, <2>w DEF ClaimOK
  <2>11. KnownVods' /\ ClaimOK'
    BY <2>2, <2>3, <2>4, <2>5, <2>m, <2>8, <2>w DEF KnownVods, ClaimOK
  <2>12. Owned'
    BY <2>3, <2>5, <2>6, <2>m, <2>8, <2>10 DEF Owned
  <2>13. OneLive'
    BY <2>3, <2>5, <2>m, <2>8 DEF OneLive
  <2>14. InPlace(y, row[i])
    BY <2>2, <2>3, <2>i, <2>w DEF InPlace, ClaimOK
  <2>15. Places'
    BY <2>3, <2>4, <2>5, <2>m, <2>8, <2>14 DEF Places
  <2>16. Place' = Place
    BY <2>4 DEF Place
  <2>17. \A k \in WithVod : VodKey[k] = VodKey[i] => ~Worked[k]
    BY <2>8 DEF Worked, Active, Mine
  <2>18. Worked' = [Worked EXCEPT ![i] = TRUE]
    <3>1. Active(f)' /\ task'[f].job = i
      BY <2>3, <2>5, <2>7 DEF Active, Working, Pcs
    <3>2. \A t \in Tasks \ {f} : Active(t)' <=> Active(t)
      BY <2>5, <2>7 DEF Active
    <3>3. ~Active(f)
      BY <2>7 DEF Active
    <3>4. \A k \in WithVod \ {i} : (\E t \in Tasks : Active(t)' /\ task'[t].job = k)
                               <=> (\E t \in Tasks : Active(t) /\ task[t].job = k)
      BY <2>5, <3>1, <3>2, <3>3
    <3>5. Worked'[i] = TRUE
      BY <2>1, <2>w, <3>1, WorkedAt
    <3>6. \A k \in WithVod \ {i} : Worked'[k] = Worked[k]
      BY <3>4, WorkedAt
    <3>7. QED BY <2>w, <3>5, <3>6, WorkedAt
  <2>19. Durable!Next
    BY <2>w, <2>16, <2>17, <2>18, AbsBegin
  <2>20. QED BY <1>0, <1>b, <2>11, <2>12, <2>13, <2>15, <2>19
<1>3. ASSUME NEW t \in Tasks, BodyStep(t) PROVE SafeInv' /\ Refines
  <2> DEFINE i == task[t].job
  <2>1. t \in Live /\ UNCHANGED <<running, claim>>
    BY <1>0, <1>3, BodyStepType
  <2>2. i \in Jobs /\ row[i] \in Rows
    BY <1>0, <1>c, <2>1 DEF TypeOK
  <2>l. CASE i \notin WithVod
    <3>1. PICK y \in TaskRecs : SetTask(t, y) /\ y.job = i
      BY <1>0, <1>3, BodyStepType
    <3>2. task'[t] = y /\ y # NoTask /\ \A u \in Tasks \ {t} : task'[u] = task[u]
      BY <1>0, <2>1, <3>1, NullsAssumption DEF TypeOK, SetTask
    <3>3. \A k \in Jobs \ {i} : row'[k] = row[k]
      BY <1>0, <1>3, <2>2, BodyStepType DEF TypeOK, SetRow
    <3>4. Live' = Live
      BY <2>1, <3>2 DEF Live
    <3>5. Mine' = Mine /\ t \notin Mine
      BY <1>c, <2>l, <3>1, <3>2, <3>4 DEF Mine
    <3>6. /\ \A u \in Mine : task'[u] = task[u]
          /\ \A k \in WithVod : row'[k] = row[k] /\ running'[k] = running[k]
      BY <1>c, <1>d, <2>1, <2>l, <3>2, <3>3, <3>5
    <3>7. QED BY <1>0, <1>a, <2>1, <3>5, <3>6, OthersOnly
  <2>w. SUFFICES ASSUME i \in WithVod PROVE SafeInv' /\ Refines
    BY <2>l
  <2>t. t \in Mine
    BY <2>1, <2>w DEF Mine
  <2>3. PICK y \in TaskRecs, r \in Rows :
          /\ SetTask(t, y) /\ y.job = i /\ y.key = task[t].key /\ y.known
          /\ row' = [row EXCEPT ![i] = r] /\ r.known
          /\ InPlace(y, r)
          /\ ResumeAt(r) \in {ResumeAt(row[i]), NextPlace(ResumeAt(row[i]))}
          /\ task[t].pc \in Working
    BY <1>0, <1>3, <2>t, <2>w, BodyStepPlace DEF KnownVods, Places
  <2>4. task'[t] = y /\ \A u \in Tasks \ {t} : task'[u] = task[u]
    BY <1>0, <2>3 DEF TypeOK, SetTask
  <2>5. row'[i] = r /\ \A k \in Jobs \ {i} : row'[k] = row[k]
    BY <1>0, <2>2, <2>3 DEF TypeOK
  <2>6. Live' = Live
    BY <2>1, <2>4, NullsAssumption DEF Live
  <2>m. Mine' = Mine
    BY <1>c, <2>3, <2>4, <2>6 DEF Mine
  <2>7. \A u \in Mine : task'[u].job = task[u].job /\ task'[u].key = task[u].key
    BY <1>c, <1>d, <2>3, <2>4
  <2>8. \A u \in Mine \ {t} : task[u].job # i
    BY <2>t DEF OneLive
  <2>9. KnownVods'
    BY <1>c, <1>d, <2>1, <2>3, <2>4, <2>5, <2>m DEF KnownVods
  <2>10. Owned' /\ OneLive'
    BY <2>1, <2>m, <2>7 DEF Owned, OneLive
  <2>11. ClaimOK'
    <3>1. claim # NoClaim /\ claim.job \in WithVod => claim.job \in WithVod \ {i}
      BY <2>t DEF ClaimOK
    <3>2. QED BY <1>d, <2>1, <2>5, <2>m, <2>7, <3>1 DEF ClaimOK
  <2>12. Places'
    BY <1>c, <1>d, <2>3, <2>4, <2>5, <2>m, <2>8 DEF Places
  <2>13. \A u \in Tasks \ {t} : Active(u)' <=> Active(u)
    BY <2>4, <2>6 DEF Active
  <2>14. Worked[i] /\ Active(t)
    BY <2>1, <2>w, <2>3 DEF Worked, Active
  <2>15. \A k \in WithVod \ {i} : Worked'[k] = Worked[k]
    <3>1. \A k \in WithVod \ {i} : (\E u \in Tasks : Active(u)' /\ task'[u].job = k)
                               <=> (\E u \in Tasks : Active(u) /\ task[u].job = k)
      BY <2>3, <2>4, <2>13
    <3>2. QED BY <3>1, WorkedAt
  <2>16. Worked'[i] \in BOOLEAN
    BY <2>w, WorkedAt
  <2>17. Worked' \in {Worked, [Worked EXCEPT ![i] = FALSE]}
    <3>1. CASE Worked'[i] = TRUE
      BY <2>w, <2>14, <2>15, <3>1, WorkedAt
    <3>2. CASE Worked'[i] = FALSE
      BY <2>w, <2>15, <3>2, WorkedAt
    <3>3. QED BY <2>16, <3>1, <3>2
  <2>18. Place' = [Place EXCEPT ![i] = ResumeAt(r)]
    BY <1>d, <2>w, <2>5 DEF Place
  <2>19. CASE ResumeAt(r) = ResumeAt(row[i])
    <3>1. Place' = Place
      BY <2>w, <2>18, <2>19 DEF Place
    <3>2. \A k \in WithVod : Worked'[k] => Worked[k]
      BY <2>14, <2>15
    <3>3. QED BY <1>0, <1>b, <2>9, <2>10, <2>11, <2>12, <3>1, <3>2, AbsLeave
  <2>20. CASE ResumeAt(r) = NextPlace(ResumeAt(row[i]))
    <3>1. Place' = [Place EXCEPT ![i] = NextPlace(Place[i])]
      BY <2>w, <2>18, <2>20 DEF Place
    <3>2. QED BY <1>0, <1>b, <2>w, <2>9, <2>10, <2>11, <2>12, <2>14, <2>17, <3>1, AbsPass
  <2>21. QED BY <2>3, <2>19, <2>20
<1>4. ASSUME NEW t \in Tasks, Done(t) PROVE SafeInv' /\ Refines
  <2> DEFINE i == task[t].job
  <2>1. t \in Live /\ i \in Jobs /\ task[t].pc = "ended"
    BY <1>4, <1>c DEF Done, At, Live
  <2>2. /\ running' = [running EXCEPT ![i] = NoTask] /\ task' = [task EXCEPT ![t] = NoTask]
        /\ UNCHANGED <<row, claim>>
    BY <1>4 DEF Done, SetTask
  <2>3. Live' = Live \ {t} /\ \A u \in Tasks \ {t} : task'[u] = task[u]
    BY <1>0, <2>1, <2>2 DEF Live, TypeOK
  <2>r. \A k \in Jobs \ {i} : running'[k] = running[k]
    BY <1>0, <2>1, <2>2 DEF TypeOK
  <2>l. CASE i \notin WithVod
    <3>1. Mine' = Mine /\ t \notin Mine /\ Mine \subseteq Tasks
      BY <1>c, <2>3, <2>l DEF Mine, Live
    <3>2. /\ \A u \in Mine : task'[u] = task[u]
          /\ \A k \in WithVod : row'[k] = row[k] /\ running'[k] = running[k]
      BY <1>d, <2>2, <2>3, <2>l, <2>r, <3>1
    <3>3. QED BY <1>0, <1>a, <2>2, <3>1, <3>2, OthersOnly
  <2>w. SUFFICES ASSUME i \in WithVod PROVE SafeInv' /\ Refines
    BY <2>l
  <2>m. t \in Mine /\ Mine' = Mine \ {t} /\ Mine \subseteq Tasks
    BY <2>1, <2>3, <2>w DEF Mine, Live
  <2>4. \A u \in Mine' : task[u].job # i /\ task'[u] = task[u]
    BY <2>3, <2>m DEF OneLive
  <2>5. \A u \in Mine' : running'[task[u].job] = running[task[u].job]
    BY <1>c, <1>d, <2>m, <2>4, <2>r
  <2>6. KnownVods' /\ ClaimOK'
    BY <2>2, <2>m, <2>4 DEF KnownVods, ClaimOK
  <2>7. Owned' /\ OneLive'
    BY <2>m, <2>4, <2>5 DEF Owned, OneLive
  <2>8. Places'
    BY <2>2, <2>m, <2>4 DEF Places
  <2>9. \A u \in Tasks : Active(u)' <=> Active(u)
    BY <2>1, <2>3 DEF Active, Working, Live
  <2>10. \A u \in Tasks : Active(u) => task'[u] = task[u]
    BY <2>1, <2>3 DEF Active, Working
  <2>11. Stutters
    <3>1. Place' = Place
      BY <2>2 DEF Place
    <3>2. \A k \in WithVod : (\E u \in Tasks : Active(u)' /\ task'[u].job = k)
                            <=> (\E u \in Tasks : Active(u) /\ task[u].job = k)
      BY <2>9, <2>10
    <3>3. QED BY <3>1, <3>2 DEF Worked, Stutters
  <2>12. QED BY <1>0, <1>a, <2>6, <2>7, <2>8, <2>11
<1>5. ASSUME \/ \E j \in Jobs : BackoffEnds(j)
             \/ \E c \in Callers : WriteRow(c) \/ \E op \in Ops, j \in Jobs : ReadRow(c, op, j)
             \/ Boot
      PROVE  SafeInv' /\ Refines
  <2>1. RowsStay /\ UNCHANGED <<task, running>>
    BY <1>0, <1>5, OthersStay
  <2>2. claim' = claim
    BY <1>5 DEF BackoffEnds, WriteRow, ReadRow, Boot
  <2>3. SafeInv' /\ \A k \in Jobs : ResumeAt(row'[k]) = ResumeAt(row[k])
    BY <1>0, <2>1, <2>2, RowsStaySafe
  <2>4. Stutters
    BY <1>d, <2>1, <2>3 DEF Stutters, Place, Worked, Active, Live
  <2>5. QED BY <1>a, <2>3, <2>4
<1>6. ASSUME \/ \E c \in Callers : CancelTask(c)
             \/ Stop
             \/ LoopStops
      PROVE  SafeInv' /\ Refines
  <2>1. PICK S \in SUBSET Live, to \in {"queued", "cancelled"} :
          task' = [t \in Tasks |-> IF t \in S THEN Cancelled(task[t], to) ELSE task[t]]
    <3>1. ASSUME NEW c \in Callers, CancelTask(c)
          PROVE \E S \in SUBSET Live :
            task' = [t \in Tasks |-> IF t \in S THEN Cancelled(task[t], "cancelled") ELSE task[t]]
      <4> DEFINE u == running[call[c].job]
                 S == IF u = NoTask THEN {} ELSE {u}
      <4>1. call[c].job \in Jobs
        BY <1>0, <3>1 DEF CancelTask, TypeOK, Calls
      <4>2. S \subseteq Live
        BY <4>1 DEF TypeInv, RegistryOK
      <4>3. task' = [t \in Tasks |-> IF t \in S THEN Cancelled(task[t], "cancelled") ELSE task[t]]
        BY <1>0, <3>1, <4>1, <4>2 DEF CancelTask, TypeOK, Live
      <4>4. QED BY <4>2, <4>3
    <3>2. Registered \subseteq Live
      BY DEF Registered, TypeInv, RegistryOK
    <3>3. QED BY <1>6, <3>1, <3>2 DEF Stop, LoopStops, CancelAll
  <2>2. UNCHANGED <<row, running>> /\ claim' \in {claim, NoClaim}
    BY <1>6 DEF CancelTask, Stop, LoopStops
  <2>3. /\ SafeInv' /\ Live' = Live
        /\ \A t \in Live : /\ task'[t].job = task[t].job
                           /\ task'[t].pc \in Working => task[t].pc \in Working
    BY <1>0, <2>1, <2>2, CancelSafe
  <2>4. \A t \in Tasks : Active(t)' => Active(t) /\ task'[t].job = task[t].job
    BY <2>3 DEF Active
  <2>5. \A k \in WithVod : Worked'[k] => Worked[k]
    BY <2>4 DEF Worked
  <2>6. Place' = Place
    BY <2>2 DEF Place
  <2>7. QED BY <1>b, <2>3, <2>5, <2>6, AbsLeave
<1>7. ASSUME Exit \/ Crash PROVE SafeInv' /\ Refines
  <2>1. Gone
    BY <1>7 DEF Exit, Crash
  <2>2. Mine' = {} /\ Live' = {}
    BY <2>1 DEF Gone, Live, Mine
  <2>3. KnownVods' /\ Owned' /\ OneLive' /\ ClaimOK' /\ Places'
    BY <2>1, <2>2 DEF Gone, KnownVods, Owned, OneLive, ClaimOK, Places
  <2>4. Place' = Place /\ \A k \in WithVod : Worked'[k] => Worked[k]
    BY <2>1, <2>2 DEF Gone, Place, Worked, Active
  <2>5. QED BY <1>0, <1>b, <2>3, <2>4, AbsLeave
<1>8. ASSUME UNCHANGED vars PROVE SafeInv' /\ Refines
  <2>1. UNCHANGED <<row, task, running, claim>>
    BY <1>8 DEF vars
  <2>2. RowsStay
    BY <2>1 DEF RowsStay
  <2>3. SafeInv'
    BY <1>0, <2>1, <2>2, RowsStaySafe
  <2>4. Stutters
    BY <2>1 DEF Stutters, Place, Worked, Active, Live
  <2>5. QED BY <1>a, <2>3, <2>4
<1>9. QED
  BY <1>1, <1>2, <1>3, <1>4, <1>5, <1>6, <1>7, <1>8, NextCases DEF Refines

\* One task per VOD and type, whatever admins, shutdowns and crashes do and whatever live jobs run
\* beside (_exclusive_key, Runner._claim): two jobs of one VOD that were queued with it never work
\* at once, and neither does one of them twice.
THEOREM Exclusion == Spec => []OneTaskPerKey
<1>1. SafeInv => OneTaskPerKey
  BY DEF SafeInv, OneLive, OneTaskPerKey, Active, Mine
<1>2. Init => SafeInv
  BY SafeInit
<1>3. SafeInv /\ [Next]_vars => SafeInv'
  BY SafeStep
<1>4. QED BY <1>1, <1>2, <1>3, PTL DEF Spec

\* At every moment the row of a job that was queued with its VOD records where a crash must resume
\* it (Runner._advance): never a step its task has not reached, never one before the last recorded.
THEOREM CrashSafe == Spec => []CrashResumesHere
<1>1. SafeInv => CrashResumesHere
  BY DEF SafeInv, Places, InPlace, CrashResumesHere, Mine
<1>2. Init => SafeInv
  BY SafeInit
<1>3. SafeInv /\ [Next]_vars => SafeInv'
  BY SafeStep
<1>4. QED BY <1>1, <1>2, <1>3, PTL DEF Spec

\* For the jobs that were queued with their VOD the runner implements DurableJob (Runner._run): the
\* steps of such a job pass one by one and in order, by one worker per VOD and type, through every
\* failure, shutdown, crash and admin request, and whatever live jobs run beside.
THEOREM Implements == Spec => ImplementsDurableJob
<1>1. Init => SafeInv /\ Durable!Init
  BY SafeInit, AbsInit
<1>2. SafeInv /\ [Next]_vars => SafeInv' /\ [Durable!Next]_(Durable!abstractVars)
  BY SafeStep
<1>3. QED BY <1>1, <1>2, PTL DEF Spec, ImplementsDurableJob, Durable!Spec
=============================================================================
