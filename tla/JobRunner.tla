------------------------------ MODULE JobRunner ------------------------------
(****************************************************************************)
(* The runner that drains public.jobs (legacy_jobs.py): rows in Postgres,   *)
(* one asyncio task per running job, admin requests that read a row in one  *)
(* await and write it in a later one, and worker shutdowns and crashes.     *)
(*                                                                          *)
(* One action is what the code does between two awaits.  An await on a      *)
(* transaction is two points, before and after its commit, because a task   *)
(* can be cancelled at either.                                              *)
(****************************************************************************)
EXTENDS Naturals, FiniteSets

CONSTANTS
  Jobs,         \* ids of the rows, numbers: the runner picks in id order
  Tasks,        \* names of asyncio tasks, free again once the task is over
  Callers,      \* admin requests in flight
  Ops,          \* what they ask: a subset of AllOps
  NSteps,       \* steps of a job's kind are 1..NSteps
  VodKey,       \* VodKey[j]: "vod_id:type" of job j once its VOD is known
  Late,         \* live jobs: queued before Twitch has their VOD
  ResolveStep,  \* the step of a live job that finds its VOD (resolve_vod)
  ManualSteps,  \* Settings.manual_steps of the kind: steps to pause before
  OwnGates,     \* the pause_before values a row can have
  Inherit,      \* pause_before is NULL: ManualSteps apply
  Concurrency,  \* Settings.runner_concurrency
  MaxAttempts,  \* Settings.max_attempts
  PickLimit,    \* rows one pick looks at (50 in the code)
  NoTask, NoClaim, NoCall,
  MaxCalls,     \* bound: admin requests in a behaviour
  MaxStops,     \* bound: shutdowns and crashes in a behaviour
  MaxFaults     \* bound: database writes of a task that raise in a behaviour

AllOps == {"pause", "resume", "once", "retry", "cancel", "gates"}

ASSUME JobsAssumption == Jobs \subseteq Nat /\ IsFiniteSet(Jobs)
ASSUME StepsAssumption == NSteps \in Nat \ {0} /\ ResolveStep \in 1..NSteps
ASSUME LimitsAssumption ==
  /\ Concurrency \in Nat \ {0} /\ MaxAttempts \in Nat \ {0} /\ PickLimit \in Nat \ {0}
  /\ MaxCalls \in Nat /\ MaxStops \in Nat /\ MaxFaults \in Nat
ASSUME JobDataAssumption ==
  /\ Late \subseteq Jobs /\ Ops \subseteq AllOps
  /\ ManualSteps \subseteq 1..NSteps /\ OwnGates \subseteq SUBSET (1..NSteps)
  /\ DOMAIN VodKey = Jobs
VARIABLES
  row,      \* the jobs table
  task,     \* the asyncio tasks of this process
  running,  \* Runner.running: job -> its task
  claim,    \* the Job that _claim committed as running, before _fill registers its task
  mode,     \* the process: "up", "stopping" (Runner.shutdown), "closing", "down"
  awaited,  \* the tasks Runner.shutdown is waiting for
  call,     \* admin requests between their read and their write
  spent     \* how much of each bound is used

vars == <<row, task, running, claim, mode, awaited, call, spent>>

RowStates == {"queued", "running", "paused", "done", "failed", "cancelled"}
None      == 0                    \* jobs.step is NULL: nothing left to run
Gates     == OwnGates \cup {Inherit}
Keys      == {VodKey[j] : j \in Jobs} \cup {<<j>> : j \in Jobs}
Rows      == [state : RowStates, step : 0..NSteps, attempts : Nat, waiting : BOOLEAN,
              pauseNext : BOOLEAN, own : Gates, known : BOOLEAN]
Claims    == [job : Jobs, cur : 1..NSteps, attempts : Nat, own : Gates, known : BOOLEAN]
Calls     == [op : AllOps, job : Jobs, seen : Rows]

\* Where a task is: "new" (created, not begun), "step" (inside step cur), "checkpoint" (in
\* _advance, cur is the next step), "moved" (_advance committed), "finish" (about to write done),
\* "finished" (done committed), "fail" (in the except Exception handler), "interrupt" (in the
\* except CancelledError handler), "ended" (over; its done callback has not run yet).
Pcs       == {"new", "step", "checkpoint", "moved", "finish", "finished", "fail", "interrupt", "ended"}
Working   == Pcs \ {"ended"}
TaskRecs  == [pc : Pcs, job : Jobs, cur : 0..NSteps, attempts : Nat, own : Gates, known : BOOLEAN,
              pausing : BOOLEAN, to : {"queued", "cancelled"}, key : Keys]
Live      == {t \in Tasks : task[t] # NoTask}

ASSUME NullsAssumption ==
  /\ NoTask \notin Tasks \cup TaskRecs
  /\ NoClaim \notin Claims /\ NoCall \notin Calls
  /\ Inherit \notin OwnGates

----------------------------------------------------------------------------
\* _exclusive_key: the VOD and type once the row has a VOD, else the job itself.
Key(j, known) == IF known THEN VodKey[j] ELSE <<j>>

\* The keys of the registered tasks, as they were when each was claimed.
Busy == {task[running[j]].key : j \in {i \in Jobs : running[i] # NoTask}}

\* Where a run of this row starts: jobs.step, or the first step when it is NULL.
ResumeAt(r) == IF r.step = None THEN 1 ELSE r.step

EffectiveGates(own) == IF own = Inherit THEN ManualSteps ELSE own

Spend(what) == spent' = [spent EXCEPT ![what] = @ + 1]

SetRow(j, r)  == row' = [row EXCEPT ![j] = r]
SetTask(t, x) == task' = [task EXCEPT ![t] = x]
At(t, pc)     == task[t] # NoTask /\ task[t].pc = pc

Init ==
  /\ row = [j \in Jobs |-> [state |-> "queued", step |-> 1, attempts |-> 0, waiting |-> FALSE,
                           pauseNext |-> FALSE, own |-> Inherit, known |-> j \notin Late]]
  /\ task = [t \in Tasks |-> NoTask]
  /\ running = [j \in Jobs |-> NoTask]
  /\ claim = NoClaim /\ mode = "up" /\ awaited = {}
  /\ call = [c \in Callers |-> NoCall]
  /\ spent = [calls |-> 0, stops |-> 0, faults |-> 0]

\* A task that is over: its done callback only needs the job.
Over(x) == [x EXCEPT !.pc = "ended", !.cur = None, !.attempts = 0, !.own = Inherit, !.pausing = FALSE,
                     !.to = "queued"]

\* task.cancel().  Before its first step a task ends without running any of its body; in the
\* failure handler nothing catches the cancellation; a task already interrupted stays so.
Cancelled(x, to) ==
  IF x.pc \in {"new", "fail", "ended"} THEN Over(x)
  ELSE IF x.pc = "interrupt" THEN x
  ELSE [x EXCEPT !.pc = "interrupt", !.to = to, !.pausing = FALSE]

----------------------------------------------------------------------------
(* The runner's loop.  It wakes on a poke and every ten seconds, so a pick  *)
(* is possible whenever the loop is alive, and it is alive until            *)
(* Runner.shutdown returns.                                                 *)

LoopAlive  == mode \in {"up", "stopping"}
Claimable  == {j \in Jobs : row[j].state = "queued" /\ ~row[j].waiting}
InPick     == {j \in Claimable : Cardinality({k \in Claimable : k < j}) < PickLimit}
\* Mutant: a pick that forgets the keys already running.
PickableAll == InPick
Pickable   == {j \in InPick : Key(j, row[j].known) \notin Busy}
HasRoom    == Cardinality({j \in Jobs : running[j] # NoTask}) < Concurrency

Claim(j) ==
  /\ LoopAlive /\ claim = NoClaim /\ HasRoom
  /\ j \in Pickable /\ \A k \in Pickable : j <= k
  /\ SetRow(j, [row[j] EXCEPT !.state = "running"])
  /\ claim' = [job |-> j, cur |-> ResumeAt(row[j]), attempts |-> row[j].attempts,
               own |-> row[j].own, known |-> row[j].known]
  /\ UNCHANGED <<task, running, mode, awaited, call, spent>>

\* Names of tasks are interchangeable: a new task takes any free one.
FreeTask == CHOOSE t \in Tasks : task[t] = NoTask

\* _fill creates the task of the Job object _claim returned; its attempts and pause_before are
\* the ones the pick read.
Register ==
  /\ LoopAlive /\ claim # NoClaim /\ Live # Tasks
  /\ SetTask(FreeTask, [pc |-> "new", job |-> claim.job, cur |-> claim.cur, attempts |-> claim.attempts,
                        own |-> claim.own, known |-> claim.known, pausing |-> FALSE, to |-> "queued",
                        key |-> Key(claim.job, claim.known)])
  /\ running' = [running EXCEPT ![claim.job] = FreeTask]
  /\ claim' = NoClaim
  /\ UNCHANGED <<row, mode, awaited, call, spent>>

\* Mutant: a task with no done callback stays registered.
DoneNotPopped(t) == At(t, "ended") /\ UNCHANGED vars

\* _done: pops whatever task is registered under the job's id.
Done(t) ==
  /\ At(t, "ended")
  /\ running' = [running EXCEPT ![task[t].job] = NoTask]
  /\ SetTask(t, NoTask)
  /\ UNCHANGED <<row, claim, mode, awaited, call, spent>>

----------------------------------------------------------------------------
(* A task: Runner._run.                                                     *)

Goto(t, pc) == SetTask(t, [task[t] EXCEPT !.pc = pc])
End(t)      == SetTask(t, Over(task[t]))
TaskOnly    == UNCHANGED <<row, running, claim, mode, awaited, call, spent>>

Start(t) == At(t, "new") /\ Goto(t, "step") /\ TaskOnly

\* resolve_vod puts the VOD id in the job's context; the row has it from the next write on.
ResolveVod(t) ==
  /\ At(t, "step") /\ task[t].cur = ResolveStep /\ ~task[t].known
  /\ SetTask(t, [task[t] EXCEPT !.known = TRUE]) /\ TaskOnly

StepReturns(t) ==
  /\ At(t, "step") /\ (task[t].cur = ResolveStep => task[t].known)
  /\ SetTask(t, IF task[t].cur < NSteps
                THEN [task[t] EXCEPT !.pc = "checkpoint", !.cur = @ + 1]
                ELSE [task[t] EXCEPT !.pc = "finish", !.cur = None])
  /\ TaskOnly

\* _advance's transaction.
Pausing(t) == row[task[t].job].pauseNext \/ task[t].cur \in EffectiveGates(task[t].own)

\* Mutant: an _advance that records the step only where it pauses.
CheckpointLate(t) ==
  /\ At(t, "checkpoint")
  /\ LET j == task[t].job
     IN  SetRow(j, IF Pausing(t) THEN [row[j] EXCEPT !.step = task[t].cur, !.state = "paused", !.pauseNext = FALSE]
                   ELSE row[j])
  /\ SetTask(t, [task[t] EXCEPT !.pc = "moved", !.pausing = Pausing(t)])
  /\ UNCHANGED <<running, claim, mode, awaited, call, spent>>

Checkpoint(t) ==
  /\ At(t, "checkpoint")
  /\ LET j     == task[t].job
         moved == [row[j] EXCEPT !.step = task[t].cur, !.known = task[t].known]
     IN  SetRow(j, IF Pausing(t) THEN [moved EXCEPT !.state = "paused", !.pauseNext = FALSE] ELSE moved)
  /\ SetTask(t, [task[t] EXCEPT !.pc = "moved", !.pausing = Pausing(t)])
  /\ UNCHANGED <<running, claim, mode, awaited, call, spent>>

MoveOn(t) ==
  /\ At(t, "moved")
  /\ IF task[t].pausing THEN End(t) ELSE Goto(t, "step")
  /\ TaskOnly

Finish(t) ==
  /\ At(t, "finish")
  /\ LET j == task[t].job
     IN  SetRow(j, [row[j] EXCEPT !.state = "done", !.step = None, !.known = task[t].known,
                                  !.waiting = FALSE, !.pauseNext = FALSE])
  /\ Goto(t, "finished")
  /\ UNCHANGED <<running, claim, mode, awaited, call, spent>>

FinishReturns(t) == At(t, "finished") /\ End(t) /\ TaskOnly

Failing(t, n) == [task[t] EXCEPT !.pc = "fail", !.attempts = n]

\* A step raises: StepRefused uses up every attempt, anything else one.  job.attempts is the
\* number the pick read.
StepRaises(t) ==
  /\ At(t, "step")
  /\ \E n \in {task[t].attempts + 1, MaxAttempts} : SetTask(t, Failing(t, n))
  /\ TaskOnly

\* The write of a checkpoint or of "done" raises.
WriteRaises(t) ==
  /\ At(t, "checkpoint") \/ At(t, "finish")
  /\ spent.faults < MaxFaults /\ Spend("faults")
  /\ SetTask(t, Failing(t, task[t].attempts + 1))
  /\ UNCHANGED <<row, running, claim, mode, awaited, call>>

RecordFailure(t) ==
  /\ At(t, "fail")
  /\ LET j    == task[t].job
         last == task[t].attempts >= MaxAttempts
     IN  SetRow(j, [row[j] EXCEPT !.state = IF last THEN "failed" ELSE "queued", !.step = task[t].cur,
                                  !.attempts = task[t].attempts, !.known = task[t].known,
                                  !.waiting = ~last])
  /\ End(t)
  /\ UNCHANGED <<running, claim, mode, awaited, call, spent>>

\* Mutant: an interruption that queues the job from its start.
RecordInterruptRestart(t) ==
  /\ At(t, "interrupt")
  /\ SetRow(task[t].job, [row[task[t].job] EXCEPT !.state = task[t].to, !.step = None, !.known = task[t].known])
  /\ End(t)
  /\ UNCHANGED <<running, claim, mode, awaited, call, spent>>

RecordInterrupt(t) ==
  /\ At(t, "interrupt")
  /\ LET j == task[t].job
     IN  SetRow(j, [row[j] EXCEPT !.state = task[t].to, !.step = task[t].cur, !.known = task[t].known])
  /\ End(t)
  /\ UNCHANGED <<running, claim, mode, awaited, call, spent>>

\* The handler's own write raises: the task ends and the row stays as it was.
RecordRaises(t) ==
  /\ At(t, "fail") \/ At(t, "interrupt")
  /\ spent.faults < MaxFaults /\ Spend("faults")
  /\ End(t)
  /\ UNCHANGED <<row, running, claim, mode, awaited, call>>

BackoffEnds(j) ==
  /\ row[j].waiting
  /\ SetRow(j, [row[j] EXCEPT !.waiting = FALSE])
  /\ UNCHANGED <<task, running, claim, mode, awaited, call, spent>>

----------------------------------------------------------------------------
(* Admin requests (JobService reaches them through the admin API): each     *)
(* reads the row, checks it, and writes the columns that differ from what   *)
(* it read in an UPDATE of its own, with no lock between.                   *)

Accepts(op, r) ==
  CASE op \in {"resume", "once"} -> r.state = "paused"
    [] op = "pause"              -> r.state \in {"queued", "running", "paused"}
    [] op = "cancel"             -> r.state \in {"queued", "paused", "running"}
    [] OTHER                     -> TRUE

ReadRow(c, op, j) ==
  /\ mode = "up" /\ call[c] = NoCall
  /\ op \in Ops /\ Accepts(op, row[j])
  /\ spent.calls < MaxCalls /\ Spend("calls")
  /\ call' = [call EXCEPT ![c] = [op |-> op, job |-> j, seen |-> row[j]]]
  /\ UNCHANGED <<row, task, running, claim, mode, awaited>>

\* The rows a request can want, given the one it read.
Wanted(op, seen) ==
  CASE op = "pause" /\ seen.state = "queued"  -> {[seen EXCEPT !.state = "paused"]}
    [] op = "pause" /\ seen.state = "running" -> {[seen EXCEPT !.pauseNext = TRUE]}
    [] op = "resume" -> {[seen EXCEPT !.state = "queued", !.pauseNext = FALSE]}
    [] op = "once"   -> {[seen EXCEPT !.state = "queued", !.pauseNext = TRUE]}
    [] op = "retry"  -> {[seen EXCEPT !.state = "queued", !.attempts = 0, !.waiting = FALSE]}
    [] op = "cancel" -> {[seen EXCEPT !.state = "cancelled"]}
    [] op = "gates"  -> {[seen EXCEPT !.own = g] : g \in Gates} \cup {[seen EXCEPT !.pauseNext = b] : b \in BOOLEAN}
    [] OTHER         -> {seen}

\* What its UPDATE leaves of the row r of that moment: only the changed columns are written.
Updated(r, seen, want) ==
  [r EXCEPT !.state     = IF want.state = seen.state THEN @ ELSE want.state,
            !.attempts  = IF want.attempts = seen.attempts THEN @ ELSE want.attempts,
            !.waiting   = IF want.waiting = seen.waiting THEN @ ELSE want.waiting,
            !.pauseNext = IF want.pauseNext = seen.pauseNext THEN @ ELSE want.pauseNext,
            !.own       = IF want.own = seen.own THEN @ ELSE want.own]

WriteRow(c) ==
  /\ call[c] # NoCall
  /\ ~(call[c].op = "cancel" /\ call[c].seen.state = "running")
  /\ \E want \in Wanted(call[c].op, call[c].seen) :
       SetRow(call[c].job, Updated(row[call[c].job], call[c].seen, want))
  /\ call' = [call EXCEPT ![c] = NoCall]
  /\ UNCHANGED <<task, running, claim, mode, awaited, spent>>

\* Runner.cancel of a job it saw running: the registered task is cancelled, if there is one.
CancelTask(c) ==
  /\ call[c] # NoCall /\ call[c].op = "cancel" /\ call[c].seen.state = "running"
  /\ LET t == running[call[c].job]
     IN  task' = IF t = NoTask THEN task ELSE [task EXCEPT ![t] = Cancelled(@, "cancelled")]
  /\ call' = [call EXCEPT ![c] = NoCall]
  /\ UNCHANGED <<row, running, claim, mode, awaited, spent>>

----------------------------------------------------------------------------
(* The process: serve() in main.py.                                         *)

CancelAll(S) == task' = [t \in Tasks |-> IF t \in S THEN Cancelled(task[t], "queued") ELSE task[t]]

Registered == {running[j] : j \in Jobs} \ {NoTask}

\* Runner.shutdown cancels every registered task and waits for them; the loop still runs.
Stop ==
  /\ mode = "up" /\ spent.stops < MaxStops /\ Spend("stops")
  /\ mode' = "stopping" /\ awaited' = Registered
  /\ CancelAll(Registered)
  /\ UNCHANGED <<row, running, claim, call>>

\* The awaited tasks are over: serve cancels the loop, in the middle of a pick if need be, and
\* asyncio.run cancels the tasks that are left.
LoopStops ==
  /\ mode = "stopping"
  /\ \A t \in awaited \cap Live : task[t].pc = "ended"
  /\ mode' = "closing" /\ awaited' = {} /\ claim' = NoClaim
  /\ CancelAll(Live)
  /\ UNCHANGED <<row, running, call, spent>>

Gone ==
  /\ mode' = "down" /\ awaited' = {} /\ claim' = NoClaim
  /\ task' = [t \in Tasks |-> NoTask]
  /\ running' = [j \in Jobs |-> NoTask]
  /\ call' = [c \in Callers |-> NoCall]
  /\ UNCHANGED row

Exit == mode = "closing" /\ (\A t \in Live : task[t].pc = "ended") /\ Gone /\ UNCHANGED spent

Crash == mode # "down" /\ spent.stops < MaxStops /\ Spend("stops") /\ Gone

\* A new process: recover() queues the jobs the last one left running.
Boot ==
  /\ mode = "down" /\ mode' = "up"
  /\ row' = [j \in Jobs |-> IF row[j].state = "running" THEN [row[j] EXCEPT !.state = "queued"] ELSE row[j]]
  /\ UNCHANGED <<task, running, claim, awaited, call, spent>>

----------------------------------------------------------------------------
RunTask(t) ==
  \/ Start(t) \/ ResolveVod(t) \/ StepReturns(t) \/ Checkpoint(t) \/ MoveOn(t)
  \/ Finish(t) \/ FinishReturns(t) \/ RecordFailure(t) \/ RecordInterrupt(t) \/ Done(t)

TaskFails(t) == StepRaises(t) \/ WriteRaises(t) \/ RecordRaises(t)

Pick == (\E j \in Jobs : Claim(j)) \/ Register

Admin(c) == (\E op \in Ops, j \in Jobs : ReadRow(c, op, j)) \/ WriteRow(c) \/ CancelTask(c)

Next ==
  \/ Pick
  \/ \E t \in Tasks : RunTask(t) \/ TaskFails(t)
  \/ \E j \in Jobs : BackoffEnds(j)
  \/ \E c \in Callers : Admin(c)
  \/ Stop \/ LoopStops \/ Exit \/ Crash \/ Boot

Spec == Init /\ [][Next]_vars

\* Every step of a job ends (its waits are bounded), writes go through, a backoff passes, the
\* loop picks at least every ten seconds, and the container is restarted; nothing is assumed of
\* admin requests, shutdowns, crashes or failing writes.
Fairness ==
  /\ \A t \in Tasks : WF_vars(RunTask(t))
  /\ WF_vars(Pick)
  /\ \A j \in Jobs : WF_vars(BackoffEnds(j))
  /\ WF_vars(LoopStops) /\ WF_vars(Exit) /\ WF_vars(Boot)

FairSpec == Spec /\ Fairness

----------------------------------------------------------------------------
(* Properties                                                               *)

TypeOK ==
  /\ row \in [Jobs -> Rows]
  /\ task \in [Tasks -> TaskRecs \cup {NoTask}]
  /\ running \in [Jobs -> Tasks \cup {NoTask}]
  /\ claim \in Claims \cup {NoClaim}
  /\ mode \in {"up", "stopping", "closing", "down"}
  /\ awaited \subseteq Tasks
  /\ call \in [Callers -> Calls \cup {NoCall}]
  /\ spent \in [{"calls", "stops", "faults"} -> Nat]

Active(t) == t \in Live /\ task[t].pc \in Working

\* The jobs that are queued with their VOD: all but the live ones.
WithVod == Jobs \ Late

\* Runner.running names a live task of that job.
RegistryOK ==
  \A j \in Jobs : running[j] # NoTask => running[j] \in Live /\ task[running[j]].job = j

\* "One job per (vod, video type) at a time" (_exclusive_key): no two active tasks work for
\* rows with one key, whatever admins do to the rows and whatever live jobs run meanwhile.  Not
\* for live jobs themselves: one is claimed under its own id, and what it runs under is no longer
\* what its row is claimed under once the row has its VOD.
OneTaskPerKey ==
  \A t, u \in Tasks :
    /\ Active(t) /\ Active(u) /\ {task[t].job, task[u].job} \subseteq WithVod
    /\ VodKey[task[t].job] = VodKey[task[u].job]
    => t = u

\* jobs.step is where a crash at this moment would resume the job: the step its task is in, or
\* the one whose return is not recorded yet, never one further on (legacy_jobs.py, docstring).
CrashResumesHere ==
  \A t \in Live :
    LET x == task[t]
        here == ResumeAt(row[x.job])
    IN  x.job \in WithVod =>
          /\ x.pc \in {"new", "step", "moved"} => here = x.cur
          /\ x.pc = "checkpoint" => x.cur = here + 1
          /\ x.pc = "finish" => here = NSteps

\* The rows and tasks of the jobs with a VOD implement DurableJob: a row's place is where it
\* would resume, and it is worked on while it has an active task.
Durable == INSTANCE DurableJob WITH
  Jobs <- WithVod,
  KeyOf <- VodKey,
  at <- [j \in WithVod |-> ResumeAt(row[j])],
  working <- [j \in WithVod |-> \E t \in Tasks : Active(t) /\ task[t].job = j]

ImplementsDurableJob == Durable!Spec

\* A job that is queued or running ends up done, failed, paused or cancelled.
Settled(j) == row[j].state \in {"done", "failed", "paused", "cancelled"}
EveryJobSettles == \A j \in Jobs : <>[]Settled(j)

=============================================================================
