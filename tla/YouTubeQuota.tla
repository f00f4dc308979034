----------------------------- MODULE YouTubeQuota -----------------------------
(****************************************************************************)
(* youtube_quota.py and _counted of youtube.py: the units spent on a        *)
(* Pacific day, counted in one app_state row by whichever calls run at a    *)
(* time.  Days are numbered.                                                *)
(****************************************************************************)
EXTENDS Integers

CONSTANTS
  Calls,              \* API calls at a time
  COST,               \* what a call may cost, in units
  None,
  MaxDays, MaxUsed    \* bounds: days, units a day before the last call

QuotaAssumption ==
  /\ None \notin Calls /\ None \notin [day : Nat, used : Nat]
  /\ COST \subseteq Nat

VARIABLES
  row,      \* committed: [day, used], or None before the first count
  lock,     \* the call whose transaction has the row (or its key, before the row is there), or None
  spends,   \* call -> [step, day, cost, read]
  day,      \* the Pacific day it is
  used,     \* history: units counted and of this day so far
  late      \* history: a call of the day before was counted on this one

quotaVars == <<row, lock, spends, day, used, late>>

Rows   == {None} \cup [day : Nat, used : Nat]
Spends == [step : {"idle", "insert", "lock", "locked"}, day : Nat, cost : COST \cup {0}, read : Rows]
Idle   == [step |-> "idle", day |-> 0, cost |-> 0, read |-> None]

\* Nothing is counted when YouTube refuses a call for a daily limit, or the count cannot be saved.
Answered(c) ==
  /\ spends[c] = Idle /\ used < MaxUsed
  /\ \E cost \in COST : spends' = [spends EXCEPT ![c].step = "insert", ![c].day = day, ![c].cost = cost]
  /\ UNCHANGED <<row, lock, day, used, late>>

\* INSERT ... ON CONFLICT DO NOTHING: of two first counts, the second waits for the first's end.
Insert(c) ==
  /\ spends[c].step = "insert"
  /\ \/ row # None /\ UNCHANGED lock
     \/ row = None /\ lock = None /\ lock' = c
  /\ spends' = [spends EXCEPT ![c].step = "lock"]
  /\ UNCHANGED <<row, day, used, late>>

\* Mutant: a plain SELECT.
MayReadAlways(c) == TRUE
MayRead(c) == lock \in {None, c}

\* SELECT ... FOR UPDATE.
LockRow(c) ==
  /\ spends[c].step = "lock" /\ MayRead(c)
  /\ lock' = c
  /\ spends' = [spends EXCEPT ![c].step = "locked", ![c].read = row]
  /\ UNCHANGED <<row, day, used, late>>

\* What the row counts for a day.
UsedOn(value, today) == IF value # None /\ value.day = today THEN value.used ELSE 0

\* add
Add(value, cost, today) == [day |-> today, used |-> UsedOn(value, today) + cost]

Commit(c) ==
  /\ spends[c].step = "locked"
  /\ row' = Add(spends[c].read, spends[c].cost, spends[c].day)
  /\ lock' = None
  /\ spends' = [spends EXCEPT ![c] = Idle]
  /\ used' = IF spends[c].day = day THEN used + spends[c].cost ELSE used
  /\ late' = (late \/ spends[c].day # day)
  /\ UNCHANGED day

CountFails(c) ==
  /\ spends[c] # Idle
  /\ lock' = IF lock = c THEN None ELSE lock
  /\ spends' = [spends EXCEPT ![c] = Idle]
  /\ UNCHANGED <<row, day, used, late>>

Midnight ==
  /\ day < MaxDays
  /\ day' = day + 1 /\ used' = 0 /\ late' = FALSE
  /\ UNCHANGED <<row, lock, spends>>

\* today, for the dashboard.
UsedToday == UsedOn(row, day)

Init ==
  /\ row = None /\ lock = None /\ day = 1 /\ used = 0 /\ late = FALSE
  /\ spends = [c \in Calls |-> Idle]

Next ==
  \/ \E c \in Calls : Answered(c) \/ Insert(c) \/ LockRow(c) \/ Commit(c) \/ CountFails(c)
  \/ Midnight

Spec == Init /\ [][Next]_quotaVars

----------------------------------------------------------------------------

TypeOK ==
  /\ row \in Rows /\ lock \in Calls \cup {None}
  /\ spends \in [Calls -> Spends]
  /\ day \in Nat /\ used \in Nat /\ late \in BOOLEAN

\* The dashboard shows every unit counted on this Pacific day, however many calls were counted at a
\* time and whatever was left of the day before, unless a call answered before midnight was counted
\* after it: it starts the old day again, and the new one's units are gone.
QuotaCounts == UsedToday = used \/ late
=============================================================================
