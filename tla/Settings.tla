------------------------------- MODULE Settings -------------------------------
(****************************************************************************)
(* runtime_settings.py: the overrides of settings in their table, the one   *)
(* Settings object the worker runs with, and the admin requests that        *)
(* override or reset a setting, commit, and load the table again.           *)
(****************************************************************************)
EXTENDS Integers, FiniteSets, Functions

CONSTANTS
  Calls,                \* requests at a time
  Keys, Values,
  Env,                  \* key -> its value without an override
  Dropped,              \* values the next version of the worker no longer takes
  MaxWrites, MaxFaults  \* bounds

VARIABLES
  table,    \* settings: key -> value, of the keys that have a row
  memory,   \* the Settings object: key -> value
  applied,  \* key -> value the job runtime goes by
  calls,    \* call -> [step, rows]
  version,  \* of the worker: 0 or 1
  behind,   \* history: memory was set from rows that were not the table's any more, or not set
  writes, faults    \* how many there were, for the bounds

settingsVars == <<table, memory, applied, calls, version, behind, writes, faults>>

NoRows == [k \in {} |-> 0]
Idle   == [step |-> "idle", rows |-> NoRows]

\* validate, in a version of the worker.
Valid(v) == IF v = 0 THEN Values ELSE Values \ Dropped

\* Mutant: load sets the settings that have a row, and leaves the others as they are.
EffectiveKept(rows, v) == [k \in Keys |-> IF k \in DOMAIN rows /\ rows[k] \in Valid(v) THEN rows[k] ELSE memory[k]]
Effective(rows, v)     == [k \in Keys |-> IF k \in DOMAIN rows /\ rows[k] \in Valid(v) THEN rows[k] ELSE Env[k]]

----------------------------------------------------------------------------

\* One transaction: every setting of a change, or none.
Save(c, rows) ==
  /\ calls[c].step = "idle" /\ writes < MaxWrites
  /\ table' = rows
  /\ calls' = [calls EXCEPT ![c].step = "saved"]
  /\ writes' = writes + 1
  /\ UNCHANGED <<memory, applied, version, behind, faults>>

Update(c) ==
  \E keys \in SUBSET Keys \ {{}} : \E changes \in [keys -> Valid(version)] :
    Save(c, [k \in DOMAIN table \cup keys |-> IF k \in keys THEN changes[k] ELSE table[k]])

Reset(c) == \E k \in Keys : Save(c, Restrict(table, DOMAIN table \ {k}))

\* load
Read(c) ==
  /\ calls[c].step = "saved"
  /\ calls' = [calls EXCEPT ![c] = [step |-> "read", rows |-> table]]
  /\ UNCHANGED <<table, memory, applied, version, behind, writes, faults>>

\* ... and the route's apply_settings, with no await in between.
Apply(c) ==
  /\ calls[c].step = "read"
  /\ memory' = Effective(calls[c].rows, version) /\ applied' = memory'
  /\ behind' = (calls[c].rows # table)
  /\ calls' = [calls EXCEPT ![c] = Idle]
  /\ UNCHANGED <<table, version, writes, faults>>

\* The database fails between the commit and the load: the request is answered with an error.
LoadFails(c) ==
  /\ calls[c].step = "saved" /\ faults < MaxFaults
  /\ faults' = faults + 1 /\ behind' = TRUE
  /\ calls' = [calls EXCEPT ![c] = Idle]
  /\ UNCHANGED <<table, memory, applied, version, writes>>

\* main: the worker starts again, maybe as its next version, and loads before it does anything else.
Restart ==
  \E v \in {version, 1} :
    /\ faults < MaxFaults /\ faults' = faults + 1
    /\ version' = v
    /\ memory' = Effective(table, v) /\ applied' = memory'
    /\ behind' = FALSE
    /\ calls' = [c \in Calls |-> Idle]
    /\ UNCHANGED <<table, writes>>

Init ==
  /\ table = NoRows /\ memory = Env /\ applied = Env
  /\ calls = [c \in Calls |-> Idle] /\ version = 0
  /\ behind = FALSE /\ writes = 0 /\ faults = 0

Next == Restart \/ \E c \in Calls : Update(c) \/ Reset(c) \/ Read(c) \/ Apply(c) \/ LoadFails(c)

Spec == Init /\ [][Next]_settingsVars

----------------------------------------------------------------------------

\* The worker runs with one value of each setting.
TypeOK ==
  /\ DOMAIN table \subseteq Keys /\ \A k \in DOMAIN table : table[k] \in Values
  /\ DOMAIN memory = Keys /\ DOMAIN applied = Keys
  /\ \A c \in Calls : calls[c].step \in {"idle", "saved", "read"}

\* With no request between its commit and its load, the worker, its job runtime included, runs with the
\* saved overrides that are still valid and the environment's values for the rest, after a reset and
\* after a restart as another version too: unless the last load was of rows that had changed
\* meanwhile, or failed (RuntimeSettings.load, update, reset).
SettingsInEffect ==
  (\A c \in Calls : calls[c].step = "idle") /\ ~behind =>
    /\ \A k \in Keys : memory[k] = IF k \in DOMAIN table /\ table[k] \in Valid(version) THEN table[k] ELSE Env[k]
    /\ applied = memory
===============================================================================
