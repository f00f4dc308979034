--------------------------- MODULE DashboardProofs ---------------------------
(****************************************************************************)
(* What TLAPS proves of what the dashboard edits and shows: settings, site  *)
(* tags, folders, a VOD's columns and a job's log.  Each is an instance of its*)
(* module.                                                                  *)
(****************************************************************************)
EXTENDS Integers, Sequences, FiniteSets, Functions, FiniteSetsExt, FiniteSetTheorems, WellFoundedInduction, TLAPS

CONSTANTS
  Calls, Keys, Values, Env, Dropped, MaxWrites, MaxFaults, Names, AUTO_TAGS, None, MAX_TAGS,
  MaxChanges, MaxJobs, Durations, Chapters, Games, TwitchDuration, FromTwitch, DURATION_SLACK,
  MaxEdits, NoOne, cap, PRUNE_EVERY, Buffer, Limit, MaxEvents

VARIABLES
  overridesTable, memory, applied, overridesCalls, version, behind, writes, overridesFaults,
  tagsList, shapes, tagsLock, tagsCalls, blind, follows, tagsChanges, folder, trash, removals,
  deletes, job, scan, stuck, made, stale, vod, games, editsCalls, byHand, overtaken, lockedTo,
  stepped, edits, logged, pending, eventsTable, next, tx, eventsLock, since, poll, lost,
  eventsFaults

Overrides == INSTANCE Settings WITH
  table <- overridesTable, calls <- overridesCalls, faults <- overridesFaults
Tags == INSTANCE SiteTags WITH
  list <- tagsList, lock <- tagsLock, calls <- tagsCalls, changes <- tagsChanges
Folders == INSTANCE FolderStorage
Edits == INSTANCE VodEdits WITH calls <- editsCalls
Events == INSTANCE JobLog WITH table <- eventsTable, lock <- eventsLock, faults <- eventsFaults

------------------------------------------------------------------------------
(* Settings.                                                                *)

Tables == UNION {[keys -> Values] : keys \in SUBSET Keys}
Steps  == [step : {"idle", "saved", "read"}, rows : Tables]

\* What the routes hold and the table has; memory needs no type, since a load sets all of it.
RowsOK == overridesTable \in Tables /\ overridesCalls \in [Calls -> Steps]

Quiet     == \A c \in Calls : overridesCalls[c].step = "idle"
Described == \A k \in Keys : memory[k] = Overrides!Effective(overridesTable, version)[k]

SettingsInv == RowsOK /\ (Quiet /\ ~behind => Described /\ applied = memory)

----------------------------------------------------------------------------

LEMMA Written ==
  ASSUME RowsOK, NEW k \in Keys
  PROVE  Overrides!Restrict(overridesTable, DOMAIN overridesTable \ {k}) \in Tables
<1>1. PICK keys \in SUBSET Keys : overridesTable \in [keys -> Values]
  BY DEF RowsOK, Tables
<1>2. Overrides!Restrict(overridesTable, DOMAIN overridesTable \ {k}) \in [keys \ {k} -> Values]
  BY <1>1 DEF Overrides!Restrict
<1>3. QED BY <1>2 DEF Tables

\* A call that is under way excuses what is in memory.
LEMMA UnderWay ==
  ASSUME SettingsInv, NEW c \in Calls, NEW r \in Steps, r.step # "idle", overridesCalls' = [overridesCalls EXCEPT ![c] = r],
         overridesTable' \in Tables
  PROVE  SettingsInv'
<1>1. overridesCalls' \in [Calls -> Steps] /\ overridesCalls'[c].step # "idle"
  BY DEF SettingsInv, RowsOK
<1>2. QED BY <1>1 DEF SettingsInv, RowsOK, Quiet

LEMMA SaveInv ==
  ASSUME SettingsInv, NEW c \in Calls, NEW rows \in Tables, Overrides!Save(c, rows)
  PROVE  SettingsInv'
<1>1. overridesCalls[c] \in Steps
  BY DEF SettingsInv, RowsOK
<1>2. [overridesCalls[c] EXCEPT !.step = "saved"] \in Steps /\ [overridesCalls[c] EXCEPT !.step = "saved"].step = "saved"
  BY <1>1 DEF Steps
<1>3. overridesCalls' = [overridesCalls EXCEPT ![c] = [overridesCalls[c] EXCEPT !.step = "saved"]] /\ overridesTable' = rows
  BY DEF Overrides!Save
<1>4. QED BY <1>2, <1>3, UnderWay

LEMMA UpdateInv == ASSUME SettingsInv, NEW c \in Calls, Overrides!Update(c) PROVE SettingsInv'
<1>1. PICK keys \in SUBSET Keys \ {{}} : \E changes \in [keys -> Overrides!Valid(version)] :
        Overrides!Save(c, [k \in DOMAIN overridesTable \cup keys |-> IF k \in keys THEN changes[k] ELSE overridesTable[k]])
  BY DEF Overrides!Update
<1>2. PICK changes \in [keys -> Overrides!Valid(version)] :
        Overrides!Save(c, [k \in DOMAIN overridesTable \cup keys |-> IF k \in keys THEN changes[k] ELSE overridesTable[k]])
  BY <1>1
<1>3. [k \in DOMAIN overridesTable \cup keys |-> IF k \in keys THEN changes[k] ELSE overridesTable[k]] \in Tables
  <2>1. PICK old \in SUBSET Keys : overridesTable \in [old -> Values]
    BY DEF SettingsInv, RowsOK, Tables
  <2>2. Overrides!Valid(version) \subseteq Values
    BY DEF Overrides!Valid
  <2>3. [k \in DOMAIN overridesTable \cup keys |-> IF k \in keys THEN changes[k] ELSE overridesTable[k]] \in [old \cup keys -> Values]
    BY <2>1, <2>2
  <2>4. QED BY <2>3 DEF Tables
<1>4. QED BY <1>2, <1>3, SaveInv

LEMMA ResetInv == ASSUME SettingsInv, NEW c \in Calls, Overrides!Reset(c) PROVE SettingsInv'
<1>1. PICK k \in Keys : Overrides!Save(c, Overrides!Restrict(overridesTable, DOMAIN overridesTable \ {k}))
  BY DEF Overrides!Reset
<1>2. Overrides!Restrict(overridesTable, DOMAIN overridesTable \ {k}) \in Tables
  BY Written DEF SettingsInv
<1>3. QED BY <1>1, <1>2, SaveInv

LEMMA OverridesReadInv == ASSUME SettingsInv, NEW c \in Calls, Overrides!Read(c) PROVE SettingsInv'
<1>1. [step |-> "read", rows |-> overridesTable] \in Steps /\ overridesTable' \in Tables
  BY DEF Overrides!Read, SettingsInv, RowsOK, Steps
<1>2. QED BY <1>1, UnderWay DEF Overrides!Read

\* A load is of the table as it is, or leaves behind a mark.
LEMMA ApplyInv == ASSUME SettingsInv, NEW c \in Calls, Overrides!Apply(c) PROVE SettingsInv'
<1>1. RowsOK'
  <2>1. Overrides!Idle \in Steps
    <3>1. Overrides!NoRows \in [{} -> Values]
      BY DEF Overrides!NoRows
    <3>2. QED BY <3>1 DEF Overrides!Idle, Steps, Tables
  <2>2. QED BY <2>1 DEF Overrides!Apply, SettingsInv, RowsOK
<1>2. ~behind' => Described' /\ applied' = memory'
  BY DEF Overrides!Apply, Described, Overrides!Effective, Overrides!Valid
<1>3. QED BY <1>1, <1>2 DEF SettingsInv

LEMMA OverridesRestartInv == ASSUME SettingsInv, Overrides!Restart PROVE SettingsInv'
<1>1. RowsOK'
  <2>1. Overrides!NoRows \in [{} -> Values]
    BY DEF Overrides!NoRows
  <2>2. Overrides!Idle \in Steps
    BY <2>1 DEF Overrides!Idle, Steps, Tables
  <2>3. QED BY <2>2 DEF Overrides!Restart, SettingsInv, RowsOK
<1>2. Described' /\ applied' = memory'
  BY DEF Overrides!Restart, Described, Overrides!Effective, Overrides!Valid
<1>3. QED BY <1>1, <1>2 DEF SettingsInv

LEMMA LoadFailsInv == ASSUME SettingsInv, NEW c \in Calls, Overrides!LoadFails(c) PROVE SettingsInv'
<1>1. Overrides!NoRows \in [{} -> Values]
  BY DEF Overrides!NoRows
<1>2. Overrides!Idle \in Steps
  BY <1>1 DEF Overrides!Idle, Steps, Tables
<1>3. QED BY <1>2 DEF Overrides!LoadFails, SettingsInv, RowsOK

LEMMA OverridesInitInv == ASSUME Overrides!Init PROVE SettingsInv
<1>1. Overrides!NoRows \in [{} -> Values] /\ DOMAIN Overrides!NoRows = {}
  BY DEF Overrides!NoRows
<1>2. RowsOK
  BY <1>1 DEF Overrides!Init, RowsOK, Overrides!Idle, Steps, Tables
<1>3. Described /\ applied = memory
  BY <1>1 DEF Overrides!Init, Described, Overrides!Effective
<1>4. QED BY <1>2, <1>3 DEF SettingsInv

LEMMA OverridesNextInv == ASSUME SettingsInv, [Overrides!Next]_(Overrides!settingsVars) PROVE SettingsInv'
<1>1. CASE Overrides!Restart
  BY <1>1, OverridesRestartInv
<1>2. ASSUME NEW c \in Calls, Overrides!Update(c) \/ Overrides!Reset(c) \/ Overrides!Read(c) \/ Overrides!Apply(c) \/ Overrides!LoadFails(c) PROVE SettingsInv'
  BY <1>2, UpdateInv, ResetInv, OverridesReadInv, ApplyInv, LoadFailsInv
<1>3. CASE UNCHANGED Overrides!settingsVars
  BY <1>3 DEF Overrides!settingsVars, SettingsInv, RowsOK, Quiet, Described, Overrides!Effective, Overrides!Valid
<1>4. QED BY <1>1, <1>2, <1>3 DEF Overrides!Next

LEMMA InvSettings == ASSUME SettingsInv PROVE Overrides!SettingsInEffect
  BY DEF SettingsInv, Quiet, Described, Overrides!Effective, Overrides!SettingsInEffect

\* Any number of requests at a time, of settings and of values: once none is between its commit and its
\* load, the worker runs with the saved overrides, unless a load was overtaken or failed
\* (RuntimeSettings.load, update, reset).
THEOREM SavedIsRun == Overrides!Spec => []Overrides!SettingsInEffect
<1>1. Overrides!Init => SettingsInv
  BY OverridesInitInv
<1>2. SettingsInv /\ [Overrides!Next]_(Overrides!settingsVars) => SettingsInv'
  BY OverridesNextInv
<1>3. SettingsInv => Overrides!SettingsInEffect
  BY InvSettings
<1>4. QED BY <1>1, <1>2, <1>3, PTL DEF Overrides!Spec

------------------------------------------------------------------------------
(* SiteTags.                                                                *)

TagSteps == {"idle", "lock", "load", "write", "purge", "commit"}
TagLists == {None} \cup SUBSET Names
TagRequests ==
  [step : TagSteps, op : {"", "save", "shape", "unshape"}, want : SUBSET Names, name : Names \cup {""},
   before : TagLists, put : SUBSET Names, del : SUBSET Names, unlocked : BOOLEAN]

TagTypes == Tags!TypeOK /\ blind \in BOOLEAN /\ follows \in BOOLEAN /\ tagsCalls \in [Calls -> TagRequests]

\* A request past its lock has the row, unless there was none; a save has it from its write on.
HasRow(c) ==
  /\ tagsCalls[c].step \in {"load", "write", "purge", "commit"} /\ ~tagsCalls[c].unlocked => tagsLock = c
  /\ tagsCalls[c].op = "save" /\ tagsCalls[c].step \in {"purge", "commit"} => tagsLock = c
  /\ tagsCalls[c].step = "purge" => tagsCalls[c].op = "save"
  /\ tagsCalls[c].op = "" => tagsCalls[c].step = "idle"
  /\ tagsCalls[c].op \in {"shape", "unshape"} => tagsCalls[c].name \in Names

\* What a request with the row has read is still so.
ReadsStand(c) ==
  /\ tagsCalls[c].op = "save" /\ tagsCalls[c].step \in {"write", "purge", "commit"} /\ ~tagsCalls[c].unlocked => tagsCalls[c].before = tagsList
  /\ tagsCalls[c].op # "save" /\ tagsCalls[c].step \in {"write", "commit"} /\ ~tagsCalls[c].unlocked => tagsCalls[c].name \in Tags!Listed

\* What a request is to commit: a save leaves no shape its list has not.
WritesFit(c) ==
  /\ tagsCalls[c].op = "save" => tagsCalls[c].put = {}
  /\ tagsCalls[c].put \subseteq {tagsCalls[c].name}
  /\ tagsCalls[c].op = "save" /\ tagsCalls[c].step = "commit" /\ ~blind => shapes \subseteq tagsCalls[c].want \cup tagsCalls[c].del

TagCall(c) == HasRow(c) /\ ReadsStand(c) /\ WritesFit(c)

TagInv == TagTypes /\ Tags!ShapesFollowTags /\ \A c \in Calls : TagCall(c)

----------------------------------------------------------------------------

LEMMA IdleTag == Tags!Idle \in TagRequests /\ Tags!Idle.step = "idle" /\ Tags!Idle.op = "" /\ Tags!Idle.put = {}
BY DEF Tags!Idle, TagRequests, TagSteps, TagLists

LEMMA SaveTag ==
  ASSUME NEW want \in SUBSET Names, NEW r, r = [Tags!Idle EXCEPT !.step = "lock", !.op = "save", !.want = want]
  PROVE  r \in TagRequests /\ r.step = "lock" /\ r.op = "save" /\ r.put = {}
BY DEF Tags!Idle, TagRequests, TagSteps, TagLists

LEMMA ShapeTag ==
  ASSUME NEW op \in {"shape", "unshape"}, NEW n \in Names,
         NEW r, r = [Tags!Idle EXCEPT !.step = "lock", !.op = op, !.name = n]
  PROVE  r \in TagRequests /\ r.step = "lock" /\ r.op = op /\ r.put = {} /\ r.name \in Names
BY DEF Tags!Idle, TagRequests, TagSteps, TagLists

LEMMA StepTag ==
  ASSUME NEW f \in [Calls -> TagRequests], NEW c \in Calls, NEW step \in TagSteps, NEW r,
         r = [f[c] EXCEPT !.step = step]
  PROVE  /\ r \in TagRequests /\ r.step = step /\ r.op = f[c].op /\ r.want = f[c].want /\ r.name = f[c].name
         /\ r.before = f[c].before /\ r.put = f[c].put /\ r.del = f[c].del /\ r.unlocked = f[c].unlocked
BY ZenonT(30) DEF TagRequests

\* A request that goes on to r, or ends, while nothing is committed.
LEMMA TagStep ==
  ASSUME TagInv, NEW c \in Calls, NEW r \in TagRequests, tagsCalls' = [tagsCalls EXCEPT ![c] = r],
         UNCHANGED <<tagsList, shapes, blind, follows>>, tagsLock' \in Calls \cup {None},
         \A d \in Calls \ {c} : tagsLock = d => tagsLock' = d,
         TagCall(c)'
  PROVE  TagInv'
<1>1. tagsCalls' \in [Calls -> TagRequests] /\ \A d \in Calls \ {c} : tagsCalls'[d] = tagsCalls[d]
  BY DEF TagInv, TagTypes
<1>2. TagTypes' /\ Tags!ShapesFollowTags'
  BY <1>1 DEF TagInv, TagTypes, Tags!TypeOK, Tags!ShapesFollowTags, Tags!Listed, Tags!NoRow
<1>3. ASSUME NEW d \in Calls \ {c} PROVE TagCall(d)'
  <2>1. TagCall(d) /\ tagsCalls'[d] = tagsCalls[d] /\ (tagsLock = d => tagsLock' = d)
    BY <1>1 DEF TagInv
  <2>2. HasRow(d)'
    BY <2>1 DEF TagCall, HasRow
  <2>3. ReadsStand(d)' /\ WritesFit(d)'
    BY <2>1 DEF TagCall, ReadsStand, WritesFit, Tags!Listed, Tags!NoRow
  <2>4. QED BY <2>2, <2>3 DEF TagCall
<1>4. QED BY <1>2, <1>3 DEF TagInv

LEMMA RequestInv ==
  ASSUME TagInv, NEW c \in Calls, NEW r \in TagRequests, r.step = "lock", r.op # "", r.put = {},
         r.op = "save" \/ r.name \in Names, Tags!Request(c, r)
  PROVE  TagInv'
<1>1. tagsCalls' = [tagsCalls EXCEPT ![c] = r] /\ UNCHANGED <<tagsList, shapes, tagsLock, blind, follows>>
  BY DEF Tags!Request
<1>2. tagsCalls'[c] = r
  BY <1>1 DEF TagInv, TagTypes
<1>3. TagCall(c)'
  BY <1>2 DEF TagCall, HasRow, ReadsStand, WritesFit
<1>4. tagsLock' \in Calls \cup {None}
  BY <1>1 DEF TagInv, TagTypes, Tags!TypeOK
<1>5. QED BY <1>1, <1>3, <1>4, TagStep

LEMMA BeginInv == ASSUME TagInv, NEW c \in Calls, Tags!BeginSave(c) \/ Tags!BeginShape(c) PROVE TagInv'
<1>1. CASE Tags!BeginSave(c)
  <2>1. PICK want \in SUBSET Names : Tags!Request(c, [Tags!Idle EXCEPT !.step = "lock", !.op = "save", !.want = want])
    BY <1>1 DEF Tags!BeginSave
  <2>2. PICK r : r = [Tags!Idle EXCEPT !.step = "lock", !.op = "save", !.want = want]
    OBVIOUS
  <2>3. Tags!Request(c, r)
    BY <2>1, <2>2
  <2>4. QED BY <2>2, <2>3, SaveTag, RequestInv
<1>2. CASE Tags!BeginShape(c)
  <2>1. PICK op \in {"shape", "unshape"}, n \in Names : Tags!Request(c, [Tags!Idle EXCEPT !.step = "lock", !.op = op, !.name = n])
    BY <1>2 DEF Tags!BeginShape
  <2>2. PICK r : r = [Tags!Idle EXCEPT !.step = "lock", !.op = op, !.name = n]
    OBVIOUS
  <2>3. Tags!Request(c, r)
    BY <2>1, <2>2
  <2>4. r \in TagRequests /\ r.step = "lock" /\ r.op = op /\ r.op # "" /\ r.put = {} /\ r.name \in Names
    BY <2>2, ShapeTag
  <2>5. QED BY <2>3, <2>4, RequestInv
<1>3. QED BY <1>1, <1>2

LEMMA TagsLockInv == ASSUME Tags!TagsAssumption, TagInv, NEW c \in Calls, Tags!Lock(c) PROVE TagInv'
<1>1. /\ tagsCalls[c].step = "lock" /\ ((Tags!NoRow /\ tagsLock' = tagsLock) \/ (~Tags!NoRow /\ tagsLock = None /\ tagsLock' = c))
      /\ tagsCalls' = [tagsCalls EXCEPT ![c].step = "load", ![c].unlocked = Tags!NoRow]
      /\ UNCHANGED <<tagsList, shapes, blind, follows>>
  BY DEF Tags!Lock
<1>2. tagsCalls \in [Calls -> TagRequests] /\ Tags!NoRow \in BOOLEAN
  BY DEF TagInv, TagTypes, Tags!NoRow
<1>3. PICK r : r = [[tagsCalls[c] EXCEPT !.step = "load"] EXCEPT !.unlocked = Tags!NoRow]
  OBVIOUS
<1>4. tagsCalls' = [tagsCalls EXCEPT ![c] = r]
  BY <1>1, <1>2, <1>3, ZenonT(30)
<1>5. /\ r \in TagRequests /\ r.step = "load" /\ r.op = tagsCalls[c].op /\ r.put = tagsCalls[c].put
      /\ r.name = tagsCalls[c].name /\ r.unlocked = Tags!NoRow
  BY <1>2, <1>3, ZenonT(30) DEF TagRequests, TagSteps
<1>6. tagsCalls'[c] = r
  BY <1>2, <1>4
<1>7. TagCall(c)'
  BY <1>1, <1>5, <1>6 DEF TagInv, TagCall, HasRow, ReadsStand, WritesFit
<1>8. tagsLock' \in Calls \cup {None} /\ \A d \in Calls : tagsLock = d => tagsLock' = d
  BY <1>1 DEF TagInv, TagTypes, Tags!TypeOK, Tags!TagsAssumption
<1>9. QED BY <1>1, <1>4, <1>5, <1>7, <1>8, TagStep

\* A request that ends lets go of the row, if it has it.
LEMMA TagEnds ==
  ASSUME Tags!TagsAssumption, TagInv, NEW c \in Calls, tagsCalls' = [tagsCalls EXCEPT ![c] = Tags!Idle],
         tagsLock' = IF tagsLock = c THEN None ELSE tagsLock, UNCHANGED <<tagsList, shapes, blind, follows>>
  PROVE  TagInv'
<1>1. tagsCalls'[c] = Tags!Idle
  BY DEF TagInv, TagTypes
<1>2. TagCall(c)'
  BY <1>1, IdleTag DEF TagCall, HasRow, ReadsStand, WritesFit
<1>3. tagsLock' \in Calls \cup {None} /\ \A d \in Calls \ {c} : tagsLock = d => tagsLock' = d
  BY DEF TagInv, TagTypes, Tags!TypeOK
<1>4. QED BY <1>2, <1>3, IdleTag, TagStep

LEMMA LoadInv == ASSUME Tags!TagsAssumption, TagInv, NEW c \in Calls, Tags!Load(c) PROVE TagInv'
<1>1. /\ tagsCalls[c].step = "load" /\ UNCHANGED <<tagsList, shapes, blind, follows>>
      /\ tagsCalls[c] \in TagRequests /\ tagsCalls \in [Calls -> TagRequests] /\ tagsList \in TagLists
  BY DEF Tags!Load, TagInv, TagTypes, Tags!TypeOK, TagLists
<1>2. CASE /\ tagsCalls[c].op = "save" \/ tagsCalls[c].name \in Tags!Listed
           /\ tagsCalls' = [tagsCalls EXCEPT ![c].step = "write", ![c].before = tagsList] /\ UNCHANGED tagsLock
  <2>1. PICK r : r = [[tagsCalls[c] EXCEPT !.step = "write"] EXCEPT !.before = tagsList]
    OBVIOUS
  <2>2. tagsCalls' = [tagsCalls EXCEPT ![c] = r]
    BY <1>1, <1>2, <2>1, ZenonT(30)
  <2>3. /\ r \in TagRequests /\ r.step = "write" /\ r.op = tagsCalls[c].op /\ r.put = tagsCalls[c].put
        /\ r.name = tagsCalls[c].name /\ r.unlocked = tagsCalls[c].unlocked /\ r.before = tagsList
    BY <1>1, <2>1, ZenonT(30) DEF TagRequests, TagSteps
  <2>4. tagsCalls'[c] = r
    BY <1>1, <2>2
  <2>5. TagCall(c)'
    BY ZenonT(40), <1>1, <1>2, <2>3, <2>4 DEF TagInv, TagCall, HasRow, ReadsStand, WritesFit, Tags!Listed, Tags!NoRow
  <2>6. tagsLock' \in Calls \cup {None}
    BY <1>2 DEF TagInv, TagTypes, Tags!TypeOK
  <2>7. QED BY <1>1, <1>2, <2>2, <2>3, <2>5, <2>6, TagStep
<1>3. CASE tagsCalls' = [tagsCalls EXCEPT ![c] = Tags!Idle] /\ tagsLock' = IF tagsLock = c THEN None ELSE tagsLock
  BY <1>1, <1>3, TagEnds
<1>4. QED BY <1>2, <1>3 DEF Tags!Load

LEMMA WriteListInv == ASSUME Tags!TagsAssumption, TagInv, NEW c \in Calls, Tags!WriteList(c) PROVE TagInv'
<1>1. /\ tagsCalls[c].step = "write" /\ tagsCalls[c].op = "save" /\ tagsLock \in {None, c} /\ tagsLock' = c
      /\ tagsCalls' = [tagsCalls EXCEPT ![c].step = "purge"] /\ UNCHANGED <<tagsList, shapes, blind, follows>>
      /\ tagsCalls \in [Calls -> TagRequests] /\ "purge" \in TagSteps
  BY DEF Tags!WriteList, TagInv, TagTypes, TagSteps
<1>2. PICK r : r = [tagsCalls[c] EXCEPT !.step = "purge"]
  OBVIOUS
<1>3. tagsCalls' = [tagsCalls EXCEPT ![c] = r]
  BY <1>1, <1>2, ZenonT(30)
<1>4. /\ r \in TagRequests /\ r.step = "purge" /\ r.op = tagsCalls[c].op /\ r.put = tagsCalls[c].put /\ r.name = tagsCalls[c].name
      /\ r.before = tagsCalls[c].before /\ r.unlocked = tagsCalls[c].unlocked
  BY <1>1, <1>2, StepTag
<1>5. tagsCalls'[c] = r
  BY <1>1, <1>3
<1>6. TagCall(c)'
  BY <1>1, <1>4, <1>5 DEF TagInv, TagCall, HasRow, ReadsStand, WritesFit, Tags!Listed, Tags!NoRow
<1>7. tagsLock' \in Calls \cup {None} /\ \A d \in Calls \ {c} : tagsLock = d => tagsLock' = d
  BY <1>1 DEF Tags!TagsAssumption
<1>8. QED BY <1>1, <1>3, <1>4, <1>6, <1>7, TagStep

\* The shapes to go are those its list has not.
LEMMA PurgeInv == ASSUME TagInv, NEW c \in Calls, Tags!Purge(c) PROVE TagInv'
<1>1. /\ tagsCalls[c].step = "purge" /\ UNCHANGED <<tagsList, shapes, tagsLock, blind, follows>>
      /\ tagsCalls' = [tagsCalls EXCEPT ![c].step = "commit", ![c].del = shapes \ tagsCalls[c].want]
      /\ tagsCalls \in [Calls -> TagRequests] /\ shapes \in SUBSET Names
  BY DEF Tags!Purge, TagInv, TagTypes, Tags!TypeOK
<1>2. PICK gone \in SUBSET Names : gone = shapes \ tagsCalls[c].want
  BY <1>1
<1>3. PICK r : r = [[tagsCalls[c] EXCEPT !.step = "commit"] EXCEPT !.del = gone]
  OBVIOUS
<1>4. tagsCalls' = [tagsCalls EXCEPT ![c] = r]
  BY <1>1, <1>2, <1>3, ZenonT(30)
<1>5. /\ r \in TagRequests /\ r.step = "commit" /\ r.op = tagsCalls[c].op /\ r.put = tagsCalls[c].put /\ r.want = tagsCalls[c].want
      /\ r.name = tagsCalls[c].name /\ r.before = tagsCalls[c].before /\ r.unlocked = tagsCalls[c].unlocked /\ r.del = gone
  BY <1>1, <1>3, ZenonT(30) DEF TagRequests, TagSteps
<1>6. tagsCalls'[c] = r
  BY <1>1, <1>4
<1>7. tagsCalls[c].op = "save"
  BY <1>1 DEF TagInv, TagCall, HasRow
<1>8. TagCall(c)'
  <2>1. HasRow(c)' /\ ReadsStand(c)'
    BY <1>1, <1>5, <1>6, <1>7 DEF TagInv, TagCall, HasRow, ReadsStand, Tags!Listed, Tags!NoRow
  <2>2. WritesFit(c)'
    BY <1>1, <1>2, <1>5, <1>6, <1>7 DEF TagInv, TagCall, WritesFit
  <2>3. QED BY <2>1, <2>2 DEF TagCall
<1>9. tagsLock' \in Calls \cup {None}
  BY <1>1 DEF TagInv, TagTypes, Tags!TypeOK
<1>10. QED BY <1>1, <1>4, <1>5, <1>8, <1>9, TagStep

LEMMA WriteShapeInv == ASSUME TagInv, NEW c \in Calls, Tags!WriteShape(c) PROVE TagInv'
<1>1. /\ tagsCalls[c].step = "write" /\ tagsCalls[c].op # "save" /\ UNCHANGED <<tagsList, shapes, tagsLock, blind, follows>>
      /\ tagsCalls \in [Calls -> TagRequests] /\ shapes \in SUBSET Names
  BY DEF Tags!WriteShape, TagInv, TagTypes, Tags!TypeOK
<1>2. tagsCalls[c].op \in {"shape", "unshape"}
  BY <1>1 DEF TagRequests, TagInv, TagCall, HasRow
<1>3. ASSUME NEW r \in TagRequests, tagsCalls' = [tagsCalls EXCEPT ![c] = r], r.step = "commit", r.op = tagsCalls[c].op,
             r.name = tagsCalls[c].name, r.before = tagsCalls[c].before, r.unlocked = tagsCalls[c].unlocked, r.put \subseteq {r.name}
      PROVE  TagInv'
  <2>1. tagsCalls'[c] = r
    BY <1>1, <1>3
  <2>2. TagCall(c)'
    BY <1>1, <1>2, <1>3, <2>1 DEF TagInv, TagCall, HasRow, ReadsStand, WritesFit, Tags!Listed, Tags!NoRow
  <2>3. tagsLock' \in Calls \cup {None}
    BY <1>1 DEF TagInv, TagTypes, Tags!TypeOK
  <2>4. QED BY <1>1, <1>3, <2>2, <2>3, TagStep
<1>4. CASE tagsCalls[c].op = "shape"
  <2>1. tagsCalls' = [tagsCalls EXCEPT ![c].step = "commit", ![c].put = {tagsCalls[c].name}]
    BY <1>1, <1>4 DEF Tags!WriteShape
  <2>2. {tagsCalls[c].name} \in SUBSET Names
    BY <1>2 DEF TagInv, TagCall, HasRow
  <2>3. PICK r : r = [[tagsCalls[c] EXCEPT !.step = "commit"] EXCEPT !.put = {tagsCalls[c].name}]
    OBVIOUS
  <2>4. tagsCalls' = [tagsCalls EXCEPT ![c] = r]
    BY <1>1, <2>1, <2>3, ZenonT(30)
  <2>5. /\ r \in TagRequests /\ r.step = "commit" /\ r.op = tagsCalls[c].op /\ r.put = {tagsCalls[c].name}
        /\ r.name = tagsCalls[c].name /\ r.before = tagsCalls[c].before /\ r.unlocked = tagsCalls[c].unlocked
    BY <1>1, <2>2, <2>3, ZenonT(30) DEF TagRequests, TagSteps
  <2>6. QED BY <1>3, <2>4, <2>5
<1>5. CASE tagsCalls[c].op # "shape"
  <2>1. tagsCalls' = [tagsCalls EXCEPT ![c].step = "commit", ![c].del = {tagsCalls[c].name} \cap shapes]
    BY <1>5 DEF Tags!WriteShape
  <2>2. PICK gone \in SUBSET Names : gone = {tagsCalls[c].name} \cap shapes
    BY <1>1
  <2>3. PICK r : r = [[tagsCalls[c] EXCEPT !.step = "commit"] EXCEPT !.del = gone]
    OBVIOUS
  <2>4. tagsCalls' = [tagsCalls EXCEPT ![c] = r]
    BY <1>1, <2>1, <2>2, <2>3, ZenonT(30)
  <2>5. /\ r \in TagRequests /\ r.step = "commit" /\ r.op = tagsCalls[c].op /\ r.put = tagsCalls[c].put
        /\ r.name = tagsCalls[c].name /\ r.before = tagsCalls[c].before /\ r.unlocked = tagsCalls[c].unlocked
    BY <1>1, <2>2, <2>3, ZenonT(30) DEF TagRequests, TagSteps
  <2>6. r.put \subseteq {r.name}
    BY <2>5 DEF TagInv, TagCall, WritesFit
  <2>7. QED BY <1>3, <2>4, <2>5, <2>6
<1>6. QED BY <1>4, <1>5

LEMMA CommitSaveInv == ASSUME Tags!TagsAssumption, TagInv, NEW c \in Calls, Tags!Commit(c), tagsCalls[c].op = "save" PROVE TagInv'
<1>1. PICK r \in TagRequests : r = tagsCalls[c]
  BY DEF TagInv, TagTypes
<1>2. /\ r.step = "commit" /\ r.op = "save"
      /\ tagsList' = r.want /\ shapes' = (shapes \cup r.put) \ r.del
      /\ follows' = (follows /\ (~r.unlocked => r.before = tagsList)) /\ blind' = blind
      /\ tagsCalls' = [tagsCalls EXCEPT ![c] = Tags!Idle] /\ tagsLock' = IF tagsLock = c THEN None ELSE tagsLock
  BY <1>1 DEF Tags!Commit, TagInv, TagTypes
<1>3. /\ tagsLock = c /\ r.put = {} /\ (~r.unlocked => r.before = tagsList)
      /\ (~blind => shapes \subseteq r.want \cup r.del)
  BY <1>1, <1>2 DEF TagInv, TagCall, HasRow, ReadsStand, WritesFit
<1>4. /\ r.want \in SUBSET Names /\ r.want # None /\ shapes \in SUBSET Names
      /\ tagsCalls' \in [Calls -> TagRequests] /\ tagsCalls'[c] = Tags!Idle /\ \A d \in Calls \ {c} : tagsCalls'[d] = tagsCalls[d]
  BY <1>2, IdleTag DEF TagInv, TagTypes, Tags!TypeOK, TagRequests, Tags!TagsAssumption
<1>5. follows' = TRUE
  BY <1>2, <1>3 DEF TagInv, Tags!ShapesFollowTags
<1>6. TagTypes' /\ Tags!ShapesFollowTags'
  <2>1. shapes' \subseteq Names /\ (~blind => shapes' \subseteq r.want)
    BY <1>2, <1>3, <1>4
  <2>2. TagTypes'
    BY <1>2, <1>4, <1>5, <2>1 DEF TagInv, TagTypes, Tags!TypeOK
  <2>3. Tags!Listed' = r.want
    BY <1>2, <1>4 DEF Tags!Listed, Tags!NoRow
  <2>4. QED BY <1>2, <1>5, <2>1, <2>2, <2>3 DEF Tags!ShapesFollowTags, TagInv, TagTypes
<1>7. ASSUME NEW d \in Calls PROVE TagCall(d)'
  <2>1. CASE d = c
    BY <1>4, <2>1, IdleTag DEF TagCall, HasRow, ReadsStand, WritesFit
  <2>2. CASE d # c
    <3>1. TagCall(d) /\ tagsCalls'[d] = tagsCalls[d] /\ tagsLock # d
      BY <1>3, <1>4, <2>2 DEF TagInv
    <3>2. HasRow(d)' /\ ReadsStand(d)'
      BY <3>1 DEF TagCall, HasRow, ReadsStand
    <3>3. WritesFit(d)'
      BY <3>1 DEF TagCall, HasRow, WritesFit
    <3>4. QED BY <3>1, <3>2, <3>3 DEF TagCall
  <2>3. QED BY <2>1, <2>2
<1>8. QED BY <1>6, <1>7 DEF TagInv

LEMMA CommitShapeInv == ASSUME Tags!TagsAssumption, TagInv, NEW c \in Calls, Tags!Commit(c), tagsCalls[c].op # "save" PROVE TagInv'
<1>1. PICK r \in TagRequests : r = tagsCalls[c]
  BY DEF TagInv, TagTypes
<1>2. /\ r.step = "commit" /\ r.op # "save"
      /\ tagsList' = tagsList /\ shapes' = (shapes \cup r.put) \ r.del
      /\ follows' = follows /\ blind' = (blind \/ r.unlocked)
      /\ tagsCalls' = [tagsCalls EXCEPT ![c] = Tags!Idle] /\ tagsLock' = IF tagsLock = c THEN None ELSE tagsLock
  BY <1>1 DEF Tags!Commit, TagInv, TagTypes
<1>3. /\ r.put \subseteq {r.name} /\ (~r.unlocked => tagsLock = c /\ r.name \in Tags!Listed)
      /\ (~blind => shapes \subseteq Tags!Listed)
  BY <1>1, <1>2 DEF TagInv, TagCall, HasRow, ReadsStand, WritesFit, Tags!ShapesFollowTags
<1>4. /\ shapes \in SUBSET Names /\ r.put \in SUBSET Names
      /\ blind \in BOOLEAN /\ r.unlocked \in BOOLEAN
      /\ tagsCalls' \in [Calls -> TagRequests] /\ tagsCalls'[c] = Tags!Idle /\ \A d \in Calls \ {c} : tagsCalls'[d] = tagsCalls[d]
  BY <1>2, IdleTag DEF TagInv, TagTypes, Tags!TypeOK, TagRequests
<1>5. TagTypes' /\ Tags!ShapesFollowTags'
  <2>1. shapes' \subseteq Names /\ blind' \in BOOLEAN /\ (~blind' => shapes' \subseteq Tags!Listed)
    BY <1>2, <1>3, <1>4
  <2>2. Tags!Listed' = Tags!Listed
    BY <1>2 DEF Tags!Listed, Tags!NoRow
  <2>3. tagsLock' \in Calls \cup {None}
    BY <1>2 DEF TagInv, TagTypes, Tags!TypeOK
  <2>4. QED BY <1>2, <1>4, <2>1, <2>2, <2>3 DEF TagInv, TagTypes, Tags!TypeOK, Tags!ShapesFollowTags
<1>6. ASSUME NEW d \in Calls PROVE TagCall(d)'
  <2>1. CASE d = c
    BY <1>4, <2>1, IdleTag DEF TagCall, HasRow, ReadsStand, WritesFit
  <2>2. CASE d # c
    <3>1. TagCall(d) /\ tagsCalls'[d] = tagsCalls[d]
      BY <1>4, <2>2 DEF TagInv
    <3>2. HasRow(d)' /\ ReadsStand(d)'
      BY <1>2, <2>2, <3>1 DEF TagCall, HasRow, ReadsStand, Tags!Listed, Tags!NoRow
    <3>3. ASSUME tagsCalls[d].op = "save", tagsCalls[d].step = "commit", ~blind'
          PROVE  shapes' \subseteq tagsCalls[d].want \cup tagsCalls[d].del
      <4>1. tagsLock = d
        BY <3>1, <3>3 DEF TagCall, HasRow
      <4>2. ~r.unlocked
        BY <1>2, <1>4, <3>3
      <4>3. QED BY <1>3, <2>2, <4>1, <4>2
    <3>4. WritesFit(d)'
      BY <3>1, <3>3 DEF TagCall, WritesFit
    <3>5. QED BY <3>2, <3>4 DEF TagCall
  <2>3. QED BY <2>1, <2>2
<1>7. QED BY <1>5, <1>6 DEF TagInv

LEMMA TagsInitInv == ASSUME Tags!Init PROVE TagInv
BY IdleTag DEF Tags!Init, TagInv, TagTypes, Tags!TypeOK, Tags!ShapesFollowTags, Tags!Listed, Tags!NoRow, TagCall, HasRow, ReadsStand, WritesFit

LEMMA TagsNextInv == ASSUME Tags!TagsAssumption, TagInv, [Tags!Next]_(Tags!siteVars) PROVE TagInv'
<1>1. ASSUME NEW c \in Calls, Tags!Commit(c) PROVE TagInv'
  BY <1>1, CommitSaveInv, CommitShapeInv
<1>2. ASSUME NEW c \in Calls, Tags!Fails(c) PROVE TagInv'
  BY <1>2, TagEnds DEF Tags!Fails
<1>3. CASE UNCHANGED Tags!siteVars
  BY <1>3 DEF Tags!siteVars, TagInv, TagTypes, Tags!TypeOK, Tags!ShapesFollowTags, Tags!Listed, Tags!NoRow, TagCall, HasRow, ReadsStand, WritesFit
<1>4. CASE Tags!Next
  BY <1>1, <1>2, <1>4, BeginInv, TagsLockInv, LoadInv, WriteListInv, PurgeInv, WriteShapeInv DEF Tags!Next
<1>5. QED BY <1>3, <1>4

LEMMA InvTags == ASSUME TagInv PROVE Tags!ShapesFollowTags
  BY DEF TagInv

\* "A tag the list no longer has loses it" (site_tags.py), for any tags and any number of requests: only
\* listed tags have a shape, unless one was set by a request that found no list to lock; and each audited
\* save follows the list there was.
THEOREM ShapesAreListed == ASSUME Tags!TagsAssumption PROVE Tags!Spec => []Tags!ShapesFollowTags
<1>1. Tags!Init => TagInv
  BY TagsInitInv
<1>2. TagInv /\ [Tags!Next]_(Tags!siteVars) => TagInv'
  BY TagsNextInv
<1>3. TagInv => Tags!ShapesFollowTags
  BY InvTags
<1>4. QED BY <1>1, <1>2, <1>3, PTL DEF Tags!Spec

------------------------------------------------------------------------------
(* FolderStorage.                                                           *)

\* While a job is active that no delete was past its check for, none gets there, and none removes in place.
Undisturbed ==
  Folders!Active /\ job.safe => 0 \notin removals /\ \A c \in Calls : deletes[c] # "free"

\* The folder is removed in place for a move that failed, and for nothing else.
InPlaceOnFailure == 0 \in removals => made.failed

\* A scan under way that saw the folder is right, or known to be late.
ScanKnows == scan.task = "there" /\ ~stale => folder # None

\* The parts of DeletesAreSafe.
FilesStay   == Folders!Active /\ job.wrote /\ job.safe => folder # None /\ job.no \in folder
TrashLeaves == DOMAIN trash \subseteq removals \cup stuck
ShownIsThere == scan.cached = "there" /\ ~stale => folder # None

StorageInv ==
  Folders!TypeOK /\ Undisturbed /\ InPlaceOnFailure /\ ScanKnows /\ FilesStay /\ TrashLeaves /\ ShownIsThere

LEMMA FoldersInitInv == ASSUME Folders!StorageAssumption, Folders!Init PROVE StorageInv
BY DEF Folders!StorageAssumption, Folders!Init, StorageInv, Folders!TypeOK, Undisturbed, InPlaceOnFailure, ScanKnows, FilesStay,
       TrashLeaves, ShownIsThere, Folders!Active

----------------------------------------------------------------------------
(* The jobs.                                                                *)

LEMMA EnqueueInv == ASSUME Folders!StorageAssumption, StorageInv, Folders!Enqueue PROVE StorageInv'
<1> USE DEF Folders!Enqueue, StorageInv, Folders!Active
<1>1. Folders!TypeOK'
  BY DEF Folders!TypeOK, Folders!StorageAssumption
<1>2. Undisturbed' /\ FilesStay'
  BY DEF Undisturbed, FilesStay, InPlaceOnFailure, Folders!RemovedInPlace
<1>3. InPlaceOnFailure' /\ ScanKnows' /\ TrashLeaves' /\ ShownIsThere'
  BY DEF InPlaceOnFailure, ScanKnows, TrashLeaves, ShownIsThere
<1>4. QED BY <1>1, <1>2, <1>3

LEMMA WorkInv == ASSUME Folders!StorageAssumption, StorageInv, Folders!Work PROVE StorageInv'
<1> USE DEF Folders!Work, StorageInv, Folders!Active
<1>1. Folders!TypeOK'
  BY DEF Folders!TypeOK, Folders!StorageAssumption
<1>2. Undisturbed' /\ FilesStay'
  BY DEF Folders!TypeOK, Folders!StorageAssumption, Undisturbed, FilesStay
<1>3. folder # None => folder' # None
  BY DEF Folders!TypeOK, Folders!StorageAssumption
<1>4. InPlaceOnFailure' /\ ScanKnows' /\ TrashLeaves' /\ ShownIsThere'
  BY <1>3 DEF InPlaceOnFailure, ScanKnows, TrashLeaves, ShownIsThere
<1>5. QED BY <1>1, <1>2, <1>4

LEMMA JobEndsInv == ASSUME StorageInv, Folders!JobEnds PROVE StorageInv'
<1> USE DEF Folders!JobEnds, StorageInv, Folders!Active
<1>1. Folders!TypeOK'
  BY DEF Folders!TypeOK
<1>2. job'.state = "done"
  BY DEF Folders!TypeOK
<1>3. Undisturbed' /\ FilesStay'
  BY <1>2 DEF Undisturbed, FilesStay
<1>4. InPlaceOnFailure' /\ ScanKnows' /\ TrashLeaves' /\ ShownIsThere'
  BY DEF InPlaceOnFailure, ScanKnows, TrashLeaves, ShownIsThere
<1>5. QED BY <1>1, <1>3, <1>4

----------------------------------------------------------------------------
(* The deletes.                                                             *)

LEMMA FindInv == ASSUME StorageInv, NEW c \in Calls, Folders!Find(c) PROVE StorageInv'
BY DEF Folders!Find, StorageInv, Folders!TypeOK, Undisturbed, InPlaceOnFailure, ScanKnows, FilesStay, TrashLeaves, ShownIsThere, Folders!Active

\* An active job has the delete refused.
LEMMA AskJobsInv == ASSUME StorageInv, NEW c \in Calls, Folders!AskJobs(c) PROVE StorageInv'
BY DEF Folders!AskJobs, StorageInv, Folders!TypeOK, Undisturbed, InPlaceOnFailure, ScanKnows, FilesStay, TrashLeaves, ShownIsThere, Folders!Active

\* A delete past its check: no active job is safe from it, so none has been promised its files.
LEMMA MoveInv == ASSUME Folders!StorageAssumption, StorageInv, NEW c \in Calls, Folders!Move(c) PROVE StorageInv'
<1>1. deletes[c] = "free" /\ ~(Folders!Active /\ job.safe)
  BY DEF Folders!Move, StorageInv, Undisturbed
<1>2. ~(Folders!Active /\ job.safe)'
  BY <1>1 DEF Folders!Move, StorageInv, Folders!TypeOK, Folders!Active
<1>3. /\ scan'.cached = "dropped" /\ scan'.task = scan.task /\ stale' = (scan.task # "no")
      /\ scan' \in [cached : {"dropped", "there", "gone"}, task : {"no", "there", "gone"}]
  BY DEF Folders!Move, Folders!Dropped, StorageInv, Folders!TypeOK
<1>4. /\ deletes' \in [Calls -> {"idle", "found", "free"}]
      /\ job' \in [state : {"queued", "running", "done"}, no : 0..MaxJobs, wrote : BOOLEAN, safe : BOOLEAN]
  BY DEF Folders!Move, StorageInv, Folders!TypeOK, Folders!Active, Folders!RemovedInPlace
<1>5. CASE Folders!ToTrash
  <2>1. /\ made' = [made EXCEPT !.entries = @ + 1] /\ folder' = None
        /\ removals' = removals \cup {made.entries + 1}
        /\ DOMAIN trash' = DOMAIN trash \cup {made.entries + 1}
        /\ UNCHANGED stuck
    BY <1>5 DEF Folders!ToTrash, Folders!Move
  <2>2. made'.entries = made.entries + 1 /\ made'.failed = made.failed /\ made.entries \in Nat
    BY <2>1 DEF StorageInv, Folders!TypeOK
  <2>3. Folders!TypeOK'
    BY <1>3, <1>4, <2>1, <2>2 DEF StorageInv, Folders!TypeOK
  <2>4. InPlaceOnFailure' /\ TrashLeaves'
    BY <2>1, <2>2 DEF StorageInv, InPlaceOnFailure, TrashLeaves
  <2>5. QED BY <1>2, <1>3, <2>3, <2>4 DEF StorageInv, Undisturbed, FilesStay, ScanKnows, ShownIsThere
<1>6. CASE Folders!InPlace /\ made'.failed /\ made' \in [entries : Nat, faults : Nat, failed : BOOLEAN]
           /\ made'.entries = made.entries
  <2>1. Folders!TypeOK'
    BY <1>3, <1>4, <1>6 DEF Folders!InPlace, StorageInv, Folders!TypeOK
  <2>2. InPlaceOnFailure' /\ TrashLeaves'
    BY <1>6 DEF Folders!Move, Folders!InPlace, StorageInv, InPlaceOnFailure, TrashLeaves
  <2>3. QED BY <1>2, <1>3, <2>1, <2>2 DEF StorageInv, Undisturbed, FilesStay, ScanKnows, ShownIsThere
<1>7. CASE ~Folders!ToTrash
  <2>1. /\ Folders!InPlace
        /\ \/ made' = [made EXCEPT !.failed = TRUE]
           \/ made' = [made EXCEPT !.faults = @ + 1, !.failed = TRUE]
    BY <1>7 DEF Folders!Move
  <2>2. made \in [entries : Nat, faults : Nat, failed : BOOLEAN]
    BY DEF StorageInv, Folders!TypeOK
  <2>3. /\ made'.failed /\ made'.entries = made.entries
        /\ made' \in [entries : Nat, faults : Nat, failed : BOOLEAN]
    <3>1. CASE made' = [made EXCEPT !.failed = TRUE]
      BY <2>2, <3>1
    <3>2. CASE made' = [made EXCEPT !.faults = @ + 1, !.failed = TRUE]
      <4>1. made.faults + 1 \in Nat
        BY <2>2
      <4>2. QED BY <2>2, <3>2, <4>1
    <3>3. QED BY <2>1, <3>1, <3>2
  <2>4. QED BY <1>6, <2>1, <2>3
<1>8. QED BY <1>5, <1>7

\* What is removed is in the trash, or the folder itself while no safe job is active.
LEMMA RemoveInv ==
  ASSUME Folders!StorageAssumption, StorageInv, NEW target \in removals, Folders!Remove(target) PROVE StorageInv'
<1>1. /\ removals' = removals \ {target} /\ UNCHANGED <<deletes, job>>
      /\ scan'.cached = "dropped" /\ scan'.task = scan.task /\ stale' = (scan.task # "no")
      /\ scan' \in [cached : {"dropped", "there", "gone"}, task : {"no", "there", "gone"}]
  BY DEF Folders!Remove, Folders!Dropped, StorageInv, Folders!TypeOK
<1>2. /\ made' \in [entries : Nat, faults : Nat, failed : BOOLEAN]
      /\ made'.entries = made.entries /\ made'.failed = made.failed
  BY DEF Folders!Remove, Folders!Fault, StorageInv, Folders!TypeOK
<1>3. /\ folder' \in {folder, None} /\ (target # 0 => folder' = folder)
      /\ DOMAIN trash' \subseteq DOMAIN trash
      /\ stuck \subseteq stuck' /\ (target \in DOMAIN trash' => target \in stuck')
  <2>1. 0 \notin DOMAIN trash
    BY DEF StorageInv, Folders!TypeOK
  <2>2. QED BY <2>1 DEF Folders!Remove
<1>4. Folders!TypeOK'
  BY <1>1, <1>2, <1>3 DEF StorageInv, Folders!TypeOK
<1>5. Undisturbed' /\ InPlaceOnFailure' /\ TrashLeaves'
  BY <1>1, <1>2, <1>3 DEF StorageInv, Undisturbed, InPlaceOnFailure, TrashLeaves, Folders!Active
<1>6. FilesStay'
  BY <1>1, <1>3 DEF StorageInv, Undisturbed, FilesStay, Folders!Active
<1>7. ScanKnows' /\ ShownIsThere'
  BY <1>1 DEF ScanKnows, ShownIsThere
<1>8. QED BY <1>4, <1>5, <1>6, <1>7 DEF StorageInv

\* All of the trash is removed anew; a job that was active keeps its files.
LEMMA FoldersRestartInv == ASSUME StorageInv, Folders!Restart PROVE StorageInv'
<1>1. /\ made' \in [entries : Nat, faults : Nat, failed : BOOLEAN]
      /\ made'.entries = made.entries /\ made'.failed = made.failed
  BY DEF Folders!Restart, Folders!Fault, StorageInv, Folders!TypeOK
<1>2. /\ job' \in [state : {"queued", "running", "done"}, no : 0..MaxJobs, wrote : BOOLEAN, safe : BOOLEAN]
      /\ job'.no = job.no /\ job'.wrote = job.wrote /\ (Folders!Active' => Folders!Active)
  BY DEF Folders!Restart, StorageInv, Folders!TypeOK, Folders!Active
<1>3. 0 \notin removals' /\ removals' \subseteq 0..made.entries /\ DOMAIN trash \subseteq removals'
  BY DEF Folders!Restart, StorageInv, Folders!TypeOK
<1>4. Folders!TypeOK'
  BY <1>1, <1>2, <1>3 DEF Folders!Restart, StorageInv, Folders!TypeOK
<1>5. Undisturbed' /\ InPlaceOnFailure' /\ TrashLeaves'
  BY <1>3 DEF Folders!Restart, Undisturbed, InPlaceOnFailure, TrashLeaves
<1>6. job'.safe = job.safe
  BY DEF Folders!Restart, StorageInv, Folders!TypeOK
<1>7. FilesStay'
  BY <1>2, <1>6 DEF Folders!Restart, StorageInv, FilesStay
<1>8. ScanKnows' /\ ShownIsThere'
  BY DEF Folders!Restart, ScanKnows, ShownIsThere
<1>9. QED BY <1>4, <1>5, <1>7, <1>8 DEF StorageInv

----------------------------------------------------------------------------
(* The scan.                                                                *)

LEMMA ScanInv == ASSUME StorageInv, Folders!ScanBegins \/ Folders!ScanEnds \/ Folders!CacheExpires PROVE StorageInv'
<1>1. /\ UNCHANGED <<folder, trash, removals, deletes, job, stuck, made>>
  BY DEF Folders!ScanBegins, Folders!ScanEnds, Folders!CacheExpires
<1>2. scan' \in [cached : {"dropped", "there", "gone"}, task : {"no", "there", "gone"}]
  BY DEF Folders!ScanBegins, Folders!ScanEnds, Folders!CacheExpires, Folders!Seen, Folders!Dropped, StorageInv, Folders!TypeOK
<1>3. Folders!TypeOK' /\ Undisturbed' /\ InPlaceOnFailure' /\ FilesStay' /\ TrashLeaves'
  BY <1>1, <1>2 DEF StorageInv, Folders!TypeOK, Undisturbed, InPlaceOnFailure, FilesStay, TrashLeaves, Folders!Active
<1>4. ScanKnows' /\ ShownIsThere'
  <2>1. CASE Folders!ScanBegins
    <3>1. scan'.task = Folders!Seen /\ scan'.cached = scan.cached /\ UNCHANGED <<folder, stale>>
      BY <2>1 DEF Folders!ScanBegins, StorageInv, Folders!TypeOK
    <3>2. QED BY <3>1 DEF Folders!Seen, StorageInv, ScanKnows, ShownIsThere
  <2>2. CASE Folders!ScanEnds
    <3>1. scan'.task = "no" /\ scan'.cached = scan.task /\ UNCHANGED <<folder, stale>>
      BY <2>2 DEF Folders!ScanEnds
    <3>2. QED BY <3>1 DEF StorageInv, ScanKnows, ShownIsThere
  <2>3. CASE Folders!CacheExpires
    <3>1. /\ scan'.task = scan.task /\ scan'.cached = "dropped" /\ UNCHANGED folder
          /\ stale' = (scan.task # "no" /\ stale)
      BY <2>3 DEF Folders!CacheExpires, Folders!Dropped, StorageInv, Folders!TypeOK
    <3>2. scan.task = "there" /\ ~stale' => ~stale
      BY <3>1
    <3>3. QED BY <3>1, <3>2 DEF StorageInv, ScanKnows, ShownIsThere
  <2>4. QED BY <2>1, <2>2, <2>3
<1>5. QED BY <1>3, <1>4 DEF StorageInv

----------------------------------------------------------------------------

LEMMA FoldersNextInv == ASSUME Folders!StorageAssumption, StorageInv, [Folders!Next]_(Folders!storageVars) PROVE StorageInv'
<1>1. CASE Folders!Enqueue
  BY <1>1, EnqueueInv
<1>2. CASE Folders!Work
  BY <1>2, WorkInv
<1>3. CASE Folders!JobEnds
  BY <1>3, JobEndsInv
<1>4. ASSUME NEW c \in Calls, Folders!Find(c) PROVE StorageInv'
  BY <1>4, FindInv
<1>5. ASSUME NEW c \in Calls, Folders!AskJobs(c) PROVE StorageInv'
  BY <1>5, AskJobsInv
<1>6. ASSUME NEW c \in Calls, Folders!Move(c) PROVE StorageInv'
  BY <1>6, MoveInv
<1>7. ASSUME NEW target \in removals, Folders!Remove(target) PROVE StorageInv'
  BY <1>7, RemoveInv
<1>8. CASE Folders!Restart
  BY <1>8, FoldersRestartInv
<1>9. CASE Folders!ScanBegins \/ Folders!ScanEnds \/ Folders!CacheExpires
  BY <1>9, ScanInv
<1>10. CASE UNCHANGED Folders!storageVars
  BY <1>10 DEF Folders!storageVars, StorageInv, Folders!TypeOK, Undisturbed, InPlaceOnFailure, ScanKnows, FilesStay, TrashLeaves,
               ShownIsThere, Folders!Active
<1>11. QED BY <1>1, <1>2, <1>3, <1>4, <1>5, <1>6, <1>7, <1>8, <1>9, <1>10 DEF Folders!Next

LEMMA InvStorage == ASSUME StorageInv PROVE Folders!DeletesAreSafe
  BY DEF StorageInv, FilesStay, TrashLeaves, ShownIsThere, Folders!DeletesAreSafe

\* Deleting a folder is safe for the jobs queued after it, with any number of jobs, deletes at a time
\* and faults (Storage.delete, to_trash, _remove_later, empty_trash, folders).
THEOREM DeletesSafe == ASSUME Folders!StorageAssumption PROVE Folders!Spec => []Folders!DeletesAreSafe
<1>1. Folders!Init => StorageInv
  BY FoldersInitInv
<1>2. StorageInv /\ [Folders!Next]_(Folders!storageVars) => StorageInv'
  BY FoldersNextInv
<1>3. StorageInv => Folders!DeletesAreSafe
  BY InvStorage
<1>4. QED BY <1>1, <1>2, <1>3, PTL DEF Folders!Spec

------------------------------------------------------------------------------
(* VodEdits.                                                                *)

Spans == [start : Nat, end : Nat]
VodRows == [duration : Nat, chapters : Seq(Spans), locked : BOOLEAN]
EditSteps ==
  [op : Edits!Ops \cup {"none", "patch"}, step : {"idle", "read", "games", "locked"}, vod : VodRows, gamesEnd : Nat,
   games : Seq(Spans)]

EditTypes ==
  /\ vod \in VodRows /\ games \in Seq(Spans) /\ editsCalls \in [Calls -> EditSteps]
  /\ lockedTo \in Seq(Spans) /\ byHand \in BOOLEAN /\ stepped \in BOOLEAN

\* What was read of the row or of the games is what the call has; of a row that is locked it is what there is,
\* but for games that were removed.
EditReads ==
  \A c \in Calls :
    /\ editsCalls[c].op = "step" => ~editsCalls[c].vod.locked
    /\ editsCalls[c].step = "games" => editsCalls[c].gamesEnd = Edits!GamesEnd(editsCalls[c].games)
    /\ editsCalls[c].step = "locked" =>
         /\ editsCalls[c].vod = vod
         /\ games = <<>> \/ editsCalls[c].gamesEnd = Edits!GamesEnd(games)
         /\ \A d \in Calls : editsCalls[d].step = "locked" => d = c

LockStands == vod.locked /\ ~stepped => vod.chapters = lockedTo
ChaptersStand ==
  byHand /\ vod.duration > 0 /\ "chapters" \notin overtaken =>
    \A ch \in Edits!Elements(vod.chapters) : ch.start + ch.end <= vod.duration + DURATION_SLACK
GamesStand ==
  byHand /\ vod.duration > 0 /\ "games" \notin overtaken =>
    \A g \in Edits!Elements(games) : g.end <= vod.duration + DURATION_SLACK

EditInv == EditTypes /\ EditReads /\ LockStands /\ ChaptersStand /\ GamesStand

----------------------------------------------------------------------------
(* The greatest of the ends of a list: there is one, however long the list. *)

Less == {m \in Nat \X Nat : m[1] < m[2]}

LEMMA Least == ASSUME NEW T \in SUBSET Nat, T # {} PROVE \E x \in T : \A y \in T : x <= y
<1>1. IsWellFoundedOn(Less, Nat)
  <2>1. Less = OpToRel(<, Nat)
    BY DEF Less, OpToRel
  <2>2. QED BY <2>1, NatLessThanWellFounded
<1>2. PICK x \in T : \A y \in T : <<y, x>> \notin Less
  BY <1>1, WFMin
<1>3. ASSUME NEW y \in T PROVE x <= y
  <2>1. <<y, x>> \in Nat \X Nat /\ <<y, x>>[1] = y /\ <<y, x>>[2] = x
    OBVIOUS
  <2>2. ~(y < x)
    BY <1>2, <2>1 DEF Less
  <2>3. QED BY <2>2
<1>4. QED BY <1>3

LEMMA Bounded ==
  ASSUME NEW n \in Nat, NEW v \in [1..n -> Nat]
  PROVE  \E b \in Nat : \A i \in 1..n : v[i] <= b
<1> DEFINE Upto(k) == \E b \in Nat : \A i \in 1..k : v[i] <= b
           T == {k \in 0..n : ~Upto(k)}
<1>1. SUFFICES T = {}
  <2> SUFFICES ASSUME T = {} PROVE Upto(n)
    OBVIOUS
  <2> HIDE DEF Upto
  <2>1. n \in 0..n /\ n \notin T
    OBVIOUS
  <2>2. QED BY <2>1
<1>2. SUFFICES ASSUME T # {} PROVE FALSE
  OBVIOUS
<1>3. PICK k \in T : \A m \in T : k <= m
  <2>1. T \in SUBSET Nat
    OBVIOUS
  <2>2. QED BY <1>2, <2>1, Least
<1>4. k \in 0..n /\ ~Upto(k)
  OBVIOUS
<1>5. k # 0
  BY <1>4
<1>6. k - 1 \in 0..n /\ Upto(k - 1)
  <2> HIDE DEF Upto
  <2>1. k - 1 \in 0..n /\ k \in Nat
    BY <1>4, <1>5
  <2>2. k - 1 \notin T
    <3> HIDE DEF T
    <3>1. ~(k <= k - 1)
      BY <2>1
    <3>2. QED BY <1>3, <3>1
  <2>3. QED BY <2>1, <2>2
<1>7. PICK b \in Nat : \A i \in 1..(k - 1) : v[i] <= b
  BY <1>6
<1>8. PICK top \in Nat : b <= top /\ v[k] <= top
  <2>1. v[k] \in Nat
    BY <1>4, <1>5
  <2>2. CASE v[k] <= b
    BY <2>2
  <2>3. CASE b <= v[k]
    BY <2>1, <2>3
  <2>4. QED BY <2>1, <2>2, <2>3
<1>9. \A i \in 1..k : v[i] <= top
  <2>1. TAKE i \in 1..k
  <2>2. CASE i = k
    BY <1>8, <2>2
  <2>3. CASE i # k
    <3>1. i \in 1..(k - 1) /\ v[i] \in Nat
      BY <1>4, <2>3
    <3>2. QED BY <1>7, <1>8, <3>1
  <2>4. QED BY <2>2, <2>3
<1>10. QED BY <1>4, <1>9

\* Max of 0 and some natural numbers in a list.
LEMMA MaxOfList ==
  ASSUME NEW n \in Nat, NEW v \in [1..n -> Nat], NEW S, S = {0} \cup {v[i] : i \in 1..n}
  PROVE  Edits!Max(S) \in Nat /\ \A x \in S : x <= Edits!Max(S)
<1> DEFINE T == {b \in Nat : \A x \in S : x <= b}
<1>1. S \in SUBSET Nat /\ 0 \in S
  OBVIOUS
<1>2. T \in SUBSET Nat /\ T # {}
  <2>1. PICK b \in Nat : \A i \in 1..n : v[i] <= b
    BY Bounded
  <2>2. b \in T
    BY <2>1
  <2>3. QED BY <2>2
<1>3. PICK m \in T : \A b \in T : m <= b
  BY <1>2, Least
<1>4. m \in Nat /\ \A x \in S : x <= m
  BY <1>3
<1>5. m \in S
  <2>1. SUFFICES ASSUME m \notin S PROVE FALSE
    OBVIOUS
  <2>2. m # 0
    BY <1>1, <2>1
  <2>3. \A x \in S : x <= m - 1
    BY <1>1, <1>4, <2>1
  <2>4. m - 1 \in T
    BY <1>4, <2>2, <2>3
  <2>5. QED BY <1>3, <1>4, <2>4
<1>6. PICK x \in S : x = Edits!Max(S) /\ \A y \in S : x >= y
  <2>1. \A y \in S : m >= y
    BY <1>1, <1>4
  <2>2. QED BY <1>5, <2>1 DEF Edits!Max
<1>7. QED BY <1>1, <1>6

LEMMA ContentEnds ==
  ASSUME NEW list \in Seq(Spans)
  PROVE  /\ Edits!ContentEnd(list) \in Nat
         /\ \A ch \in Edits!Elements(list) : ch \in Spans /\ ch.start + ch.end <= Edits!ContentEnd(list)
<1> DEFINE v == [i \in 1..Len(list) |-> list[i].start + list[i].end]
           S == {0} \cup {ch.start + ch.end : ch \in Edits!Elements(list)}
<1>1. \A i \in 1..Len(list) : list[i] \in Spans
  OBVIOUS
<1>2. Len(list) \in Nat /\ v \in [1..Len(list) -> Nat] /\ \A i \in 1..Len(list) : v[i] = list[i].start + list[i].end
  BY <1>1 DEF Spans
<1>3. Edits!Elements(list) = {list[i] : i \in 1..Len(list)}
  BY DEF Edits!Elements
<1>4. S = {0} \cup {v[i] : i \in 1..Len(list)}
  BY <1>2, <1>3
<1>5. Edits!ContentEnd(list) = Edits!Max(S)
  BY DEF Edits!ContentEnd
<1> HIDE DEF v, S
<1>6. Edits!Max(S) \in Nat /\ \A x \in S : x <= Edits!Max(S)
  BY <1>2, <1>4, MaxOfList
<1>7. \A ch \in Edits!Elements(list) : ch \in Spans /\ ch.start + ch.end \in S
  BY <1>1, <1>3 DEF S
<1>8. QED BY <1>5, <1>6, <1>7

LEMMA GamesEnds ==
  ASSUME NEW rows \in Seq(Spans)
  PROVE  /\ Edits!GamesEnd(rows) \in Nat
         /\ \A g \in Edits!Elements(rows) : g \in Spans /\ g.end <= Edits!GamesEnd(rows)
<1> DEFINE v == [i \in 1..Len(rows) |-> rows[i].end]
           S == {0} \cup {g.end : g \in Edits!Elements(rows)}
<1>1. \A i \in 1..Len(rows) : rows[i] \in Spans
  OBVIOUS
<1>2. Len(rows) \in Nat /\ v \in [1..Len(rows) -> Nat] /\ \A i \in 1..Len(rows) : v[i] = rows[i].end
  BY <1>1 DEF Spans
<1>3. Edits!Elements(rows) = {rows[i] : i \in 1..Len(rows)}
  BY DEF Edits!Elements
<1>4. S = {0} \cup {v[i] : i \in 1..Len(rows)}
  BY <1>2, <1>3
<1>5. Edits!GamesEnd(rows) = Edits!Max(S)
  BY DEF Edits!GamesEnd
<1> HIDE DEF v, S
<1>6. Edits!Max(S) \in Nat /\ \A x \in S : x <= Edits!Max(S)
  BY <1>2, <1>4, MaxOfList
<1>7. \A g \in Edits!Elements(rows) : g \in Spans /\ g.end \in S
  BY <1>1, <1>3 DEF S
<1>8. QED BY <1>5, <1>6, <1>7

LEMMA Fitting ==
  ASSUME Edits!EditsAssumption, NEW list \in Seq(Spans), NEW end \in Nat, NEW seconds \in Nat, Edits!CheckFits(list, end, seconds)
  PROVE  /\ \A ch \in Edits!Elements(list) : ch.start + ch.end <= seconds + DURATION_SLACK
         /\ \A rows \in Seq(Spans) : end = Edits!GamesEnd(rows) =>
              \A g \in Edits!Elements(rows) : g.end <= seconds + DURATION_SLACK
<1>1. Edits!ContentEnd(list) <= seconds + DURATION_SLACK /\ end <= seconds + DURATION_SLACK /\ DURATION_SLACK \in Nat
  BY DEF Edits!CheckFits, Edits!EditsAssumption
<1>2. ASSUME NEW ch \in Edits!Elements(list) PROVE ch.start + ch.end <= seconds + DURATION_SLACK
  <2>1. ch.start \in Nat /\ ch.end \in Nat /\ ch.start + ch.end <= Edits!ContentEnd(list) /\ Edits!ContentEnd(list) \in Nat
    BY ContentEnds DEF Spans
  <2>2. QED BY <1>1, <2>1
<1>3. ASSUME NEW rows \in Seq(Spans), end = Edits!GamesEnd(rows), NEW g \in Edits!Elements(rows)
      PROVE  g.end <= seconds + DURATION_SLACK
  <2>1. g.end \in Nat /\ g.end <= Edits!GamesEnd(rows)
    BY GamesEnds DEF Spans
  <2>2. QED BY <1>1, <1>3, <2>1
<1>4. QED BY <1>2, <1>3

----------------------------------------------------------------------------

NoVod == [duration |-> 0, chapters |-> <<>>, locked |-> FALSE]

LEMMA IdleEdit == Edits!Idle \in EditSteps /\ Edits!Idle.op = "none" /\ Edits!Idle.step = "idle"
<1>1. [duration |-> 0, chapters |-> <<>>, locked |-> FALSE] \in VodRows
  BY DEF VodRows
<1>2. QED BY <1>1 DEF Edits!Idle, EditSteps

LEMMA EmptyFits == \A x \in Edits!Elements(<<>>) : FALSE
BY DEF Edits!Elements

\* The row as it is after a write of some of its columns.
LEMMA DurationSet ==
  ASSUME vod \in VodRows, NEW seconds \in Nat, vod' = [vod EXCEPT !.duration = seconds]
  PROVE  /\ vod' \in VodRows /\ vod'.duration = seconds /\ vod'.chapters = vod.chapters /\ vod'.locked = vod.locked
BY ZenonT(30) DEF VodRows

LEMMA ChaptersSet ==
  ASSUME vod \in VodRows, NEW list \in Seq(Spans), vod' = [vod EXCEPT !.chapters = list]
  PROVE  /\ vod' \in VodRows /\ vod'.duration = vod.duration /\ vod'.chapters = list /\ vod'.locked = vod.locked
BY ZenonT(30) DEF VodRows

LEMMA ChaptersLocked ==
  ASSUME vod \in VodRows, NEW list \in Seq(Spans), NEW locked \in BOOLEAN,
         vod' = [vod EXCEPT !.chapters = list, !.locked = locked]
  PROVE  /\ vod' \in VodRows /\ vod'.duration = vod.duration /\ vod'.chapters = list /\ vod'.locked = locked
BY ZenonT(30) DEF VodRows

\* A call ends, having written or not; one that has the row locked is not disturbed.
LEMMA CallEnds ==
  ASSUME EditTypes, EditReads, NEW c \in Calls, Edits!Ends(c),
         \/ vod' = vod
         \/ \A d \in Calls \ {c} : editsCalls[d].step # "locked",
         games' = games \/ games' = <<>> \/ \A d \in Calls \ {c} : editsCalls[d].step # "locked"
  PROVE  editsCalls' \in [Calls -> EditSteps] /\ EditReads'
<1>1. editsCalls' \in [Calls -> EditSteps] /\ editsCalls'[c] = Edits!Idle /\ \A d \in Calls \ {c} : editsCalls'[d] = editsCalls[d]
  BY IdleEdit DEF EditTypes, Edits!Ends
<1>2. SUFFICES ASSUME NEW d \in Calls
               PROVE  /\ editsCalls'[d].op = "step" => ~editsCalls'[d].vod.locked
                      /\ editsCalls'[d].step = "games" => editsCalls'[d].gamesEnd = Edits!GamesEnd(editsCalls'[d].games)
                      /\ editsCalls'[d].step = "locked" =>
                           /\ editsCalls'[d].vod = vod'
                           /\ games' = <<>> \/ editsCalls'[d].gamesEnd = Edits!GamesEnd(games')
                           /\ \A e \in Calls : editsCalls'[e].step = "locked" => e = d
  BY <1>1 DEF EditReads
<1>3. CASE d = c
  BY <1>1, <1>3, IdleEdit
<1>4. CASE d # c
  <2>1. editsCalls'[d] = editsCalls[d]
    BY <1>1, <1>4
  <2>2. editsCalls[d].step = "locked" => vod' = vod /\ (games' = games \/ games' = <<>>)
    BY <1>4
  <2>3. editsCalls[d].step = "locked" => \A e \in Calls : editsCalls'[e].step = "locked" => e = d
    BY <1>1, IdleEdit DEF EditReads
  <2>4. QED BY <2>1, <2>2, <2>3 DEF EditReads
<1>5. QED BY <1>3, <1>4

----------------------------------------------------------------------------
(* Each step keeps the invariant.                                           *)

LEMMA EditsInitInv == ASSUME Edits!EditsAssumption, Edits!Init PROVE EditInv
<1>1. vod \in VodRows /\ games \in Seq(Spans) /\ lockedTo \in Seq(Spans)
  BY DEF Edits!Init, Edits!EditsAssumption, VodRows, Spans
<1>2. EditTypes
  BY <1>1, IdleEdit DEF Edits!Init, EditTypes
<1>3. EditReads
  BY IdleEdit DEF Edits!Init, EditReads
<1>4. LockStands /\ ChaptersStand /\ GamesStand
  BY DEF Edits!Init, LockStands, ChaptersStand, GamesStand
<1>5. QED BY <1>2, <1>3, <1>4 DEF EditInv

\* A call that begins, or reads on: nothing is written.
LEMMA NothingWritten ==
  ASSUME EditInv, NEW c \in Calls, NEW r \in EditSteps, editsCalls' = [editsCalls EXCEPT ![c] = r], UNCHANGED <<vod, games, Edits!History>>,
         r.op = "step" => ~r.vod.locked,
         r.step = "games" => r.gamesEnd = Edits!GamesEnd(r.games),
         r.step = "locked" => r.vod = vod /\ r.gamesEnd = Edits!GamesEnd(games) /\ Edits!RowFree
  PROVE  EditInv'
<1>1. editsCalls' \in [Calls -> EditSteps] /\ editsCalls'[c] = r /\ \A d \in Calls \ {c} : editsCalls'[d] = editsCalls[d]
  BY DEF EditInv, EditTypes
<1>2. EditTypes' /\ LockStands' /\ ChaptersStand' /\ GamesStand'
  BY <1>1 DEF EditInv, EditTypes, LockStands, ChaptersStand, GamesStand, Edits!History
<1>3. EditReads'
  <2>1. SUFFICES ASSUME NEW d \in Calls
                 PROVE  /\ editsCalls'[d].op = "step" => ~editsCalls'[d].vod.locked
                        /\ editsCalls'[d].step = "games" => editsCalls'[d].gamesEnd = Edits!GamesEnd(editsCalls'[d].games)
                        /\ editsCalls'[d].step = "locked" =>
                             /\ editsCalls'[d].vod = vod
                             /\ games = <<>> \/ editsCalls'[d].gamesEnd = Edits!GamesEnd(games)
                             /\ \A e \in Calls : editsCalls'[e].step = "locked" => e = d
    BY <1>1 DEF EditReads
  <2>2. CASE d = c
    <3>1. editsCalls'[d].step = "locked" => \A e \in Calls : editsCalls'[e].step = "locked" => e = d
      BY <1>1, <2>2 DEF Edits!RowFree
    <3>2. QED BY <1>1, <2>2, <3>1
  <2>3. CASE d # c
    <3>1. editsCalls'[d] = editsCalls[d]
      BY <1>1, <2>3
    <3>2. editsCalls'[d].step = "locked" => \A e \in Calls : editsCalls'[e].step = "locked" => e = d
      BY <1>1, <3>1 DEF EditInv, EditReads, Edits!RowFree
    <3>3. QED BY <3>1, <3>2 DEF EditInv, EditReads
  <2>4. QED BY <2>2, <2>3
<1>4. QED BY <1>2, <1>3 DEF EditInv

LEMMA EditsReadInv == ASSUME EditInv, NEW c \in Calls, Edits!Read(c) PROVE EditInv'
<1>1. PICK op \in Edits!Ops :
        /\ op = "step" => ~vod.locked
        /\ editsCalls' = [editsCalls EXCEPT ![c] = [Edits!Idle EXCEPT !.op = op, !.step = "read", !.vod = vod]]
        /\ UNCHANGED <<vod, games, Edits!History>>
  BY DEF Edits!Read
<1>2. PICK r : r = [Edits!Idle EXCEPT !.op = op, !.step = "read", !.vod = vod]
  OBVIOUS
<1>3. vod \in VodRows
  BY DEF EditInv, EditTypes
<1>4. r \in EditSteps /\ r.op = op /\ r.step = "read" /\ r.vod = vod
  BY <1>2, <1>3, IdleEdit, ZenonT(30) DEF EditSteps
<1>5. editsCalls' = [editsCalls EXCEPT ![c] = r]
  BY <1>1, <1>2
<1>6. QED BY <1>1, <1>4, <1>5, NothingWritten

LEMMA EditsLockInv == ASSUME EditInv, NEW c \in Calls, Edits!Lock(c) PROVE EditInv'
<1>1. /\ Edits!RowFree /\ UNCHANGED <<vod, games, Edits!History>>
      /\ editsCalls' = [editsCalls EXCEPT ![c] =
                     [Edits!Idle EXCEPT !.op = "patch", !.step = "locked", !.vod = vod, !.gamesEnd = Edits!GamesEnd(games)]]
  BY DEF Edits!Lock
<1>2. PICK end \in Nat : end = Edits!GamesEnd(games)
  BY GamesEnds DEF EditInv, EditTypes
<1>3. PICK r : r = [Edits!Idle EXCEPT !.op = "patch", !.step = "locked", !.vod = vod, !.gamesEnd = end]
  OBVIOUS
<1>4. vod \in VodRows
  BY DEF EditInv, EditTypes
<1>5. r \in EditSteps /\ r.op = "patch" /\ r.step = "locked" /\ r.vod = vod /\ r.gamesEnd = end
  BY <1>3, <1>4, IdleEdit, ZenonT(30) DEF EditSteps
<1>6. editsCalls' = [editsCalls EXCEPT ![c] = r]
  BY <1>1, <1>2, <1>3
<1>7. QED BY <1>1, <1>2, <1>5, <1>6, NothingWritten

LEMMA ReadGamesInv == ASSUME EditInv, NEW c \in Calls, Edits!ReadGames(c) PROVE EditInv'
<1>1. /\ editsCalls[c].op = "duration" /\ UNCHANGED <<vod, games, Edits!History>>
      /\ editsCalls' = [editsCalls EXCEPT ![c].step = "games", ![c].gamesEnd = Edits!GamesEnd(games), ![c].games = games]
      /\ editsCalls \in [Calls -> EditSteps] /\ games \in Seq(Spans)
  BY DEF Edits!ReadGames, Edits!At, EditInv, EditTypes
<1>2. PICK end \in Nat : end = Edits!GamesEnd(games)
  BY <1>1, GamesEnds
<1>3. PICK r : r = [[[editsCalls[c] EXCEPT !.step = "games"] EXCEPT !.gamesEnd = end] EXCEPT !.games = games]
  OBVIOUS
<1>4. editsCalls' = [editsCalls EXCEPT ![c] = r]
  BY <1>1, <1>2, <1>3, ZenonT(30)
<1>5. r \in EditSteps /\ r.op = editsCalls[c].op /\ r.step = "games" /\ r.gamesEnd = end /\ r.games = games
  BY <1>1, <1>3, ZenonT(30) DEF EditSteps
<1>6. r.op # "step" /\ r.step # "locked" /\ r.gamesEnd = Edits!GamesEnd(r.games)
  BY <1>1, <1>2, <1>5
<1>7. QED BY <1>1, <1>2, <1>4, <1>5, <1>6, NothingWritten

LEMMA RefusedInv == ASSUME EditInv, NEW c \in Calls, Edits!Refused(c) PROVE EditInv'
<1>1. Edits!Ends(c) /\ UNCHANGED <<vod, games, Edits!History>>
  BY DEF Edits!Refused
<1>2. editsCalls' \in [Calls -> EditSteps] /\ EditReads'
  BY <1>1, CallEnds DEF EditInv
<1>3. EditTypes' /\ LockStands' /\ ChaptersStand' /\ GamesStand'
  BY <1>1, <1>2 DEF EditInv, EditTypes, LockStands, ChaptersStand, GamesStand, Edits!History
<1>4. QED BY <1>2, <1>3 DEF EditInv

LEMMA PutChaptersInv == ASSUME Edits!EditsAssumption, EditInv, NEW c \in Calls, Edits!PutChapters(c) PROVE EditInv'
<1>1. PICK list \in Chapters, locked \in BOOLEAN :
        /\ Edits!RowFree /\ Edits!ChaptersFit(list, editsCalls[c].vod.duration)
        /\ vod' = [vod EXCEPT !.chapters = list, !.locked = locked]
        /\ Edits!Beside("chapters", editsCalls[c].vod.duration = vod.duration)
        /\ lockedTo' = (IF locked THEN list ELSE lockedTo)
        /\ stepped' = FALSE
        /\ Edits!Ends(c)
        /\ UNCHANGED <<games, byHand>>
  BY DEF Edits!PutChapters
<1>2. list \in Seq(Spans) /\ vod \in VodRows
  BY DEF Edits!EditsAssumption, Spans, EditInv, EditTypes
<1>3. /\ vod' \in VodRows /\ vod'.duration = vod.duration /\ vod'.chapters = list /\ vod'.locked = locked
  BY <1>1, <1>2, ChaptersLocked
<1>4. editsCalls' \in [Calls -> EditSteps] /\ EditReads'
  BY <1>1, CallEnds DEF EditInv, Edits!RowFree
<1>5. EditTypes'
  BY <1>1, <1>2, <1>3, <1>4 DEF EditInv, EditTypes
<1>6. LockStands'
  BY <1>1, <1>3 DEF LockStands
<1>7. ChaptersStand'
  <2>1. SUFFICES ASSUME vod.duration > 0, "chapters" \notin overtaken', NEW ch \in Edits!Elements(list)
                 PROVE  ch.start + ch.end <= vod.duration + DURATION_SLACK
    BY <1>3 DEF ChaptersStand
  <2>2. editsCalls[c].vod.duration = vod.duration
    BY <1>1, <2>1 DEF Edits!Beside
  <2>3. QED BY <1>1, <2>1, <2>2 DEF Edits!ChaptersFit
<1>8. GamesStand'
  <2>1. "games" \notin overtaken' => "games" \notin overtaken
    BY <1>1 DEF Edits!Beside
  <2>2. QED BY <1>1, <1>3, <2>1 DEF EditInv, GamesStand
<1>9. QED BY <1>4, <1>5, <1>6, <1>7, <1>8 DEF EditInv

LEMMA PutGamesInv == ASSUME Edits!EditsAssumption, EditInv, NEW c \in Calls, Edits!PutGames(c) PROVE EditInv'
<1>1. PICK rows \in Games :
        /\ rows # <<>> => Edits!RowFree
        /\ Edits!GamesFit(rows, editsCalls[c].vod.duration)
        /\ games' = rows
        /\ Edits!Beside("games", editsCalls[c].vod.duration = vod.duration)
        /\ Edits!Ends(c)
        /\ UNCHANGED <<vod, byHand, lockedTo, stepped>>
  BY DEF Edits!PutGames
<1>2. rows \in Seq(Spans)
  BY DEF Edits!EditsAssumption, Spans
<1>3. editsCalls' \in [Calls -> EditSteps] /\ EditReads'
  BY <1>1, CallEnds DEF EditInv, Edits!RowFree
<1>4. EditTypes' /\ LockStands'
  BY <1>1, <1>2, <1>3 DEF EditInv, EditTypes, LockStands
<1>5. ChaptersStand'
  <2>1. "chapters" \notin overtaken' => "chapters" \notin overtaken
    BY <1>1 DEF Edits!Beside
  <2>2. QED BY <1>1, <2>1 DEF EditInv, ChaptersStand
<1>6. GamesStand'
  <2>1. SUFFICES ASSUME vod.duration > 0, "games" \notin overtaken', NEW g \in Edits!Elements(rows)
                 PROVE  g.end <= vod.duration + DURATION_SLACK
    BY <1>1 DEF GamesStand
  <2>2. editsCalls[c].vod.duration = vod.duration
    BY <1>1, <2>1 DEF Edits!Beside
  <2>3. QED BY <1>1, <2>1, <2>2 DEF Edits!GamesFit
<1>7. QED BY <1>3, <1>4, <1>5, <1>6 DEF EditInv

LEMMA PatchDurationInv == ASSUME Edits!EditsAssumption, EditInv, NEW c \in Calls, Edits!PatchDuration(c) PROVE EditInv'
<1>1. PICK seconds \in Durations :
        /\ editsCalls[c].step = "games" /\ Edits!RowFree
        /\ Edits!CheckFits(editsCalls[c].vod.chapters, editsCalls[c].gamesEnd, seconds)
        /\ vod' = [vod EXCEPT !.duration = seconds]
        /\ byHand' = TRUE
        /\ overtaken' = {w \in {"chapters"} : editsCalls[c].vod.chapters # vod.chapters}
                        \cup {w \in {"games"} : editsCalls[c].games # games}
        /\ Edits!Ends(c)
        /\ UNCHANGED <<games, lockedTo, stepped>>
  BY DEF Edits!PatchDuration
<1>2. /\ seconds \in Nat /\ vod \in VodRows /\ editsCalls[c].vod.chapters \in Seq(Spans) /\ editsCalls[c].gamesEnd \in Nat
      /\ games \in Seq(Spans)
  BY DEF Edits!EditsAssumption, EditInv, EditTypes, EditSteps, VodRows
<1>3. /\ vod' \in VodRows /\ vod'.duration = seconds /\ vod'.chapters = vod.chapters /\ vod'.locked = vod.locked
  BY <1>1, <1>2, DurationSet
<1>4. editsCalls' \in [Calls -> EditSteps] /\ EditReads'
  BY <1>1, CallEnds DEF EditInv, Edits!RowFree
<1>5. EditTypes' /\ LockStands'
  BY <1>1, <1>2, <1>3, <1>4 DEF EditInv, EditTypes, LockStands
<1>6. ChaptersStand'
  <2>1. SUFFICES ASSUME "chapters" \notin overtaken', NEW ch \in Edits!Elements(vod.chapters)
                 PROVE  ch.start + ch.end <= seconds + DURATION_SLACK
    BY <1>3 DEF ChaptersStand
  <2>2. editsCalls[c].vod.chapters = vod.chapters
    BY <1>1, <2>1
  <2>3. QED BY <1>1, <1>2, <2>1, <2>2, Fitting
<1>7. GamesStand'
  <2>1. SUFFICES ASSUME "games" \notin overtaken', NEW g \in Edits!Elements(games)
                 PROVE  g.end <= seconds + DURATION_SLACK
    BY <1>1, <1>3 DEF GamesStand
  <2>2. editsCalls[c].gamesEnd = Edits!GamesEnd(games)
    BY <1>1, <2>1 DEF EditInv, EditReads
  <2>3. QED BY <1>1, <1>2, <2>1, <2>2, Fitting
<1>8. QED BY <1>4, <1>5, <1>6, <1>7 DEF EditInv

\* The row as the PATCH read it is the row as it is; the games may only have been removed since.
LEMMA LockedPatchInv == ASSUME Edits!EditsAssumption, EditInv, NEW c \in Calls, Edits!LockedPatch(c) PROVE EditInv'
<1>1. PICK seconds \in Durations :
        /\ editsCalls[c].step = "locked"
        /\ Edits!CheckFits(editsCalls[c].vod.chapters, editsCalls[c].gamesEnd, seconds)
        /\ vod' = [vod EXCEPT !.duration = seconds]
        /\ byHand' = TRUE /\ overtaken' = {}
        /\ Edits!Ends(c)
        /\ UNCHANGED <<games, lockedTo, stepped>>
  BY DEF Edits!LockedPatch
<1>2. /\ editsCalls[c].vod = vod /\ (games = <<>> \/ editsCalls[c].gamesEnd = Edits!GamesEnd(games))
      /\ \A d \in Calls \ {c} : editsCalls[d].step # "locked"
  BY <1>1 DEF EditInv, EditReads
<1>3. /\ seconds \in Nat /\ vod \in VodRows /\ vod.chapters \in Seq(Spans) /\ editsCalls[c].gamesEnd \in Nat
      /\ games \in Seq(Spans)
  BY DEF Edits!EditsAssumption, EditInv, EditTypes, EditSteps, VodRows
<1>4. /\ vod' \in VodRows /\ vod'.duration = seconds /\ vod'.chapters = vod.chapters /\ vod'.locked = vod.locked
  BY <1>1, <1>3, DurationSet
<1>5. editsCalls' \in [Calls -> EditSteps] /\ EditReads'
  BY <1>1, <1>2, CallEnds DEF EditInv
<1>6. EditTypes' /\ LockStands'
  BY <1>1, <1>3, <1>4, <1>5 DEF EditInv, EditTypes, LockStands
<1>7. ChaptersStand'
  BY <1>1, <1>2, <1>3, <1>4, Fitting DEF ChaptersStand
<1>8. GamesStand'
  <2>1. SUFFICES ASSUME NEW g \in Edits!Elements(games) PROVE g.end <= seconds + DURATION_SLACK
    BY <1>1, <1>4 DEF GamesStand
  <2>2. editsCalls[c].gamesEnd = Edits!GamesEnd(games)
    BY <1>2, <2>1, EmptyFits
  <2>3. QED BY <1>1, <1>2, <1>3, <2>1, <2>2, Fitting
<1>9. QED BY <1>5, <1>6, <1>7, <1>8 DEF EditInv

LEMMA SaveDurationInv == ASSUME Edits!EditsAssumption, EditInv, NEW c \in Calls, Edits!SaveDuration(c) PROVE EditInv'
<1>1. /\ Edits!RowFree /\ vod' = [vod EXCEPT !.duration = TwitchDuration] /\ byHand' = FALSE /\ Edits!Ends(c)
      /\ UNCHANGED <<games, overtaken, lockedTo, stepped>>
      /\ vod \in VodRows /\ TwitchDuration \in Nat
  BY DEF Edits!SaveDuration, EditInv, EditTypes, Edits!EditsAssumption
<1>2. /\ vod' \in VodRows /\ vod'.chapters = vod.chapters /\ vod'.locked = vod.locked
  BY <1>1, DurationSet
<1>3. editsCalls' \in [Calls -> EditSteps] /\ EditReads'
  BY <1>1, CallEnds DEF EditInv, Edits!RowFree
<1>4. EditTypes' /\ LockStands' /\ ChaptersStand' /\ GamesStand'
  BY <1>1, <1>2, <1>3 DEF EditInv, EditTypes, LockStands, ChaptersStand, GamesStand
<1>5. QED BY <1>3, <1>4 DEF EditInv

LEMMA StepWritesInv == ASSUME Edits!EditsAssumption, EditInv, NEW c \in Calls, Edits!StepWrites(c) PROVE EditInv'
<1>1. /\ editsCalls[c].op \in {"step", "forced"} /\ Edits!RowFree
      /\ vod' = [vod EXCEPT !.chapters = FromTwitch] /\ Edits!Beside("chapters", FALSE)
      /\ stepped' = (stepped \/ editsCalls[c].op = "forced" \/ ~editsCalls[c].vod.locked) /\ Edits!Ends(c)
      /\ UNCHANGED <<games, byHand, lockedTo>>
      /\ vod \in VodRows /\ FromTwitch \in Seq(Spans)
  BY DEF Edits!StepWrites, Edits!At, EditInv, EditTypes, Edits!EditsAssumption, Spans
<1>2. /\ vod' \in VodRows /\ vod'.duration = vod.duration /\ vod'.locked = vod.locked
  BY <1>1, ChaptersSet
<1>3. editsCalls' \in [Calls -> EditSteps] /\ EditReads'
  BY <1>1, CallEnds DEF EditInv, Edits!RowFree
<1>4. stepped' = TRUE
  BY <1>1 DEF EditInv, EditReads
<1>5. EditTypes' /\ LockStands'
  BY <1>1, <1>2, <1>3, <1>4 DEF EditInv, EditTypes, LockStands
<1>6. ChaptersStand' /\ GamesStand'
  <2>1. "chapters" \in overtaken' /\ ("games" \notin overtaken' => "games" \notin overtaken)
    BY <1>1 DEF Edits!Beside
  <2>2. QED BY <1>1, <1>2, <2>1 DEF EditInv, ChaptersStand, GamesStand
<1>7. QED BY <1>3, <1>5, <1>6 DEF EditInv

LEMMA EditsNextInv == ASSUME Edits!EditsAssumption, EditInv, [Edits!Next]_(Edits!editVars) PROVE EditInv'
<1>1. CASE UNCHANGED Edits!editVars
  <2>1. EditTypes' /\ EditReads'
    BY <1>1 DEF Edits!editVars, EditInv, EditTypes, EditReads
  <2>2. LockStands' /\ ChaptersStand' /\ GamesStand'
    BY <1>1 DEF Edits!editVars, EditInv, LockStands, ChaptersStand, GamesStand
  <2>3. QED BY <2>1, <2>2 DEF EditInv
<1>2. CASE Edits!Next
  BY <1>2, EditsReadInv, RefusedInv, PutChaptersInv, PutGamesInv, ReadGamesInv, PatchDurationInv, SaveDurationInv,
     StepWritesInv, EditsLockInv, LockedPatchInv DEF Edits!Next
<1>3. QED BY <1>1, <1>2

LEMMA InvEdits == ASSUME EditInv PROVE Edits!EditsHold
  BY DEF EditInv, LockStands, ChaptersStand, GamesStand, Edits!EditsHold

\* The hand edits of a VOD (admin.py, vod_edits.py, steps/metadata.py), for lists of any length, any
\* durations and any number of requests and jobs: locked chapters stay as locked, and a duration set by hand
\* holds what the VOD shows, but for what overtook it.
THEOREM EditsStand == ASSUME Edits!EditsAssumption PROVE Edits!Spec => []Edits!EditsHold
<1>1. Edits!Init => EditInv
  BY EditsInitInv
<1>2. EditInv /\ [Edits!Next]_(Edits!editVars) => EditInv'
  BY EditsNextInv
<1>3. EditInv => Edits!EditsHold
  BY InvEdits
<1>4. QED BY <1>1, <1>2, <1>3, PTL DEF Edits!Spec

------------------------------------------------------------------------------
(* JobLog.                                                                  *)

Logged == 1..logged
Shown == Events!ToSet(poll.shown)
LogRows == {eventsTable[s] : s \in Events!Seqs}
InHand == Events!ToSet(pending) \cup UNION {Events!ToSet(tx[f].batch) : f \in Events!Flushers}

\* The first seq that is neither committed nor given up.
Base == IF eventsLock \in Events!Flushers /\ tx[eventsLock].step = "inserted" THEN next - Len(tx[eventsLock].batch) ELSE next

LogTypes ==
  /\ logged \in Nat /\ next \in Nat \ {0} /\ since \in Nat
  /\ pending \in Seq(Logged) /\ lost \in SUBSET Logged
  /\ eventsTable \in [Events!Seqs -> Logged]
  /\ eventsLock \in Events!Flushers \cup {NoOne}
  /\ tx = [f \in Events!Flushers |-> [step |-> tx[f].step, batch |-> tx[f].batch, rows |-> tx[f].rows]]
  /\ poll = [after |-> poll.after, shown |-> poll.shown]
  /\ poll.after \in Nat /\ poll.shown \in Seq(Logged)

\* Who has the lock has a batch; its rows have the seqs given out last.
Batches ==
  /\ tx["loop"].step # "read"
  /\ \A f \in Events!Flushers :
       /\ tx[f].step \in {"out", "read", "taken", "inserted"} /\ tx[f].batch \in Seq(Logged)
       /\ tx[f].step \in {"taken", "inserted"} <=> eventsLock = f
       /\ eventsLock # f => tx[f].batch = <<>>
       /\ tx[f].step = "inserted" => tx[f].rows = [seq \in Base..(next - 1) |-> tx[f].batch[(seq - Base) + 1]]
  /\ Base \in Nat \ {0}

Rising(s) == \A i, k \in 1..Len(s) : i < k => s[i] < s[k]
Before(S, T) == \A x \in S, y \in T : x < y

\* What is shown or in the table, then the batch under way, then what is pending.
InTurn ==
  /\ Rising(pending) /\ Rising(poll.shown)
  /\ Events!Seqs \subseteq 1..(Base - 1) /\ poll.after < Base
  /\ \A s, t \in Events!Seqs : s < t => eventsTable[s] < eventsTable[t]
  /\ \A f \in Events!Flushers : /\ Rising(tx[f].batch)
                                /\ Before(Shown \cup LogRows, Events!ToSet(tx[f].batch)) /\ Before(Events!ToSet(tx[f].batch), Events!ToSet(pending))
  /\ Before(Shown \cup LogRows, Events!ToSet(pending))
  /\ \A s \in Events!Seqs : IF s > poll.after THEN Before(Shown, {eventsTable[s]}) ELSE eventsTable[s] \in Shown

\* What was written and is not there has cap rows after it.
NewestKept == \A e \in Logged \ (lost \cup InHand) : e \in LogRows \/ Cardinality({k \in LogRows : k > e}) >= cap

LogInv == LogTypes /\ Batches /\ InTurn /\ NewestKept

----------------------------------------------------------------------------
(* Ranks in a finite order.                                                 *)

IsRank(r, D, below) ==
  /\ r \in [D -> 0..(Cardinality(D) - 1)]
  /\ \A s \in D : r[s] = Cardinality(below[s])
  /\ \A s, t \in D : s \in below[t] <=> r[s] < r[t]
  /\ \A n \in 0..(Cardinality(D) - 1) : \E s \in D : r[s] = n

\* below[s] is what comes before s: how many they are numbers the elements from 0.
LEMMA Ranks ==
  ASSUME NEW D, IsFiniteSet(D), NEW below \in [D -> SUBSET D],
         \A s \in D : s \notin below[s],
         \A s, t \in D : s = t \/ s \in below[t] \/ t \in below[s],
         \A s, t \in D : s \in below[t] => below[s] \subseteq below[t]
  PROVE  \E r : IsRank(r, D, below)
<1> DEFINE n == Cardinality(D)
           r == [s \in D |-> Cardinality(below[s])]
<1>1. n \in Nat
  BY FS_CardinalityType
<1>2. ASSUME NEW s \in D PROVE IsFiniteSet(below[s]) /\ Cardinality(below[s]) \in Nat /\ Cardinality(below[s]) < n
  <2>1. IsFiniteSet(below[s]) /\ Cardinality(below[s]) <= n /\ (n = Cardinality(below[s]) => below[s] = D)
    BY FS_Subset
  <2>2. below[s] # D /\ Cardinality(below[s]) \in Nat
    BY <2>1, FS_CardinalityType
  <2>3. QED BY <1>1, <2>1, <2>2
<1>3. r \in [D -> 0..(n - 1)]
  BY <1>1, <1>2
<1>4. ASSUME NEW s \in D, NEW t \in D, s \in below[t] PROVE r[s] < r[t]
  <2>1. below[s] \subseteq below[t] /\ below[s] # below[t]
    BY <1>4
  <2>2. Cardinality(below[s]) <= Cardinality(below[t]) /\ Cardinality(below[t]) # Cardinality(below[s])
    BY <1>2, <2>1, FS_Subset
  <2>3. QED BY <1>2, <2>2
<1>5. ASSUME NEW s \in D, NEW t \in D, r[s] < r[t] PROVE s \in below[t]
  <2>1. r[s] \in Int /\ r[t] \in Int
    BY <1>3
  <2>2. s # t /\ t \notin below[s]
    BY <1>4, <1>5, <2>1
  <2>3. QED BY <2>2
<1>6. ASSUME NEW s \in D, NEW t \in D, r[s] = r[t] PROVE s = t
  <2>1. r[s] \in Int /\ r[t] \in Int
    BY <1>3
  <2>2. s \notin below[t] /\ t \notin below[s]
    BY <1>4, <1>6, <2>1
  <2>3. QED BY <2>2
<1>7. \A k \in 0..(n - 1) : \E s \in D : r[s] = k
  <2>1. r \in Injection(D, 0..(n - 1))
    BY <1>3, <1>6 DEF Injection, IsInjective
  <2>2. IsFiniteSet(0..(n - 1)) /\ Cardinality(0..(n - 1)) = n
    BY SMTT(30), <1>1, FS_Interval
  <2> HIDE DEF r
  <2>3. r \in Surjection(D, 0..(n - 1))
    BY <2>1, <2>2, FS_Injection
  <2>4. QED BY <2>3 DEF Surjection
<1>8. \A s \in D : r[s] = Cardinality(below[s])
  OBVIOUS
<1>9. \A s, t \in D : s \in below[t] <=> r[s] < r[t]
  BY <1>4, <1>5
<1> HIDE DEF r
<1>10. IsRank(r, D, below)
  BY <1>3, <1>7, <1>8, <1>9 DEF IsRank
<1>11. QED BY <1>10

Later(S, e) == {k \in S : k > e}
Of(rows, S) == {rows[t] : t \in S}
Newest(D, c) == {s \in D : Cardinality({t \in D : t > s}) < c}

\* A prune leaves c rows after whatever it takes.
LEMMA PruneKeeps ==
  ASSUME NEW D \in SUBSET Int, IsFiniteSet(D), NEW rows \in [D -> Int], \A s, t \in D : s < t => rows[s] < rows[t],
         NEW c \in Nat, NEW e \in Int, e \notin Of(rows, Newest(D, c)),
         e \in Of(rows, D) \/ Cardinality(Later(Of(rows, D), e)) >= c
  PROVE  Cardinality(Later(Of(rows, Newest(D, c)), e)) >= c
<1> DEFINE above == [s \in D |-> {t \in D : t > s}]
           U == {t \in D : rows[t] > e}
           newest == Newest(D, c)
<1>8. newest \in SUBSET D /\ newest = {s \in D : Cardinality({t \in D : t > s}) < c}
  BY DEF Newest
<1> HIDE DEF newest
<1>9. /\ e \notin {rows[t] : t \in newest}
      /\ e \in {rows[t] : t \in D} \/ Cardinality({k \in {rows[t] : t \in D} : k > e}) >= c
  BY DEF newest, Of, Later
<1>1. \A s \in D : IsFiniteSet(above[s]) /\ Cardinality(above[s]) \in Nat /\ (s \in newest <=> Cardinality(above[s]) < c)
  BY <1>8, FS_Subset, FS_CardinalityType
<1>2. IsFiniteSet(U) /\ Cardinality(U) \in Nat /\ Cardinality(U) <= Cardinality(D) /\ Cardinality(D) \in Nat
  BY FS_Subset, FS_CardinalityType
<1>3. Cardinality(U) >= c
  <2>1. CASE e \in {rows[t] : t \in D}
    <3>1. PICK s \in D : rows[s] = e
      BY <2>1
    <3>2. Cardinality(above[s]) >= c
      BY <1>1, <1>9, <3>1
    <3>3. above[s] \subseteq U
      BY <3>1
    <3>4. Cardinality(above[s]) <= Cardinality(U)
      BY <1>2, <3>3, FS_Subset
    <3>5. Cardinality(above[s]) \in Nat
      BY <1>1, <3>1
    <3> HIDE DEF above, U
    <3>6. QED BY <1>2, <3>2, <3>4, <3>5
  <2>2. CASE Cardinality({k \in {rows[t] : t \in D} : k > e}) >= c
    <3> DEFINE later == {k \in {rows[t] : t \in D} : k > e}
               g == [t \in U |-> rows[t]]
    <3>1. g \in Surjection(U, later)
      BY DEF Surjection
    <3>2. IsFiniteSet(later) /\ Cardinality(later) <= Cardinality(U)
      <4> HIDE DEF g, U, later
      <4>1. QED BY <1>2, <3>1, FS_Surjection
    <3>3. Cardinality(later) \in Nat /\ Cardinality(later) >= c
      BY <2>2, <3>2, FS_CardinalityType
    <3>4. QED BY <1>2, <3>2, <3>3
  <2>3. QED BY <1>9, <2>1, <2>2
<1>4. newest \subseteq U
  <2>1. SUFFICES ASSUME NEW s \in newest, s \notin U PROVE FALSE
    OBVIOUS
  <2>5. s \in D
    BY <1>8
  <2>2. ASSUME NEW t \in U PROVE t > s
    <3>1. t \in D /\ rows[t] > e /\ rows[s] \in Int /\ rows[t] \in Int /\ s \in Int /\ t \in Int /\ ~(rows[s] > e)
      BY <2>1, <2>5
    <3>2. t # s
      BY <3>1
    <3>3. ~(t < s)
      BY <2>5, <3>1
    <3>4. QED BY <3>1, <3>2, <3>3
  <2>3. Cardinality(U) <= Cardinality(above[s])
    <3>1. U \subseteq above[s]
      BY <2>2, <2>5
    <3>2. QED BY <1>1, <2>5, <3>1, FS_Subset
  <2>4. Cardinality(above[s]) \in Nat /\ Cardinality(above[s]) < c
    BY <1>1, <2>1, <2>5
  <2> HIDE DEF above, U
  <2>6. QED BY <1>2, <1>3, <2>3, <2>4
<1>5. Cardinality(newest) >= c /\ IsFiniteSet(newest)
  <2>1. PICK r \in [D -> 0..(Cardinality(D) - 1)] : /\ \A s \in D : r[s] = Cardinality(above[s])
                                                    /\ \A n \in 0..(Cardinality(D) - 1) : \E s \in D : r[s] = n
    <3>1. above \in [D -> SUBSET D] /\ \A s \in D : s \notin above[s]
      OBVIOUS
    <3>2. \A s, t \in D : s = t \/ s \in above[t] \/ t \in above[s]
      OBVIOUS
    <3>3. ASSUME NEW s \in D, NEW t \in D, s \in above[t], NEW u \in above[s] PROVE u \in above[t]
      <4>1. s > t /\ u > s /\ u \in D /\ s \in Int /\ t \in Int /\ u \in Int
        BY <3>3
      <4>2. QED BY <4>1
    <3> HIDE DEF above
    <3>4. \A s, t \in D : s \in above[t] => above[s] \subseteq above[t]
      BY <3>3
    <3>5. PICK r : IsRank(r, D, above)
      BY <3>1, <3>2, <3>4, Ranks
    <3>6. QED BY <3>5 DEF IsRank
  <2> DEFINE g == [s \in newest |-> r[s]]
  <2>2. g \in Surjection(newest, 0..(c - 1))
    <3>1. ASSUME NEW s \in newest PROVE r[s] \in 0..(c - 1)
      BY <1>1, <1>8, <2>1
    <3>2. ASSUME NEW n \in 0..(c - 1) PROVE \E s \in newest : r[s] = n
      <4>1. n \in 0..(Cardinality(D) - 1)
        BY <1>2, <1>3
      <4>2. PICK s \in D : r[s] = n
        BY <2>1, <4>1
      <4>3. Cardinality(above[s]) = n /\ n < c
        BY <2>1, <4>2
      <4>5. s \in newest
        BY <1>1, <4>2, <4>3
      <4>4. QED BY <4>2, <4>5
    <3>3. QED BY <3>1, <3>2 DEF Surjection
  <2>3. Cardinality(0..(c - 1)) = c
    <3>1. 0 \in Int /\ c - 1 \in Int /\ (c - 1) - 0 + 1 = c /\ (0 > c - 1 <=> c = 0)
      OBVIOUS
    <3>2. Cardinality(0..(c - 1)) = IF 0 > c - 1 THEN 0 ELSE (c - 1) - 0 + 1
      BY <3>1, FS_Interval
    <3>3. QED BY <3>1, <3>2
  <2>6. IsFiniteSet(newest)
    BY <1>8, FS_Subset
  <2> HIDE DEF g
  <2>4. Cardinality(0..(c - 1)) <= Cardinality(newest)
    BY <2>2, <2>6, FS_Surjection
  <2>5. QED BY <2>3, <2>4, <2>6
<1>6. Cardinality(newest) <= Cardinality({k \in {rows[t] : t \in newest} : k > e}) /\ Cardinality(newest) \in Nat
      /\ Cardinality({k \in {rows[t] : t \in newest} : k > e}) \in Nat
  <2> DEFINE T == {k \in {rows[t] : t \in newest} : k > e}
             g == [t \in newest |-> rows[t]]
  <2>1. g \in Injection(newest, T)
    <3>1. \A t \in newest : rows[t] \in T
      BY <1>4
    <3>2. \A s, t \in newest : rows[s] = rows[t] => s = t
      <4>1. SUFFICES ASSUME NEW s \in newest, NEW t \in newest, rows[s] = rows[t], s # t PROVE FALSE
        OBVIOUS
      <4>2. s \in D /\ t \in D /\ (s < t \/ t < s)
        BY <1>8, <4>1
      <4>3. rows[s] \in Int /\ rows[t] \in Int
        BY <4>2
      <4>4. QED BY <4>1, <4>2, <4>3
    <3>3. QED BY <3>1, <3>2 DEF Injection, IsInjective
  <2>2. g \in Surjection(newest, T)
    BY <1>4 DEF Surjection
  <2> HIDE DEF g, T
  <2>3. IsFiniteSet(T)
    BY <1>5, <2>2, FS_Surjection
  <2>4. QED BY <1>5, <2>1, <2>3, FS_Injection, FS_CardinalityType DEF T
<1>7. QED BY <1>5, <1>6 DEF Later, Of, newest

\* A finite set of numbers that is not empty has a greatest.
LEMMA Greatest == ASSUME NEW S \in SUBSET Int, IsFiniteSet(S), S # {} PROVE \E s \in S : \A t \in S : t <= s
<1> DEFINE below == [s \in S |-> {t \in S : t < s}]
           n == Cardinality(S)
<1>1. PICK r : IsRank(r, S, below)
  <2>1. below \in [S -> SUBSET S] /\ \A s \in S : s \notin below[s]
    OBVIOUS
  <2>2. \A s, t \in S : s = t \/ s \in below[t] \/ t \in below[s]
    OBVIOUS
  <2>3. ASSUME NEW s \in S, NEW t \in S, s \in below[t], NEW u \in below[s] PROVE u \in below[t]
    <3>1. s < t /\ u < s /\ u \in S /\ s \in Int /\ t \in Int /\ u \in Int
      BY <2>3
    <3>2. QED BY <3>1
  <2> HIDE DEF below
  <2>4. \A s, t \in S : s \in below[t] => below[s] \subseteq below[t]
    BY <2>3
  <2>5. QED BY <2>1, <2>2, <2>4, Ranks
<1>2. n \in Nat /\ n # 0
  BY FS_CardinalityType, FS_EmptySet
<1>3. n - 1 \in 0..(n - 1)
  BY <1>2
<1>4. PICK s \in S : r[s] = n - 1
  BY <1>1, <1>3 DEF IsRank
<1>5. ASSUME NEW t \in S PROVE ~(s < t)
  <2>1. SUFFICES ASSUME s < t PROVE FALSE
    OBVIOUS
  <2>2. s \in below[t]
    BY <2>1
  <2>3. r[s] < r[t] /\ r[t] \in 0..(n - 1)
    BY <1>1, <2>2 DEF IsRank
  <2>4. QED BY <1>2, <1>4, <2>3
<1>6. \A t \in S : t <= s
  BY <1>5
<1>7. QED BY <1>6

\* The rows of a page are shown in the order of their seqs, each once.
LEMMA PageInOrder ==
  ASSUME NEW page, IsFiniteSet(page), page \subseteq Events!Seqs, Events!Seqs \subseteq Int, eventsTable \in [Events!Seqs -> Logged],
         \A s, t \in Events!Seqs : s < t => eventsTable[s] < eventsTable[t]
  PROVE  /\ Events!InOrder(page) \in Seq(Logged) /\ Rising(Events!InOrder(page))
         /\ Events!ToSet(Events!InOrder(page)) = {eventsTable[s] : s \in page}
<1> DEFINE below == [s \in page |-> {t \in page : t < s}]
           n == Cardinality(page)
           at == [i \in 1..n |-> CHOOSE s \in page : Cardinality({t \in page : t < s}) = i - 1]
<1>1. Events!InOrder(page) = [i \in 1..n |-> eventsTable[at[i]]]
  BY DEF Events!InOrder, Events!Cardinality, Cardinality, Events!IsFiniteSet, IsFiniteSet
<1>2. n \in Nat
  BY FS_CardinalityType
<1>12. PICK r : IsRank(r, page, below)
  <2>1. below \in [page -> SUBSET page] /\ \A s \in page : s \notin below[s]
    OBVIOUS
  <2>2. \A s, t \in page : s = t \/ s \in below[t] \/ t \in below[s]
    OBVIOUS
  <2>3. ASSUME NEW s \in page, NEW t \in page, s \in below[t], NEW u \in below[s] PROVE u \in below[t]
    <3>1. s < t /\ u < s /\ u \in page /\ s \in Int /\ t \in Int /\ u \in Int
      BY <2>3
    <3>2. QED BY <3>1
  <2> HIDE DEF below
  <2>4. \A s, t \in page : s \in below[t] => below[s] \subseteq below[t]
    BY <2>3
  <2>5. QED BY <2>1, <2>2, <2>4, Ranks
<1>3. /\ r \in [page -> 0..(n - 1)]
      /\ \A s \in page : r[s] = Cardinality(below[s])
      /\ \A s, t \in page : s \in below[t] <=> r[s] < r[t]
      /\ \A k \in 0..(n - 1) : \E s \in page : r[s] = k
  BY <1>12 DEF IsRank
<1>4. \A s \in page : r[s] = Cardinality({t \in page : t < s})
  BY <1>3
<1>5. \A i \in 1..n : at[i] \in page /\ r[at[i]] = i - 1
  <2>1. SUFFICES ASSUME NEW i \in 1..n PROVE at[i] \in page /\ r[at[i]] = i - 1
    OBVIOUS
  <2>2. i - 1 \in 0..(n - 1)
    BY <1>2
  <2>3. \E s \in page : Cardinality({t \in page : t < s}) = i - 1
    BY <1>3, <1>4, <2>2
  <2>4. at[i] \in page /\ Cardinality({t \in page : t < at[i]}) = i - 1
    BY <2>3
  <2> HIDE DEF at
  <2>5. QED BY <1>4, <2>4
<1> HIDE DEF at
<1>6. ASSUME NEW s \in page PROVE \E i \in 1..n : at[i] = s
  <2>1. PICK i \in 1..n : i = r[s] + 1
    BY <1>2, <1>3
  <2>2. at[i] \in page /\ r[at[i]] = r[s]
    <3>1. at[i] \in page /\ r[at[i]] = i - 1 /\ r[s] \in Int
      BY <1>3, <1>5, <2>1
    <3>2. QED BY <2>1, <3>1
  <2>3. at[i] = s
    <3>1. at[i] \notin below[s] /\ s \notin below[at[i]]
      <4>1. ~(r[s] < r[s])
        BY <1>2, <1>3
      <4> HIDE DEF below
      <4>2. QED BY <1>3, <2>2, <4>1
    <3>2. at[i] \in Int /\ s \in Int
      BY <2>2
    <3>3. QED BY <2>2, <3>1, <3>2
  <2>4. QED BY <2>3
<1>7. ASSUME NEW i \in 1..n, NEW k \in 1..n, i < k PROVE at[i] < at[k]
  <2>1. at[i] \in page /\ at[k] \in page /\ r[at[i]] = i - 1 /\ r[at[k]] = k - 1
    BY <1>5, <1>7
  <2>2. at[i] \in below[at[k]]
    <3>1. r[at[i]] < r[at[k]]
      BY <1>2, <1>7, <2>1
    <3> HIDE DEF below
    <3>2. QED BY <1>3, <2>1, <3>1
  <2>3. QED BY <2>1, <2>2
<1>8. Events!InOrder(page) \in Seq(Logged) /\ Len(Events!InOrder(page)) = n /\ DOMAIN Events!InOrder(page) = 1..n
  <2>1. \A i \in 1..n : eventsTable[at[i]] \in Logged
    BY <1>5
  <2>2. Events!InOrder(page) \in [1..n -> Logged]
    BY <1>1, <2>1
  <2>3. QED BY <1>2, <2>2
<1>9. Rising(Events!InOrder(page))
  BY ZenonT(40), <1>1, <1>5, <1>7, <1>8 DEF Rising
<1>10. Events!ToSet(Events!InOrder(page)) = {eventsTable[s] : s \in page}
  <2>1. ASSUME NEW y \in Events!ToSet(Events!InOrder(page)) PROVE y \in {eventsTable[s] : s \in page}
    <3>1. PICK i \in 1..n : y = Events!InOrder(page)[i]
      BY <1>8 DEF Events!ToSet
    <3>2. y = eventsTable[at[i]] /\ at[i] \in page
      BY <1>1, <1>5, <3>1
    <3>3. QED BY <3>2
  <2>2. ASSUME NEW s \in page PROVE eventsTable[s] \in Events!ToSet(Events!InOrder(page))
    BY <1>1, <1>6, <1>8 DEF Events!ToSet
  <2>3. QED BY <2>1, <2>2
<1>11. QED BY <1>8, <1>9, <1>10

----------------------------------------------------------------------------
(* Sequences of events.                                                     *)

LEMMA Appended ==
  ASSUME NEW S, NEW s \in Seq(S), NEW e \in S
  PROVE  Append(s, e) \in Seq(S) /\ Events!ToSet(Append(s, e)) = Events!ToSet(s) \cup {e} /\ Len(Append(s, e)) = Len(s) + 1
         /\ \A i \in 1..Len(s) : Append(s, e)[i] = s[i]
<1>1. Len(s) \in Nat /\ DOMAIN s = 1..Len(s) /\ DOMAIN Append(s, e) = 1..(Len(s) + 1)
  OBVIOUS
<1>2. \A i \in 1..Len(s) : Append(s, e)[i] = s[i]
  OBVIOUS
<1>3. Append(s, e)[Len(s) + 1] = e
  OBVIOUS
<1>4. Events!ToSet(Append(s, e)) = Events!ToSet(s) \cup {e}
  BY <1>1, <1>2, <1>3 DEF Events!ToSet
<1>5. QED BY <1>1, <1>2, <1>4

LEMMA Tailed ==
  ASSUME NEW S, NEW s \in Seq(S), s # <<>>
  PROVE  Tail(s) \in Seq(S) /\ Head(s) \in S /\ Events!ToSet(s) = {Head(s)} \cup Events!ToSet(Tail(s)) /\ (Rising(s) => Rising(Tail(s)))
<1>1. Len(s) \in Nat \ {0} /\ DOMAIN s = 1..Len(s) /\ Head(s) = s[1] /\ Tail(s) \in Seq(S) /\ Len(Tail(s)) = Len(s) - 1
      /\ DOMAIN Tail(s) = 1..(Len(s) - 1) /\ \A i \in 1..(Len(s) - 1) : Tail(s)[i] = s[i + 1]
  OBVIOUS
<1>2. \A i \in 1..Len(s) : i = 1 \/ \E k \in 1..(Len(s) - 1) : i = k + 1
  <2>1. SUFFICES ASSUME NEW i \in 1..Len(s), i # 1 PROVE \E k \in 1..(Len(s) - 1) : i = k + 1
    OBVIOUS
  <2>2. i - 1 \in 1..(Len(s) - 1) /\ i = (i - 1) + 1
    BY <1>1, <2>1
  <2>3. QED BY <2>2
<1>3. Events!ToSet(s) = {Head(s)} \cup Events!ToSet(Tail(s))
  <2>1. 1 \in 1..Len(s) /\ \A k \in 1..(Len(s) - 1) : k + 1 \in 1..Len(s)
    BY <1>1
  <2>2. ASSUME NEW x \in Events!ToSet(s) PROVE x \in {Head(s)} \cup Events!ToSet(Tail(s))
    <3>1. PICK i \in 1..Len(s) : x = s[i]
      BY <1>1 DEF Events!ToSet
    <3>2. CASE i = 1
      BY <1>1, <3>1, <3>2
    <3>3. CASE i # 1
      <4>1. PICK k \in 1..(Len(s) - 1) : i = k + 1
        BY <1>2, <3>3
      <4>2. Tail(s)[k] = x /\ k \in DOMAIN Tail(s)
        BY <1>1, <3>1, <4>1
      <4>3. QED BY <4>2 DEF Events!ToSet
    <3>4. QED BY <3>2, <3>3
  <2>3. Events!ToSet(Tail(s)) \subseteq Events!ToSet(s) /\ Head(s) \in Events!ToSet(s)
    BY <1>1, <2>1 DEF Events!ToSet
  <2>4. QED BY <2>2, <2>3
<1>4. ASSUME Rising(s) PROVE Rising(Tail(s))
  <2>1. \A i, k \in 1..(Len(s) - 1) : i < k => i + 1 \in 1..Len(s) /\ k + 1 \in 1..Len(s) /\ i + 1 < k + 1
    BY <1>1
  <2>2. QED BY <1>1, <1>4, <2>1 DEF Rising
<1>5. QED BY <1>1, <1>3, <1>4

LEMMA Joined ==
  ASSUME NEW S \in SUBSET Int, NEW s \in Seq(S), NEW t \in Seq(S)
  PROVE  s \o t \in Seq(S) /\ Events!ToSet(s \o t) = Events!ToSet(s) \cup Events!ToSet(t)
         /\ (Rising(s) /\ Rising(t) /\ Before(Events!ToSet(s), Events!ToSet(t)) => Rising(s \o t))
<1> DEFINE m == Len(s)
           n == Len(t)
<1>1. m \in Nat /\ n \in Nat /\ DOMAIN s = 1..m /\ DOMAIN t = 1..n /\ s \o t \in Seq(S) /\ Len(s \o t) = m + n /\ DOMAIN (s \o t) = 1..(m + n)
      /\ (\A i \in 1..m : (s \o t)[i] = s[i]) /\ (\A i \in 1..n : (s \o t)[m + i] = t[i])
  OBVIOUS
<1>2. \A i \in 1..(m + n) : i \in 1..m \/ \E k \in 1..n : i = m + k
  <2>1. SUFFICES ASSUME NEW i \in 1..(m + n), i \notin 1..m PROVE \E k \in 1..n : i = m + k
    OBVIOUS
  <2>2. i - m \in 1..n /\ i = m + (i - m)
    BY <1>1, <2>1
  <2>3. QED BY <2>2
<1>3. (1..m) \subseteq 1..(m + n) /\ \A k \in 1..n : m + k \in 1..(m + n)
  BY <1>1
<1> HIDE DEF m, n
<1>4. Events!ToSet(s \o t) = Events!ToSet(s) \cup Events!ToSet(t)
  <2>1. Events!ToSet(s \o t) \subseteq Events!ToSet(s) \cup Events!ToSet(t)
    BY <1>1, <1>2 DEF Events!ToSet
  <2>2. Events!ToSet(s) \subseteq Events!ToSet(s \o t)
    BY <1>1, <1>3 DEF Events!ToSet
  <2>3. Events!ToSet(t) \subseteq Events!ToSet(s \o t)
    BY <1>1, <1>3 DEF Events!ToSet
  <2>4. QED BY <2>1, <2>2, <2>3
<1>5. ASSUME Rising(s), Rising(t), Before(Events!ToSet(s), Events!ToSet(t)), NEW i \in 1..(m + n), NEW k \in 1..(m + n), i < k
      PROVE  (s \o t)[i] < (s \o t)[k]
  <2>1. CASE i \in 1..m /\ k \in 1..m
    BY <1>1, <1>5, <2>1 DEF Rising, m
  <2>2. CASE i \in 1..m /\ k \notin 1..m
    <3>1. PICK l \in 1..n : k = m + l
      BY <1>2, <2>2
    <3>2. (s \o t)[i] = s[i] /\ (s \o t)[k] = t[l] /\ s[i] \in Events!ToSet(s) /\ t[l] \in Events!ToSet(t)
      BY <1>1, <2>2, <3>1 DEF Events!ToSet
    <3>3. QED BY <1>5, <3>2 DEF Before
  <2>3. CASE i \notin 1..m
    <3>1. PICK j \in 1..n : i = m + j
      BY <1>2, <2>3
    <3>2. k \notin 1..m
      BY <1>1, <1>5, <3>1
    <3>3. PICK l \in 1..n : k = m + l
      BY <1>2, <3>2
    <3>4. j < l
      BY <1>1, <1>5, <3>1, <3>3
    <3>5. (s \o t)[i] = t[j] /\ (s \o t)[k] = t[l]
      BY <1>1, <3>1, <3>3
    <3>6. QED BY <1>5, <3>4, <3>5 DEF Rising, n
  <2>4. QED BY <2>1, <2>2, <2>3
<1>6. QED BY <1>1, <1>4, <1>5 DEF Rising

LEMMA InSet == ASSUME NEW S, NEW s \in Seq(S) PROVE Events!ToSet(s) \subseteq S /\ (s = <<>> => Events!ToSet(s) = {} /\ Rising(s))
BY DEF Events!ToSet, Rising

LEMMA NoEvents == Events!ToSet(<<>>) = {} /\ Rising(<<>>) /\ \A S : <<>> \in Seq(S)
BY DEF Events!ToSet, Rising

LEMMA MoreSeq == ASSUME NEW S, NEW T, S \subseteq T, NEW s \in Seq(S) PROVE s \in Seq(T)
OBVIOUS

----------------------------------------------------------------------------

LEMMA EventsInitInv == ASSUME Events!LogAssumption, Events!Init PROVE LogInv
<1>1. LogTypes
  BY DEF Events!Init, LogTypes, Logged, Events!Seqs, Events!Out
<1>2. Base = 1
  BY DEF Events!Init, Base, Events!LogAssumption
<1>5. eventsLock = NoOne /\ \A f \in Events!Flushers : eventsLock # f /\ tx[f].step = "out" /\ tx[f].batch = <<>>
  BY DEF Events!Init, Events!Out, Events!LogAssumption
<1>3. Batches
  <2>1. \A f \in Events!Flushers : tx[f].batch \in Seq(Logged)
    BY <1>5, NoEvents
  <2>2. QED BY <1>2, <1>5, <2>1 DEF Batches, Events!Flushers
<1>4. Shown = {} /\ LogRows = {} /\ Events!Seqs = {} /\ Events!ToSet(pending) = {}
  BY DEF Events!Init, Shown, LogRows, Events!Seqs, Events!ToSet
<1>7. InTurn
  BY <1>2, <1>4, <1>5, NoEvents DEF Events!Init, InTurn, Before
<1>6. NewestKept
  BY DEF Events!Init, NewestKept, Logged
<1>8. QED BY <1>1, <1>3, <1>6, <1>7 DEF LogInv

\* A flusher that is rid of its batch, by a failure or with the worker.
LEMMA DroppedKeeps ==
  ASSUME Events!LogAssumption, LogInv, logged' = logged, eventsTable' = eventsTable, next' = next, poll' = poll, since' \in Nat, eventsLock' = NoOne,
         pending' \in {pending, <<>>}, lost \cup InHand \subseteq lost' \cup Events!ToSet(pending'), lost' \in SUBSET Logged,
         tx' = [f \in Events!Flushers |-> [step |-> tx'[f].step, batch |-> tx'[f].batch, rows |-> tx'[f].rows]],
         tx'["loop"].step = "out", tx'["poll"].step \in {"out", "read"}, \A f \in Events!Flushers : tx'[f].batch = <<>>
  PROVE  LogInv'
<1>1. LogTypes /\ Batches /\ InTurn /\ NewestKept
  BY DEF LogInv
<1>2. Logged' = Logged /\ Events!Seqs' = Events!Seqs /\ LogRows' = LogRows /\ Shown' = Shown
  BY DEF Logged, Events!Seqs, LogRows, Shown
<1>3. Base' = next /\ Base <= next /\ Base \in Int
  <2>1. Base' = next
    BY DEF Base, Events!LogAssumption
  <2>2. Base <= next /\ Base \in Int
    <3>1. CASE eventsLock \in Events!Flushers
      <4>1. Len(tx[eventsLock].batch) \in Nat
        BY <1>1, <3>1 DEF Batches
      <4>2. QED BY <1>1, <4>1 DEF Base, LogTypes
    <3>2. QED BY <1>1, <3>1 DEF Base, LogTypes
  <2>3. QED BY <2>1, <2>2
<1>4. pending' \in Seq(Logged) /\ Events!ToSet(pending') \subseteq Events!ToSet(pending) /\ Rising(pending')
  <2>1. CASE pending' = <<>>
    BY <2>1, NoEvents
  <2>2. QED BY <1>1, <2>1 DEF LogTypes, InTurn
<1>5. LogTypes'
  BY <1>1, <1>2, <1>4 DEF LogTypes
<1>6. Batches'
  BY <1>1, <1>3 DEF Batches, LogTypes, Events!Flushers, Events!LogAssumption
<1>7. InTurn'
  <2>1. \A f \in Events!Flushers : Events!ToSet(tx'[f].batch) = {} /\ Rising(tx'[f].batch)
    BY NoEvents
  <2>2. Events!Seqs \subseteq 1..(next - 1) /\ poll.after < next
    <3>1. Events!Seqs \subseteq 1..(Base - 1) /\ poll.after < Base /\ poll.after \in Nat /\ next \in Nat
      BY <1>1 DEF InTurn, LogTypes
    <3>2. QED BY <1>3, <3>1
  <2>3. Before(Shown \cup LogRows, Events!ToSet(pending'))
    BY <1>1, <1>4 DEF InTurn, Before
  <2>4. \A f \in Events!Flushers : /\ Rising(tx[f].batch)'
                                   /\ Before(Shown \cup LogRows, Events!ToSet(tx[f].batch))' /\ Before(Events!ToSet(tx[f].batch), Events!ToSet(pending))'
    BY <2>1 DEF Before
  <2>5. (\A s \in Events!Seqs : IF s > poll.after THEN Before(Shown, {eventsTable[s]}) ELSE eventsTable[s] \in Shown)'
    BY <1>1, <1>2 DEF InTurn, Before
  <2>6. Rising(pending)' /\ Rising(poll.shown)'
    BY <1>1, <1>4 DEF InTurn
  <2>7. QED BY <1>1, <1>2, <1>3, <2>2, <2>3, <2>4, <2>5, <2>6 DEF InTurn
<1>8. NewestKept'
  BY <1>1, <1>2 DEF NewestKept, InHand
<1>9. QED BY <1>5, <1>6, <1>7, <1>8 DEF LogInv

LEMMA FailsKeeps == ASSUME Events!LogAssumption, LogInv, NEW f \in Events!Flushers, Events!Fails(f) PROVE LogInv'
<1>1. LogTypes /\ Batches
  BY DEF LogInv
<1>2. /\ logged' = logged /\ eventsTable' = eventsTable /\ next' = next /\ poll' = poll /\ pending' = pending /\ eventsLock' = NoOne
      /\ lost' = lost \cup Events!ToSet(tx[f].batch) /\ tx' = [tx EXCEPT ![f] = Events!Flushed(f)] /\ eventsLock = f
  BY <1>1 DEF Events!Fails, Batches
<1>3. since' \in Nat
  BY <1>1 DEF Events!Fails, LogTypes
<1>4. tx'[f] = Events!Flushed(f) /\ \A g \in Events!Flushers : g # f => tx'[g] = tx[g]
  BY <1>1, <1>2 DEF LogTypes
<1>5. \A g \in Events!Flushers : g # f => tx[g].batch = <<>> /\ tx[g].step \in {"out", "read"} /\ Events!ToSet(tx[g].batch) = {}
  <2>1. SUFFICES ASSUME NEW g \in Events!Flushers, g # f PROVE tx[g].batch = <<>> /\ tx[g].step \in {"out", "read"}
    BY NoEvents
  <2>2. QED BY <1>1, <1>2, <2>1 DEF Batches
<1>6. Events!Flushed(f).batch = <<>> /\ Events!Flushed(f).step = (IF f = "poll" THEN "read" ELSE "out")
  BY DEF Events!Flushed, Events!Out
<1>7. tx'["loop"].step = "out" /\ tx'["poll"].step \in {"out", "read"} /\ \A g \in Events!Flushers : tx'[g].batch = <<>>
  BY <1>1, <1>4, <1>5, <1>6 DEF Events!Flushers, Batches
<1>8. tx' = [g \in Events!Flushers |-> [step |-> tx'[g].step, batch |-> tx'[g].batch, rows |-> tx'[g].rows]]
  BY <1>1, <1>2, <1>4 DEF LogTypes, Events!Flushed, Events!Out
<1>9. lost \cup InHand \subseteq lost' \cup Events!ToSet(pending') /\ lost' \in SUBSET Logged
  <2>1. Events!ToSet(tx[f].batch) \subseteq Logged /\ lost \subseteq Logged
    BY <1>1, InSet DEF Batches, LogTypes
  <2>2. QED BY <1>2, <1>5, <2>1 DEF InHand
<1>10. QED BY <1>2, <1>3, <1>7, <1>8, <1>9, DroppedKeeps

LEMMA CancelKeeps == ASSUME Events!LogAssumption, LogInv, Events!Cancel PROVE LogInv'
<1>1. LogTypes /\ Batches
  BY DEF LogInv
<1>2. /\ logged' = logged /\ eventsTable' = eventsTable /\ next' = next /\ poll' = poll /\ pending' = pending /\ since' = since /\ eventsLock' = NoOne
      /\ lost' = lost \cup Events!ToSet(tx["loop"].batch) /\ tx' = [tx EXCEPT !["loop"] = Events!Out("out")] /\ eventsLock = "loop"
  BY <1>1 DEF Events!Cancel, Batches, Events!Flushers
<1>3. since' \in Nat
  BY <1>1, <1>2 DEF LogTypes
<1>4. tx'["loop"] = Events!Out("out") /\ tx'["poll"] = tx["poll"]
  BY <1>1, <1>2 DEF LogTypes, Events!Flushers
<1>5. tx["poll"].batch = <<>> /\ tx["poll"].step \in {"out", "read"} /\ Events!ToSet(tx["poll"].batch) = {}
  BY <1>1, <1>2 DEF Batches, Events!ToSet, Events!Flushers
<1>6. Events!Out("out").batch = <<>> /\ Events!Out("out").step = "out"
  BY DEF Events!Out
<1>7. tx'["loop"].step = "out" /\ tx'["poll"].step \in {"out", "read"} /\ \A g \in Events!Flushers : tx'[g].batch = <<>>
  BY <1>4, <1>5, <1>6 DEF Events!Flushers
<1>8. tx' = [g \in Events!Flushers |-> [step |-> tx'[g].step, batch |-> tx'[g].batch, rows |-> tx'[g].rows]]
  BY <1>1, <1>2, <1>4 DEF LogTypes, Events!Out
<1>9. lost \cup InHand \subseteq lost' \cup Events!ToSet(pending') /\ lost' \in SUBSET Logged
  <2>1. Events!ToSet(tx["loop"].batch) \subseteq Logged /\ lost \subseteq Logged
    BY <1>1, InSet DEF Batches, LogTypes, Events!Flushers
  <2>2. QED BY <1>2, <1>5, <2>1 DEF InHand, Events!Flushers
<1>10. QED BY <1>2, <1>3, <1>7, <1>8, <1>9, DroppedKeeps

LEMMA RestartKeeps == ASSUME Events!LogAssumption, LogInv, Events!Restart PROVE LogInv'
<1>1. LogTypes /\ Batches
  BY DEF LogInv
<1>2. /\ logged' = logged /\ eventsTable' = eventsTable /\ next' = next /\ poll' = poll /\ pending' = <<>> /\ since' = 0 /\ eventsLock' = NoOne
      /\ lost' = lost \cup InHand /\ tx' = [f \in Events!Flushers |-> Events!Out("out")]
  BY DEF Events!Restart, InHand
<1>3. tx'["loop"].step = "out" /\ tx'["poll"].step = "out" /\ \A g \in Events!Flushers : tx'[g].batch = <<>>
  BY <1>2 DEF Events!Flushers, Events!Out
<1>4. tx' = [g \in Events!Flushers |-> [step |-> tx'[g].step, batch |-> tx'[g].batch, rows |-> tx'[g].rows]]
  BY <1>2 DEF Events!Out
<1>5. lost' \in SUBSET Logged
  <2>1. \A f \in Events!Flushers : Events!ToSet(tx[f].batch) \subseteq Logged
    BY <1>1, InSet DEF Batches
  <2>2. Events!ToSet(pending) \subseteq Logged /\ lost \subseteq Logged
    BY <1>1, InSet DEF LogTypes
  <2>3. QED BY <1>2, <2>1, <2>2 DEF InHand
<1>6. QED BY <1>2, <1>3, <1>4, <1>5, DroppedKeeps

\* A step that changes one flusher.
LEMMA OneFlusher ==
  ASSUME LogTypes, NEW f \in Events!Flushers, NEW x, x = [step |-> x.step, batch |-> x.batch, rows |-> x.rows], tx' = [tx EXCEPT ![f] = x]
  PROVE  /\ tx'[f] = x /\ \A g \in Events!Flushers : g # f => tx'[g] = tx[g]
         /\ tx' = [g \in Events!Flushers |-> [step |-> tx'[g].step, batch |-> tx'[g].batch, rows |-> tx'[g].rows]]
BY DEF LogTypes

LEMMA AddKeeps == ASSUME Events!LogAssumption, LogInv, Events!Add PROVE LogInv'
<1> DEFINE e == logged + 1
           all == Append(pending, e)
           More == 1..e
<1>1. LogTypes /\ Batches /\ InTurn /\ NewestKept
  BY DEF LogInv
<1>2. /\ logged' = e /\ eventsTable' = eventsTable /\ next' = next /\ tx' = tx /\ eventsLock' = eventsLock /\ since' = since /\ poll' = poll
      /\ \/ pending' = all /\ lost' = lost
         \/ pending' = Tail(all) /\ lost' = lost \cup {Head(all)}
  BY DEF Events!Add
<1>3. logged \in Nat /\ e \in Nat /\ Logged \subseteq More /\ e \in More /\ (\A x \in Logged : x < e) /\ Logged' = More
      /\ \A x \in More : x \in Logged \/ x = e
  BY <1>1, <1>2 DEF LogTypes, Logged
<1> HIDE DEF e, More
<1>4. pending \in Seq(More) /\ Events!ToSet(pending) \subseteq Logged /\ Rising(pending) /\ pending \in Seq(Logged)
  BY <1>1, <1>3, MoreSeq, InSet DEF LogTypes, InTurn
<1>5. /\ all \in Seq(More) /\ Events!ToSet(all) = Events!ToSet(pending) \cup {e} /\ Len(all) = Len(pending) + 1
      /\ \A i \in 1..Len(pending) : all[i] = pending[i]
  BY <1>3, <1>4, Appended
<1>6. Rising(all)
  <2>1. Len(pending) \in Nat /\ all[Len(pending) + 1] = e /\ \A i \in 1..Len(pending) : all[i] = pending[i] /\ pending[i] \in Logged
    BY <1>4, <1>5
  <2> HIDE DEF all
  <2>2. SUFFICES ASSUME NEW i \in 1..Len(all), NEW k \in 1..Len(all), i < k PROVE all[i] < all[k]
    BY DEF Rising
  <2>3. i \in 1..Len(pending) /\ (k \in 1..Len(pending) \/ k = Len(pending) + 1)
    BY <1>5, <2>1, <2>2
  <2>4. QED BY <1>3, <1>4, <2>1, <2>2, <2>3 DEF Rising
<1>7. all # <<>>
  BY <1>4, <1>5
<1> HIDE DEF all
<1>8. /\ pending' \in Seq(More) /\ Rising(pending') /\ Events!ToSet(pending') \subseteq Events!ToSet(pending) \cup {e}
      /\ Events!ToSet(pending) \cup {e} \subseteq Events!ToSet(pending') \cup lost' /\ lost \subseteq lost' /\ lost' \in SUBSET More
  <2>1. lost \subseteq More
    BY <1>1, <1>3 DEF LogTypes
  <2>2. Tail(all) \in Seq(More) /\ Head(all) \in More /\ Events!ToSet(all) = {Head(all)} \cup Events!ToSet(Tail(all)) /\ Rising(Tail(all))
    BY <1>5, <1>6, <1>7, Tailed
  <2>3. QED BY <1>2, <1>5, <1>6, <2>1, <2>2
<1>9. Events!Seqs' = Events!Seqs /\ LogRows' = LogRows /\ Shown' = Shown /\ Base' = Base
  BY <1>2 DEF Events!Seqs, LogRows, Shown, Base
<1>10. LogTypes'
  <2>1. eventsTable \in [Events!Seqs -> More]
    BY <1>1, <1>3 DEF LogTypes
  <2>2. poll.shown \in Seq(More)
    BY <1>1, <1>3, MoreSeq DEF LogTypes
  <2>3. QED BY <1>1, <1>2, <1>3, <1>8, <1>9, <2>1, <2>2 DEF LogTypes
<1>11. Batches'
  <2>1. \A f \in Events!Flushers : tx[f].batch \in Seq(More)
    BY <1>1, <1>3, MoreSeq DEF Batches
  <2>2. QED BY <1>1, <1>2, <1>3, <1>9, <2>1 DEF Batches
<1>12. InTurn'
  <2>1. Shown \cup LogRows \subseteq Logged
    BY <1>1, InSet DEF LogTypes, Shown, LogRows
  <2>2. \A f \in Events!Flushers : Events!ToSet(tx[f].batch) \subseteq Logged
    BY <1>1, InSet DEF Batches
  <2>3. Before(Shown \cup LogRows, Events!ToSet(pending'))
    BY ZenonT(40), <1>1, <1>3, <1>8, <2>1 DEF InTurn, Before
  <2>4. ASSUME NEW f \in Events!Flushers PROVE Before(Events!ToSet(tx[f].batch), Events!ToSet(pending'))
    <3>1. Before(Events!ToSet(tx[f].batch), Events!ToSet(pending))
      BY <1>1 DEF InTurn
    <3>2. QED BY <1>3, <1>8, <2>2, <3>1 DEF Before
  <2>5. QED BY <1>1, <1>2, <1>8, <1>9, <2>3, <2>4 DEF InTurn, Rising, Before
<1>13. NewestKept'
  <2>1. InHand \subseteq InHand' \cup lost' /\ e \in InHand' \cup lost'
    BY <1>2, <1>8 DEF InHand
  <2>2. SUFFICES ASSUME NEW x \in More, x \notin lost', x \notin InHand'
                 PROVE  x \in LogRows \/ Cardinality({k \in LogRows : k > x}) >= cap
    BY <1>3, <1>9 DEF NewestKept
  <2>3. x \in Logged \ (lost \cup InHand)
    BY <1>3, <1>8, <2>1, <2>2
  <2>4. QED BY <1>1, <2>3 DEF NewestKept
<1>14. QED BY <1>10, <1>11, <1>12, <1>13 DEF LogInv

LEMMA FlushKeeps == ASSUME Events!LogAssumption, LogInv, NEW f \in Events!Flushers, Events!Flush(f) PROVE LogInv'
<1>1. LogTypes /\ Batches /\ InTurn /\ NewestKept
  BY DEF LogInv
<1>2. /\ eventsLock = NoOne /\ logged' = logged /\ eventsTable' = eventsTable /\ next' = next /\ since' = since /\ poll' = poll /\ lost' = lost
      /\ tx[f].step = "out"
  BY DEF Events!Flush, Events!Free
<1>3. Logged' = Logged /\ Events!Seqs' = Events!Seqs /\ LogRows' = LogRows /\ Shown' = Shown /\ Base = next
  BY <1>2 DEF Logged, Events!Seqs, LogRows, Shown, Base, Events!LogAssumption
<1>4. \A g \in Events!Flushers : eventsLock # g /\ tx[g].batch = <<>> /\ Events!ToSet(tx[g].batch) = {} /\ tx[g].step \in {"out", "read"}
  <2>1. SUFFICES ASSUME NEW g \in Events!Flushers PROVE eventsLock # g /\ tx[g].batch = <<>> /\ tx[g].step \in {"out", "read"}
    BY NoEvents
  <2>2. QED BY <1>1, <1>2 DEF Batches, Events!LogAssumption
<1>5. CASE pending = <<>>
  <2>1. tx' = [tx EXCEPT ![f] = Events!Flushed(f)] /\ pending' = <<>> /\ eventsLock' = eventsLock
    BY <1>5 DEF Events!Flush
  <2>2. Events!Flushed(f) = [step |-> IF f = "poll" THEN "read" ELSE "out", batch |-> <<>>, rows |-> [seq \in {} |-> 0]]
    BY DEF Events!Flushed, Events!Out
  <2>3. /\ tx'[f] = Events!Flushed(f) /\ \A g \in Events!Flushers : g # f => tx'[g] = tx[g]
        /\ tx' = [g \in Events!Flushers |-> [step |-> tx'[g].step, batch |-> tx'[g].batch, rows |-> tx'[g].rows]]
    BY <1>1, <2>1, <2>2, OneFlusher
  <2>4. \A g \in Events!Flushers : tx'[g].batch = <<>>
    BY <1>4, <2>2, <2>3
  <2>5. tx'["loop"].step = "out" /\ tx'["poll"].step \in {"out", "read"}
    BY <1>1, <1>4, <2>2, <2>3 DEF Events!Flushers, Batches
  <2>6. lost \cup InHand \subseteq lost' \cup Events!ToSet(pending') /\ lost' \in SUBSET Logged /\ since' \in Nat /\ eventsLock' = NoOne
    BY <1>1, <1>2, <1>4, <1>5, <2>1, NoEvents DEF InHand, LogTypes
  <2>7. QED BY <1>2, <2>1, <2>3, <2>4, <2>5, <2>6, DroppedKeeps
<1>6. CASE pending # <<>>
  <2> DEFINE x == [Events!Out("taken") EXCEPT !.batch = pending]
  <2>1. tx' = [tx EXCEPT ![f] = x] /\ pending' = <<>> /\ eventsLock' = f
    BY <1>6 DEF Events!Flush
  <2>2. x = [step |-> "taken", batch |-> pending, rows |-> [seq \in {} |-> 0]]
    BY DEF Events!Out
  <2> HIDE DEF x
  <2>3. x = [step |-> x.step, batch |-> x.batch, rows |-> x.rows] /\ x.step = "taken" /\ x.batch = pending
    BY <2>2
  <2>4. /\ tx'[f] = x /\ \A g \in Events!Flushers : g # f => tx'[g] = tx[g]
        /\ tx' = [g \in Events!Flushers |-> [step |-> tx'[g].step, batch |-> tx'[g].batch, rows |-> tx'[g].rows]]
    BY <1>1, <2>1, <2>3, OneFlusher
  <2>5. Base' = next
    BY <1>2, <2>1, <2>3, <2>4 DEF Base
  <2>6. LogTypes'
    BY <1>1, <1>2, <1>3, <2>1, <2>4, NoEvents DEF LogTypes
  <2>7. Batches'
    <3>1. SUFFICES ASSUME NEW g \in Events!Flushers
                   PROVE  /\ tx'[g].step \in {"out", "read", "taken", "inserted"} /\ tx'[g].batch \in Seq(Logged)
                          /\ tx'[g].step \in {"taken", "inserted"} <=> eventsLock' = g
                          /\ eventsLock' # g => tx'[g].batch = <<>>
                          /\ tx'[g].step # "inserted"
      <4>1. tx'["loop"].step # "read" /\ Base' \in Nat \ {0}
        BY <1>1, <2>3, <2>4, <2>5 DEF Batches, LogTypes, Events!Flushers
      <4>2. QED BY <1>3, <4>1 DEF Batches
    <3>2. CASE g = f
      BY <1>1, <2>1, <2>3, <2>4, <3>2 DEF LogTypes
    <3>3. CASE g # f
      BY <1>1, <1>4, <2>1, <2>4, <3>3 DEF Batches
    <3>4. QED BY <3>2, <3>3
  <2>8. InTurn'
    <3>1. Events!ToSet(pending') = {} /\ Rising(pending')
      BY <2>1, NoEvents
    <3>2. ASSUME NEW g \in Events!Flushers
          PROVE  /\ Rising(tx'[g].batch) /\ Before(Shown \cup LogRows, Events!ToSet(tx'[g].batch)) /\ Before(Events!ToSet(tx'[g].batch), Events!ToSet(pending'))
      <4>1. CASE g = f
        BY <1>1, <2>3, <2>4, <3>1, <4>1 DEF InTurn, Before
      <4>2. CASE g # f
        BY <1>4, <2>4, <3>1, <4>2, NoEvents DEF Before
      <4>3. QED BY <4>1, <4>2
    <3>3. Before(Shown \cup LogRows, Events!ToSet(pending'))
      BY <3>1 DEF Before
    <3>4. QED BY <1>1, <1>2, <1>3, <2>5, <3>1, <3>2, <3>3 DEF InTurn, Before
  <2>9. NewestKept'
    <3>1. InHand \subseteq InHand'
      <4>1. Events!ToSet(tx'[f].batch) = Events!ToSet(pending)
        BY <2>3, <2>4
      <4>2. QED BY <1>4, <4>1 DEF InHand
    <3>2. QED BY <1>1, <1>2, <1>3, <3>1 DEF NewestKept
  <2>10. QED BY <2>6, <2>7, <2>8, <2>9 DEF LogInv
<1>7. QED BY <1>5, <1>6

LEMMA InsertKeeps == ASSUME Events!LogAssumption, LogInv, NEW f \in Events!Flushers, Events!Insert(f) PROVE LogInv'
<1> DEFINE batch == tx[f].batch
           rows == [seq \in next..((next + Len(batch)) - 1) |-> batch[(seq - next) + 1]]
           x == [step |-> "inserted", batch |-> batch, rows |-> rows]
<1>1. LogTypes /\ Batches /\ InTurn /\ NewestKept
  BY DEF LogInv
<1>2. /\ logged' = logged /\ pending' = pending /\ eventsTable' = eventsTable /\ eventsLock' = eventsLock /\ poll' = poll /\ lost' = lost
      /\ tx' = [tx EXCEPT ![f] = x] /\ next' = next + Len(batch) /\ since' = since + Len(batch) /\ tx[f].step = "taken"
  BY DEF Events!Insert
<1>3. eventsLock = f /\ batch \in Seq(Logged) /\ Len(batch) \in Nat /\ Base = next
  <2>1. eventsLock = f /\ batch \in Seq(Logged)
    BY <1>1, <1>2 DEF Batches
  <2>2. QED BY <1>2, <2>1 DEF Base
<1>4. Logged' = Logged /\ Events!Seqs' = Events!Seqs /\ LogRows' = LogRows /\ Shown' = Shown
  BY <1>2 DEF Logged, Events!Seqs, LogRows, Shown
<1>5. x = [step |-> x.step, batch |-> x.batch, rows |-> x.rows] /\ x.step = "inserted" /\ x.batch = tx[f].batch
      /\ x.rows = [seq \in next..(next' - 1) |-> x.batch[(seq - next) + 1]]
  BY <1>2
<1> HIDE DEF x
<1>6. /\ tx'[f] = x /\ \A g \in Events!Flushers : g # f => tx'[g] = tx[g]
      /\ tx' = [g \in Events!Flushers |-> [step |-> tx'[g].step, batch |-> tx'[g].batch, rows |-> tx'[g].rows]]
  BY <1>1, <1>2, <1>5, OneFlusher
<1>7. \A g \in Events!Flushers : tx'[g].batch = tx[g].batch
  BY <1>5, <1>6
<1>8. Base' = next
  <2>1. Base' = next' - Len(batch)
    BY <1>2, <1>3, <1>5, <1>6 DEF Base
  <2> HIDE DEF batch
  <2>2. QED BY <1>1, <1>2, <1>3, <2>1 DEF LogTypes
<1>9. LogTypes'
  <2>1. next' \in Nat \ {0} /\ since' \in Nat
    <3> HIDE DEF batch
    <3>1. QED BY <1>1, <1>2, <1>3 DEF LogTypes
  <2>2. QED BY <1>1, <1>2, <1>4, <1>6, <2>1 DEF LogTypes
<1>10. Batches'
  <2>1. tx'["loop"].step # "read" /\ Base' \in Nat \ {0}
    BY <1>1, <1>5, <1>6, <1>8 DEF Batches, LogTypes, Events!Flushers
  <2>2. ASSUME NEW g \in Events!Flushers
        PROVE  /\ tx'[g].step \in {"out", "read", "taken", "inserted"} /\ tx'[g].batch \in Seq(Logged)
               /\ tx'[g].step \in {"taken", "inserted"} <=> eventsLock' = g
               /\ eventsLock' # g => tx'[g].batch = <<>>
               /\ tx'[g].step = "inserted" => tx'[g].rows = [seq \in Base'..(next' - 1) |-> tx'[g].batch[(seq - Base') + 1]]
    <3>1. CASE g = f
      <4>1. tx'[g].rows = [seq \in Base'..(next' - 1) |-> tx'[g].batch[(seq - Base') + 1]]
        BY <1>5, <1>6, <1>8, <3>1
      <4>2. QED BY <1>2, <1>3, <1>5, <1>6, <3>1, <4>1
    <3>2. CASE g # f
      <4>1. eventsLock' # g /\ tx'[g] = tx[g] /\ tx[g].step \notin {"taken", "inserted"}
        BY <1>1, <1>2, <1>3, <1>6, <3>2 DEF Batches
      <4>2. QED BY <1>1, <1>2, <4>1 DEF Batches
    <3>3. QED BY <3>1, <3>2
  <2>3. QED BY <1>4, <2>1, <2>2 DEF Batches
<1>11. InTurn'
  BY <1>1, <1>2, <1>3, <1>4, <1>7, <1>8 DEF InTurn, Before
<1>12. NewestKept'
  <2>1. InHand' = InHand
    BY <1>2, <1>7 DEF InHand
  <2>2. QED BY <1>1, <1>2, <1>4, <2>1 DEF NewestKept
<1>13. QED BY <1>9, <1>10, <1>11, <1>12 DEF LogInv

LEMMA Seats ==
  ASSUME NEW base \in Nat, NEW end \in Nat, NEW n \in Nat, base = end - n
  PROVE  /\ \A seq \in base..(end - 1) : (seq - base) + 1 \in 1..n
         /\ \A i \in 1..n : (base + i) - 1 \in base..(end - 1) /\ (((base + i) - 1) - base) + 1 = i
         /\ base <= end
OBVIOUS

LEMMA PrunedIs ==
  ASSUME NEW rows
  PROVE  Events!Pruned(rows) = [seq \in {s \in DOMAIN rows : Cardinality({t \in DOMAIN rows : t > s}) < cap} |-> rows[seq]]
BY DEF Events!Pruned, Events!Cardinality, Cardinality, Events!IsFiniteSet, IsFiniteSet

LEMMA CommitKeeps == ASSUME Events!LogAssumption, LogInv, NEW f \in Events!Flushers, Events!Commit(f) PROVE LogInv'
<1> DEFINE batch == tx[f].batch
           mine == tx[f].rows
           New == Base..(next - 1)
           D == Events!Seqs \cup New
           rows == [seq \in D |-> IF seq \in Events!Seqs THEN eventsTable[seq] ELSE mine[seq]]
           newest == {s \in D : Cardinality({t \in D : t > s}) < cap}
<1>1. LogTypes /\ Batches /\ InTurn /\ NewestKept
  BY DEF LogInv
<1>2. /\ logged' = logged /\ pending' = pending /\ next' = next /\ poll' = poll /\ lost' = lost /\ eventsLock' = NoOne
      /\ tx' = [tx EXCEPT ![f] = Events!Flushed(f)] /\ tx[f].step = "inserted"
  BY DEF Events!Commit
<1>3. eventsLock = f /\ batch \in Seq(Logged) /\ Len(batch) \in Nat /\ DOMAIN batch = 1..Len(batch) /\ Base = next - Len(batch)
      /\ mine = [seq \in New |-> batch[(seq - Base) + 1]]
  <2>1. eventsLock = f /\ batch \in Seq(Logged) /\ mine = [seq \in New |-> batch[(seq - Base) + 1]]
    BY <1>1, <1>2 DEF Batches
  <2>2. QED BY <1>2, <2>1 DEF Base
<1>4. Logged' = Logged /\ Shown' = Shown /\ Base' = next /\ next \in Nat /\ Base \in Nat \ {0}
  BY <1>1, <1>2 DEF Logged, Shown, Base, Events!LogAssumption, LogTypes, Batches
<1>5. /\ tx'[f] = Events!Flushed(f) /\ \A g \in Events!Flushers : g # f => tx'[g] = tx[g]
      /\ tx' = [g \in Events!Flushers |-> [step |-> tx'[g].step, batch |-> tx'[g].batch, rows |-> tx'[g].rows]]
  <2>1. Events!Flushed(f) = [step |-> Events!Flushed(f).step, batch |-> Events!Flushed(f).batch, rows |-> Events!Flushed(f).rows]
    BY DEF Events!Flushed, Events!Out
  <2>2. QED BY <1>1, <1>2, <2>1, OneFlusher
<1>6. \A g \in Events!Flushers : tx'[g].batch = <<>> /\ Events!ToSet(tx'[g].batch) = {} /\ Rising(tx'[g].batch)
  <2>1. SUFFICES ASSUME NEW g \in Events!Flushers PROVE tx'[g].batch = <<>>
    BY NoEvents
  <2>2. CASE g = f
    BY <1>5, <2>2 DEF Events!Flushed, Events!Out
  <2>3. CASE g # f
    BY <1>1, <1>3, <1>5, <2>3 DEF Batches
  <2>4. QED BY <2>2, <2>3
<1> HIDE DEF batch, mine
<1>23. /\ \A seq \in New : (seq - Base) + 1 \in 1..Len(batch)
       /\ \A i \in 1..Len(batch) : (Base + i) - 1 \in New /\ (((Base + i) - 1) - Base) + 1 = i
       /\ Base <= next
  <2>1. PICK b \in Nat, n \in Nat, l \in Nat : b = Base /\ n = next /\ l = Len(batch) /\ b = n - l
    BY <1>3, <1>4
  <2>2. /\ \A seq \in b..(n - 1) : (seq - b) + 1 \in 1..l
        /\ \A i \in 1..l : (b + i) - 1 \in b..(n - 1) /\ (((b + i) - 1) - b) + 1 = i
        /\ b <= n
    BY <2>1, Seats
  <2>3. QED BY <2>1, <2>2
<1>7. /\ \A seq \in New : (seq - Base) + 1 \in 1..Len(batch) /\ mine[seq] = batch[(seq - Base) + 1] /\ mine[seq] \in Events!ToSet(batch)
      /\ \A i \in 1..Len(batch) : (Base + i) - 1 \in New /\ mine[(Base + i) - 1] = batch[i]
  <2>1. ASSUME NEW i \in 1..Len(batch) PROVE (Base + i) - 1 \in New /\ mine[(Base + i) - 1] = batch[i]
    BY <1>3, <1>23
  <2>2. QED BY <1>3, <1>23, <2>1 DEF Events!ToSet
<1>8. Events!ToSet(batch) \subseteq Logged /\ Logged \subseteq Int
  BY <1>1, <1>3, InSet DEF LogTypes, Logged
<1>9. Events!Seqs \subseteq 1..(Base - 1) /\ D \in SUBSET Int /\ IsFiniteSet(D) /\ \A s \in Events!Seqs, t \in New : s < t /\ t \notin Events!Seqs
  <2>1. Events!Seqs \subseteq 1..(Base - 1)
    BY <1>1 DEF InTurn
  <2>2. D \subseteq 1..(next - 1)
    <3>1. 1..(Base - 1) \subseteq 1..(next - 1) /\ New \subseteq 1..(next - 1)
      BY <1>4, <1>23
    <3>2. QED BY <2>1, <3>1
  <2>3. IsFiniteSet(1..(next - 1))
    BY <1>4, FS_Interval
  <2>4. IsFiniteSet(D)
    BY <2>2, <2>3, FS_Subset
  <2>5. QED BY <1>4, <2>1, <2>2, <2>4
<1>10. \A s \in Events!Seqs : rows[s] = eventsTable[s] /\ eventsTable[s] \in LogRows /\ eventsTable[s] \in Logged
  BY <1>1 DEF LogTypes, LogRows
<1>11. \A s \in New : rows[s] = mine[s] /\ rows[s] \in Events!ToSet(batch)
  BY <1>7, <1>9
<1>12. rows \in [D -> Logged] /\ DOMAIN rows = D
  BY <1>8, <1>10, <1>11
<1> HIDE DEF rows, New
<1>13. Before(Shown \cup LogRows, Events!ToSet(batch)) /\ Before(Events!ToSet(batch), Events!ToSet(pending)) /\ Rising(batch)
  BY <1>1 DEF InTurn, batch
<1>14. \A s, t \in D : s < t => rows[s] < rows[t]
  <2>1. SUFFICES ASSUME NEW s \in D, NEW t \in D, s < t PROVE rows[s] < rows[t]
    OBVIOUS
  <2>2. CASE s \in Events!Seqs /\ t \in Events!Seqs
    BY <1>1, <1>10, <2>1, <2>2 DEF InTurn
  <2>3. CASE s \in Events!Seqs /\ t \in New
    BY <1>10, <1>11, <1>13, <2>3 DEF Before
  <2>4. CASE s \in New /\ t \in Events!Seqs
    BY <1>9, <2>1, <2>4
  <2>5. CASE s \in New /\ t \in New
    <3>1. (s - Base) + 1 < (t - Base) + 1
      BY <1>4, <1>9, <2>1
    <3>2. QED BY <1>7, <1>11, <1>13, <2>5, <3>1 DEF Rising
  <2>6. QED BY <2>2, <2>3, <2>4, <2>5
<1>15. since' \in Nat /\ (eventsTable' = rows \/ eventsTable' = [seq \in newest |-> rows[seq]])
  <2>1. DOMAIN mine = New
    BY <1>3
  <2>2. rows = [seq \in Events!Seqs \cup DOMAIN mine |-> IF seq \in Events!Seqs THEN eventsTable[seq] ELSE mine[seq]]
    BY <2>1 DEF rows
  <2>3. eventsTable' = rows \/ eventsTable' = Events!Pruned(rows)
    BY <2>2 DEF Events!Commit, mine
  <2>4. since' \in Nat
    BY <1>1 DEF Events!Commit, LogTypes
  <2>5. QED BY <1>12, <2>3, <2>4, PrunedIs
<1>16. /\ Events!Seqs' \subseteq D /\ \A s \in Events!Seqs' : eventsTable'[s] = rows[s]
       /\ eventsTable' \in [Events!Seqs' -> Logged]
  BY <1>12, <1>15 DEF Events!Seqs
<1>17. LogRows' \subseteq LogRows \cup Events!ToSet(batch)
  BY <1>10, <1>11, <1>16 DEF LogRows
<1>18. LogTypes'
  BY <1>1, <1>2, <1>4, <1>5, <1>15, <1>16 DEF LogTypes
<1>19. Batches'
  <2>1. ASSUME NEW g \in Events!Flushers
        PROVE  /\ tx'[g].step \in {"out", "read"} /\ tx'[g].batch \in Seq(Logged) /\ eventsLock' # g /\ (g = "loop" => tx'[g].step # "read")
    <3>1. CASE g = f
      BY <1>2, <1>5, <1>6, <3>1, NoEvents DEF Events!Flushed, Events!Out, Events!LogAssumption
    <3>2. CASE g # f
      <4>1. tx'[g] = tx[g] /\ tx[g].step \notin {"taken", "inserted"}
        BY <1>1, <1>3, <1>5, <3>2 DEF Batches
      <4>2. QED BY <1>1, <1>2, <4>1 DEF Batches, Events!LogAssumption
    <3>3. QED BY <3>1, <3>2
  <2>2. Base' \in Nat \ {0}
    BY <1>1, <1>4 DEF LogTypes
  <2>3. QED BY <1>4, <1>6, <2>1, <2>2 DEF Batches, Events!Flushers
<1>20. InTurn'
  <2>1. Events!Seqs' \subseteq 1..(next - 1) /\ poll.after < next
    <3>1. 1..(Base - 1) \subseteq 1..(next - 1) /\ New \subseteq 1..(next - 1)
      BY <1>4, <1>23 DEF New
    <3>2. poll.after < Base /\ poll.after \in Nat
      BY <1>1 DEF InTurn, LogTypes
    <3>3. poll.after < next
      BY <1>4, <1>23, <3>2
    <3>4. QED BY <1>9, <1>16, <3>1, <3>3
  <2>2. \A s, t \in Events!Seqs' : s < t => eventsTable'[s] < eventsTable'[t]
    BY <1>14, <1>16
  <2>3. Before(Shown \cup LogRows', Events!ToSet(pending))
    BY <1>1, <1>13, <1>17 DEF InTurn, Before
  <2>4. \A g \in Events!Flushers : Before(Shown \cup LogRows', Events!ToSet(tx'[g].batch)) /\ Before(Events!ToSet(tx'[g].batch), Events!ToSet(pending))
    BY <1>6 DEF Before
  <2>5. ASSUME NEW s \in Events!Seqs' PROVE IF s > poll.after THEN Before(Shown, {eventsTable'[s]}) ELSE eventsTable'[s] \in Shown
    <3>1. CASE s \in Events!Seqs
      BY <1>1, <1>10, <1>16, <3>1 DEF InTurn
    <3>2. CASE s \in New
      <4>1. s > poll.after
        BY <1>1, <1>4, <1>9, <3>2 DEF InTurn, New, LogTypes
      <4>2. Before(Shown, {eventsTable'[s]})
        BY <1>11, <1>13, <1>16, <3>2 DEF Before
      <4>3. QED BY <4>1, <4>2
    <3>3. QED BY <1>16, <3>1, <3>2
  <2>6. Rising(pending) /\ Rising(poll.shown)
    BY <1>1 DEF InTurn
  <2>7. QED BY <1>2, <1>4, <1>6, <2>1, <2>2, <2>3, <2>4, <2>5, <2>6 DEF InTurn
<1>21. NewestKept'
  <2> DEFINE All == {rows[s] : s \in D}
  <2>1. LogRows \subseteq All /\ Events!ToSet(batch) \subseteq All /\ All \subseteq Logged
    <3>1. LogRows \subseteq All
      BY <1>10 DEF LogRows
    <3>2. ASSUME NEW y \in Events!ToSet(batch) PROVE y \in All
      <4>1. PICK i \in 1..Len(batch) : y = batch[i]
        BY <1>3 DEF Events!ToSet
      <4>2. (Base + i) - 1 \in New /\ mine[(Base + i) - 1] = y
        BY <1>7, <4>1
      <4>3. QED BY <1>11, <4>2
    <3>3. QED BY <1>12, <3>1, <3>2
  <2>2. SUFFICES ASSUME NEW e \in Logged, e \notin lost, e \notin InHand'
                 PROVE  e \in LogRows' \/ Cardinality({k \in LogRows' : k > e}) >= cap
    BY <1>2, <1>4 DEF NewestKept
  <2>3. e \in All \/ Cardinality({k \in All : k > e}) >= cap
    <3>1. e \in InHand => e \in Events!ToSet(batch)
      <4>1. \A g \in Events!Flushers : g # f => tx[g].batch = <<>>
        BY <1>1, <1>3 DEF Batches
      <4>2. \A g \in Events!Flushers : g # f => Events!ToSet(tx[g].batch) = {}
        BY <4>1, NoEvents
      <4>3. e \notin Events!ToSet(pending)
        BY <1>2, <2>2 DEF InHand
      <4>4. QED BY <4>2, <4>3 DEF InHand, batch
    <3>2. CASE e \in InHand
      BY <2>1, <3>1, <3>2
    <3>3. CASE e \notin InHand
      <4>1. e \in LogRows \/ Cardinality({k \in LogRows : k > e}) >= cap
        BY <1>1, <2>2, <3>3 DEF NewestKept
      <4>2. IsFiniteSet(Logged)
        <5>1. 1 \in Int /\ logged \in Int
          BY <1>1 DEF LogTypes
        <5>2. QED BY <5>1, FS_Interval DEF Logged
      <4>3. IsFiniteSet({k \in All : k > e}) /\ {k \in LogRows : k > e} \in SUBSET {k \in All : k > e}
        <5>1. {k \in All : k > e} \in SUBSET Logged
          BY <2>1
        <5>2. IsFiniteSet({k \in All : k > e})
          BY <4>2, <5>1, FS_Subset
        <5>3. QED BY <2>1, <5>2
      <4> DEFINE Few == {k \in LogRows : k > e}
                 Many == {k \in All : k > e}
      <4> HIDE DEF Few, Many
      <4>4. Cardinality(Few) <= Cardinality(Many) /\ Cardinality(Few) \in Nat /\ Cardinality(Many) \in Nat
        <5>1. IsFiniteSet(Many) /\ Few \in SUBSET Many
          BY <4>3 DEF Few, Many
        <5>2. IsFiniteSet(Few) /\ Cardinality(Few) <= Cardinality(Many)
          BY <5>1, FS_Subset
        <5>3. QED BY <5>1, <5>2, FS_CardinalityType
      <4>5. CASE e \in LogRows
        BY <2>1, <4>5
      <4>6. CASE Cardinality(Few) >= cap
        <5>1. Cardinality(Many) >= cap
          BY <4>4, <4>6 DEF Events!LogAssumption
        <5>2. QED BY <5>1 DEF Many
      <4>7. QED BY <4>1, <4>5, <4>6 DEF Few
    <3>4. QED BY <3>2, <3>3
  <2>4. CASE eventsTable' = rows
    <3>1. LogRows' = All
      BY <1>12, <2>4 DEF LogRows, Events!Seqs
    <3>2. QED BY <2>3, <3>1
  <2>5. CASE eventsTable' = [seq \in newest |-> rows[seq]] /\ e \notin LogRows'
    <3>1. LogRows' = {rows[t] : t \in newest} /\ newest \in SUBSET D
      BY <2>5 DEF LogRows, Events!Seqs
    <3>2. rows \in [D -> Int] /\ e \in Int /\ cap \in Nat
      BY <1>8, <1>12, <2>2 DEF Events!LogAssumption
    <3>3. newest = Newest(D, cap)
      BY DEF Newest
    <3>4. D \in SUBSET Int /\ IsFiniteSet(D) /\ \A s, t \in D : s < t => rows[s] < rows[t]
      BY <1>9, <1>14
    <3>5. e \notin Of(rows, newest)
      BY <2>5, <3>1 DEF Of
    <3>6. e \in Of(rows, D) \/ Cardinality(Later(Of(rows, D), e)) >= cap
      BY <2>3 DEF Of, Later
    <3> HIDE DEF newest, D, All
    <3>8. Cardinality(Later(Of(rows, newest), e)) >= cap
      BY <3>2, <3>3, <3>4, <3>5, <3>6, PruneKeeps
    <3>9. QED BY <3>1, <3>8 DEF Of, Later
  <2>6. QED BY <1>15, <2>4, <2>5
<1>22. QED BY <1>18, <1>19, <1>20, <1>21 DEF LogInv

LEMMA ReadKeeps == ASSUME Events!LogAssumption, LogInv, Events!Read PROVE LogInv'
<1> DEFINE new == {seq \in Events!Seqs : seq > poll.after}
           page == {s \in new : Cardinality({t \in new : t < s}) < Limit}
           rows == Events!InOrder(page)
           x == [step |-> "out", batch |-> <<>>, rows |-> [seq \in {} |-> 0]]
<1>1. LogTypes /\ Batches /\ InTurn /\ NewestKept
  BY DEF LogInv
<1>2. /\ logged' = logged /\ pending' = pending /\ eventsTable' = eventsTable /\ next' = next /\ eventsLock' = eventsLock /\ since' = since /\ lost' = lost
      /\ poll' = [after |-> IF page = {} THEN poll.after ELSE CHOOSE s \in page : \A t \in page : t <= s,
                  shown |-> poll.shown \o rows]
      /\ tx' = [tx EXCEPT !["poll"] = x] /\ tx["poll"].step = "read"
  BY DEF Events!Read, Events!Out, Events!Cardinality, Cardinality, Events!IsFiniteSet, IsFiniteSet
<1>3. Logged' = Logged /\ Events!Seqs' = Events!Seqs /\ LogRows' = LogRows /\ "poll" \in Events!Flushers
  BY <1>2 DEF Logged, Events!Seqs, LogRows, Events!Flushers
<1>4. Events!Seqs \subseteq 1..(Base - 1) /\ Base \in Nat \ {0} /\ Events!Seqs \subseteq Int /\ IsFiniteSet(Events!Seqs) /\ poll.after \in Nat /\ poll.after < Base
  <2>1. Events!Seqs \subseteq 1..(Base - 1) /\ Base \in Nat \ {0} /\ poll.after \in Nat /\ poll.after < Base
    BY <1>1 DEF InTurn, Batches, LogTypes
  <2>2. 1 \in Int /\ Base - 1 \in Int
    BY <2>1
  <2>3. IsFiniteSet(1..(Base - 1))
    BY <2>2, FS_Interval
  <2>4. IsFiniteSet(Events!Seqs)
    BY <2>1, <2>3, FS_Subset
  <2>5. QED BY <2>1, <2>4
<1>5. new \subseteq Events!Seqs /\ page \subseteq new /\ IsFiniteSet(new) /\ IsFiniteSet(page)
  <2>1. new \subseteq Events!Seqs /\ page \subseteq new
    OBVIOUS
  <2> HIDE DEF new, page
  <2>2. IsFiniteSet(new)
    BY <1>4, <2>1, FS_Subset
  <2>3. QED BY <2>1, <2>2, FS_Subset
<1>6. /\ rows \in Seq(Logged) /\ Rising(rows) /\ Events!ToSet(rows) = {eventsTable[s] : s \in page}
  <2>1. page \subseteq Events!Seqs /\ eventsTable \in [Events!Seqs -> Logged] /\ \A s, t \in Events!Seqs : s < t => eventsTable[s] < eventsTable[t]
    BY <1>1, <1>5 DEF LogTypes, InTurn
  <2> HIDE DEF page, new
  <2>2. QED BY <1>4, <1>5, <2>1, PageInOrder
<1> HIDE DEF rows
<1>7. ASSUME NEW s \in new, NEW t \in page, s < t PROVE s \in page
  <2> DEFINE under == {u \in new : u < s}
             upto == {u \in new : u < t}
  <2>7. new \subseteq Int /\ s \in Int /\ t \in Int
    BY <1>4, <1>5
  <2>8. upto \in SUBSET new
    OBVIOUS
  <2>9. ASSUME NEW u \in under PROVE u \in upto
    <3>1. u \in new /\ u < s /\ u \in Int
      BY <2>7
    <3> HIDE DEF new, page
    <3>2. QED BY <1>7, <2>7, <3>1
  <2>1. under \in SUBSET upto /\ upto \in SUBSET new
    BY <2>8, <2>9
  <2>2. Cardinality(upto) < Limit
    BY <1>7
  <2>3. IsFiniteSet(upto) /\ IsFiniteSet(under) /\ Cardinality(under) <= Cardinality(upto)
    <3> HIDE DEF under, upto, new, page
    <3>1. IsFiniteSet(upto)
      BY <1>5, <2>1, FS_Subset
    <3>2. QED BY <2>1, <3>1, FS_Subset
  <2>4. Cardinality(under) \in Nat /\ Cardinality(upto) \in Nat
    BY <2>3, FS_CardinalityType
  <2>5. Cardinality(under) < Limit
    <3> HIDE DEF under, upto
    <3>1. QED BY <2>2, <2>3, <2>4 DEF Events!LogAssumption
  <2>6. QED BY <2>5
<1>8. /\ tx'["poll"] = x /\ \A g \in Events!Flushers : g # "poll" => tx'[g] = tx[g]
      /\ tx' = [g \in Events!Flushers |-> [step |-> tx'[g].step, batch |-> tx'[g].batch, rows |-> tx'[g].rows]]
  <2>1. x = [step |-> x.step, batch |-> x.batch, rows |-> x.rows]
    OBVIOUS
  <2> HIDE DEF x
  <2>2. QED BY <1>1, <1>2, <1>3, <2>1, OneFlusher
<1>9. eventsLock # "poll" /\ tx["poll"].batch = <<>> /\ Base' = Base
  <2>1. eventsLock # "poll" /\ tx["poll"].batch = <<>>
    BY <1>1, <1>2, <1>3 DEF Batches
  <2>2. QED BY <1>2, <1>8, <2>1 DEF Base
<1>10. \A g \in Events!Flushers : tx'[g].batch = tx[g].batch
  BY <1>8, <1>9
<1>11. poll'.shown = poll.shown \o rows
  BY <1>2
<1>12. /\ poll'.shown \in Seq(Logged) /\ Rising(poll'.shown) /\ Shown' = Shown \cup {eventsTable[s] : s \in page}
  <2>1. Before(Shown, Events!ToSet(rows))
    <3>1. \A s \in page : s \in Events!Seqs /\ s > poll.after
      OBVIOUS
    <3>2. \A s \in page : Before(Shown, {eventsTable[s]})
      BY <1>1, <3>1 DEF InTurn
    <3> HIDE DEF page
    <3>3. QED BY <1>6, <3>2 DEF Before
  <2>2. Logged \in SUBSET Int /\ poll.shown \in Seq(Logged) /\ Rising(poll.shown)
    BY <1>1 DEF LogTypes, InTurn, Logged
  <2> HIDE DEF page
  <2>3. /\ poll.shown \o rows \in Seq(Logged) /\ Events!ToSet(poll.shown \o rows) = Events!ToSet(poll.shown) \cup Events!ToSet(rows)
        /\ (Rising(poll.shown) /\ Rising(rows) /\ Before(Events!ToSet(poll.shown), Events!ToSet(rows)) => Rising(poll.shown \o rows))
    BY <1>6, <2>2, Joined
  <2>4. QED BY <1>6, <1>11, <2>1, <2>2, <2>3 DEF Shown
<1>13. Shown' \cup LogRows = Shown \cup LogRows
  BY <1>5, <1>12 DEF LogRows
\* What is after it was not in the page, what is not was.
<1>14. /\ poll'.after \in Nat /\ poll'.after < Base
       /\ \A s \in Events!Seqs : IF s > poll'.after THEN s > poll.after /\ s \notin page /\ \A t \in page : t < s
                          ELSE s <= poll.after \/ s \in page
  <2>1. CASE page = {}
    <3>1. poll'.after = poll.after
      BY <1>2, <2>1
    <3>2. QED BY <1>4, <2>1, <3>1
  <2>2. CASE page # {}
    <3>1. \E s \in page : \A t \in page : t <= s
      <4>1. PICK s \in page : TRUE
        BY <2>2
      <4>2. IsFiniteSet(page) /\ page \subseteq Int
        BY <1>4, <1>5
      <4> HIDE DEF page
      <4>3. QED BY <2>2, <4>2, Greatest
    <3>2. PICK l : l = poll'.after
      OBVIOUS
    <3>3. l \in page /\ \A t \in page : t <= l
      BY <1>2, <2>2, <3>1, <3>2
    <3>4. l \in Events!Seqs /\ l > poll.after /\ l \in new
      BY <1>5, <3>3
    <3>5. ASSUME NEW s \in Events!Seqs
          PROVE  IF s > l THEN s > poll.after /\ s \notin page /\ \A t \in page : t < s ELSE s <= poll.after \/ s \in page
      <4>5. page \subseteq Int
        BY <1>4, <1>5
      <4>1. s \in Int /\ l \in Int /\ poll.after \in Int /\ page \subseteq Int
        BY <1>4, <3>4, <4>5
      <4>2. CASE s > l
        <5> HIDE DEF page
        <5>1. QED BY <3>3, <3>4, <4>1, <4>2
      <4>3. CASE s <= l /\ s > poll.after
        BY <1>7, <3>3, <4>1, <4>3
      <4>4. QED BY <4>1, <4>2, <4>3
    <3>6. l \in Nat /\ l < Base
      BY <1>4, <3>4
    <3>7. QED BY <3>2, <3>5, <3>6
  <2>3. QED BY <2>1, <2>2
<1> HIDE DEF new, page
<1>15. LogTypes'
  BY <1>1, <1>2, <1>3, <1>8, <1>12, <1>14 DEF LogTypes
<1>16. Batches'
  <2>1. ASSUME NEW g \in Events!Flushers
        PROVE  /\ tx'[g].step \in {"out", "read", "taken", "inserted"} /\ tx'[g].batch \in Seq(Logged)
               /\ tx'[g].step \in {"taken", "inserted"} <=> eventsLock' = g
               /\ eventsLock' # g => tx'[g].batch = <<>>
               /\ tx'[g].step = "inserted" => tx'[g].rows = [seq \in Base'..(next' - 1) |-> tx'[g].batch[(seq - Base') + 1]]
    <3>1. CASE g = "poll"
      BY <1>2, <1>8, <1>9, <3>1, NoEvents
    <3>2. CASE g # "poll"
      BY <1>1, <1>2, <1>8, <1>9, <3>2 DEF Batches
    <3>3. QED BY <3>1, <3>2
  <2>2. tx'["loop"].step # "read" /\ Base' \in Nat \ {0}
    BY <1>1, <1>8, <1>9 DEF Batches, Events!Flushers
  <2>3. QED BY <1>3, <2>1, <2>2 DEF Batches
<1>17. InTurn'
  <2>1. \A s \in Events!Seqs : IF s > poll'.after THEN Before(Shown', {eventsTable[s]}) ELSE eventsTable[s] \in Shown'
    <3>1. SUFFICES ASSUME NEW s \in Events!Seqs PROVE IF s > poll'.after THEN Before(Shown', {eventsTable[s]}) ELSE eventsTable[s] \in Shown'
      OBVIOUS
    <3>2. CASE s > poll'.after
      <4>1. Before(Shown, {eventsTable[s]})
        BY <1>1, <1>14, <3>2 DEF InTurn
      <4>2. \A t \in page : eventsTable[t] < eventsTable[s]
        BY <1>1, <1>5, <1>14, <3>2 DEF InTurn
      <4>3. QED BY <1>12, <3>2, <4>1, <4>2 DEF Before
    <3>3. CASE ~(s > poll'.after)
      <4>1. s <= poll.after \/ s \in page
        BY <1>14, <3>3
      <4>2. CASE s \in page
        BY <1>12, <3>3, <4>2
      <4>3. CASE s <= poll.after
        <5>1. ~(s > poll.after)
          BY <1>4, <4>3
        <5>2. eventsTable[s] \in Shown
          BY <1>1, <5>1 DEF InTurn
        <5>3. QED BY <1>12, <3>3, <5>2
      <4>4. QED BY <4>1, <4>2, <4>3
    <3>4. QED BY <3>2, <3>3
  <2>2. \A f \in Events!Flushers : /\ Rising(tx[f].batch)' /\ Before(Shown \cup LogRows, Events!ToSet(tx[f].batch))'
                                   /\ Before(Events!ToSet(tx[f].batch), Events!ToSet(pending))'
    BY <1>1, <1>2, <1>3, <1>10, <1>13 DEF InTurn, Before
  <2>3. Before(Shown \cup LogRows, Events!ToSet(pending))'
    BY <1>1, <1>2, <1>3, <1>13 DEF InTurn, Before
  <2>4. Rising(pending)' /\ Rising(poll.shown)'
    BY <1>1, <1>2, <1>12 DEF InTurn
  <2>5. (\A s, t \in Events!Seqs : s < t => eventsTable[s] < eventsTable[t])'
    BY <1>1, <1>2, <1>3 DEF InTurn
  <2>6. (\A s \in Events!Seqs : IF s > poll.after THEN Before(Shown, {eventsTable[s]}) ELSE eventsTable[s] \in Shown)'
    BY <1>2, <1>3, <2>1
  <2>7. QED BY <1>3, <1>4, <1>9, <1>14, <2>2, <2>3, <2>4, <2>5, <2>6 DEF InTurn
<1>18. NewestKept'
  <2>1. InHand' = InHand
    BY <1>2, <1>10 DEF InHand
  <2>2. QED BY <1>1, <1>2, <1>3, <2>1 DEF NewestKept
<1>19. QED BY <1>15, <1>16, <1>17, <1>18 DEF LogInv

LEMMA EventsNextInv == ASSUME Events!LogAssumption, LogInv, [Events!Next]_(Events!logVars) PROVE LogInv'
<1>1. CASE UNCHANGED Events!logVars
  <2>1. /\ logged' = logged /\ pending' = pending /\ eventsTable' = eventsTable /\ next' = next /\ tx' = tx /\ eventsLock' = eventsLock
        /\ since' = since /\ poll' = poll /\ lost' = lost
    BY <1>1 DEF Events!logVars
  <2>2. Logged' = Logged /\ Shown' = Shown /\ Events!Seqs' = Events!Seqs /\ LogRows' = LogRows /\ InHand' = InHand /\ Base' = Base
    BY <2>1 DEF Logged, Shown, Events!Seqs, LogRows, InHand, Base
  <2>3. LogTypes' /\ NewestKept'
    BY <2>1, <2>2 DEF LogInv, LogTypes, NewestKept
  <2>4. Batches'
    BY <2>1, <2>2 DEF LogInv, Batches
  <2>5. InTurn'
    BY <2>1, <2>2 DEF LogInv, InTurn, Rising, Before
  <2>6. QED BY <2>3, <2>4, <2>5 DEF LogInv
<1>2. CASE Events!Next
  BY <1>2, AddKeeps, CancelKeeps, RestartKeeps, ReadKeeps, FlushKeeps, InsertKeeps, CommitKeeps, FailsKeeps DEF Events!Next
<1>3. QED BY <1>1, <1>2

LEMMA InvLog == ASSUME LogInv PROVE Events!PollersMissNothing
<1>1. LogTypes /\ InTurn /\ NewestKept
  BY DEF LogInv
<1>2. \A s, t \in Events!Seqs : s < t => eventsTable[s] < eventsTable[t]
  BY <1>1 DEF InTurn
<1>3. \A e \in Logged \ (lost \cup InHand) : e \in LogRows \/ Cardinality({k \in LogRows : k > e}) >= cap
  BY <1>1 DEF NewestKept
<1>4. \A i, k \in DOMAIN poll.shown : i < k => poll.shown[i] < poll.shown[k]
  <2>1. DOMAIN poll.shown = 1..Len(poll.shown)
    BY <1>1 DEF LogTypes
  <2>2. QED BY <1>1, <2>1 DEF InTurn, Rising
<1>5. \A s \in Events!Seqs : s <= poll.after => eventsTable[s] \in Events!ToSet(poll.shown)
  <2>1. Events!Seqs \subseteq Int /\ poll.after \in Int
    BY <1>1 DEF InTurn, LogTypes
  <2>2. SUFFICES ASSUME NEW s \in Events!Seqs, s <= poll.after PROVE eventsTable[s] \in Shown
    BY DEF Shown
  <2>3. ~(s > poll.after)
    BY <2>1, <2>2
  <2>4. QED BY <1>1, <2>3 DEF InTurn
<1>6. (1..logged) \ (lost \cup Events!ToSet(pending) \cup UNION {Events!ToSet(tx[f].batch) : f \in Events!Flushers}) = Logged \ (lost \cup InHand)
  BY DEF Logged, InHand
<1>7. QED BY <1>2, <1>3, <1>4, <1>5, <1>6 DEF Events!PollersMissNothing, LogRows, Events!Cardinality, Cardinality, Events!IsFiniteSet, IsFiniteSet

\* PollersMissNothing of every behaviour: for a buffer, a cap and pages of any size, and any number of
\* events, batches, failures and restarts of the worker.
THEOREM EveryEventIsShown == ASSUME Events!LogAssumption PROVE Events!Spec => []Events!PollersMissNothing
<1>1. Events!Init => LogInv
  BY EventsInitInv
<1>2. LogInv /\ [Events!Next]_(Events!logVars) => LogInv'
  BY EventsNextInv
<1>3. LogInv => Events!PollersMissNothing
  BY InvLog
<1>4. QED BY <1>1, <1>2, <1>3, PTL DEF Events!Spec

==============================================================================
