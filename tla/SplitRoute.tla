------------------------------ MODULE SplitRoute ------------------------------
(****************************************************************************)
(* POST /api/v2/vods/{id}/split: two synthetic VODs that supersede the      *)
(* halves of a real one, each created in a transaction of its own, next to  *)
(* what other admins create and delete.  A transaction checks, reading what *)
(* is committed, and inserts later, with no lock between the two but the    *)
(* unique key of its own id.                                                *)
(*                                                                          *)
(* A synthetic VOD is its window [start, end) of the real one, the number   *)
(* of the split that made it (0: another request), and, as history, the ids *)
(* whose creation was checked and not committed when its own was checked.   *)
(****************************************************************************)
EXTENDS Integers, FiniteSets

CONSTANTS
  Calls,                  \* requests that create, at a time
  None,
  Length,                 \* of the real VOD
  MaxSplits, MaxChanges, MaxFaults  \* bounds

Halves == {"first", "second"}
Ids    == Halves \cup {"other"}

SplitAssumption ==
  Length \in Nat /\ None \notin [id : Ids, start : Int, end : Int, by : Nat, beside : SUBSET Ids]

VARIABLES
  made,     \* committed: id -> [id, start, end, by, beside], or None
  used,     \* ids that another synthetic VOD is made of
  calls,    \* call -> [step, at, no, adds], adds: the row that is checked and not committed, or None
  whole,    \* history: splits that were answered with two VODs
  left,     \* history: splits that ended with a half that was not removed
  counts    \* [splits, changes, faults]: how many there were, for the bounds

splitVars == <<made, used, calls, whole, left, counts>>

Idle == [step |-> "idle", at |-> 0, no |-> 0, adds |-> None]
There == {id \in Ids : made[id] # None}
Adding == {c \in Calls : calls[c].adds # None}
Apart(a, b) == a.end <= b.start \/ b.end <= a.start

Goto(c, step) == calls' = [calls EXCEPT ![c] = [@ EXCEPT !.step = step, !.adds = None]]
Ends(c)       == calls' = [calls EXCEPT ![c] = Idle]

----------------------------------------------------------------------------
(* synthetic.create with supersedes, and synthetic.remove.                  *)

\* The checks: a new id, and no second covered twice by what is committed.
CanCreate(row) == made[row.id] = None /\ \A other \in There : Apart(row, made[other])

Row(id, start, end, no) ==
  [id |-> id, start |-> start, end |-> end, by |-> no, beside |-> {calls[c].adds.id : c \in Adding}]

Commit(c) ==
  /\ c \in Adding /\ made[calls[c].adds.id] = None
  /\ made' = [made EXCEPT ![calls[c].adds.id] = calls[c].adds]
  /\ \/ calls[c].step = "first" /\ Goto(c, "second") /\ UNCHANGED whole
     \/ calls[c].step = "second" /\ Ends(c) /\ whole' = whole \cup {calls[c].no}
     \/ calls[c].step = "other" /\ Ends(c) /\ UNCHANGED whole
  /\ UNCHANGED <<used, left, counts>>

\* An error that is no refusal: split_vod undoes nothing.
Breaks(c) ==
  /\ left' = IF calls[c].step \in {"second", "undo"} THEN left \cup {calls[c].no} ELSE left
  /\ Ends(c)
  /\ UNCHANGED <<made, used, whole>>

\* Another request has committed the id since the check: the insert fails on the unique key.
Conflict(c) ==
  /\ c \in Adding /\ made[calls[c].adds.id] # None
  /\ Breaks(c) /\ UNCHANGED counts

\* The worker ends, or the database fails.
Fails(c) ==
  /\ calls[c] # Idle /\ counts.faults < MaxFaults
  /\ counts' = [counts EXCEPT !.faults = @ + 1]
  /\ Breaks(c)

----------------------------------------------------------------------------
(* split_vod                                                                *)

First(c)  == Row("first", 0, calls[c].at, calls[c].no)
Second(c) == Row("second", calls[c].at, Length, calls[c].no)

\* compose.split_segments: the point is inside the VOD.
Split(c) ==
  \E at \in 1..(Length - 1) :
    /\ calls[c] = Idle /\ counts.splits < MaxSplits
    /\ counts' = [counts EXCEPT !.splits = @ + 1]
    /\ calls' = [calls EXCEPT ![c] = [step |-> "first", at |-> at, no |-> counts.splits + 1, adds |-> None]]
    /\ UNCHANGED <<made, used, whole, left>>

CheckHalf(c, step, row) ==
  /\ calls[c].step = step /\ calls[c].adds = None /\ CanCreate(row)
  /\ calls' = [calls EXCEPT ![c].adds = row]
  /\ UNCHANGED <<made, used, whole, left, counts>>

\* A refusal, by the checks or for a VOD that is shorter by now: a first half that is made is to go.
RefuseFirst(c) ==
  /\ calls[c].step = "first" /\ calls[c].adds = None
  /\ Ends(c)
  /\ UNCHANGED <<made, used, whole, left, counts>>

RefuseSecond(c) ==
  /\ calls[c].step = "second" /\ calls[c].adds = None
  /\ Goto(c, "undo")
  /\ UNCHANGED <<made, used, whole, left, counts>>

\* synthetic.remove of the first half's id, whoever's it is by now; refused while a VOD is made of it.
RemoveFirst(c) ==
  /\ calls[c].step = "undo"
  /\ IF "first" \in used
     THEN left' = left \cup {calls[c].no} /\ UNCHANGED made
     ELSE made' = [made EXCEPT !["first"] = None] /\ UNCHANGED left
  /\ Ends(c)
  /\ UNCHANGED <<used, whole, counts>>

----------------------------------------------------------------------------
(* Other requests: of the synthetic routes, of merge_vods.                  *)

Changed == counts.changes < MaxChanges /\ counts' = [counts EXCEPT !.changes = @ + 1]

Create(c, id) ==
  \E start \in 0..(Length - 1), end \in 1..Length :
    /\ calls[c] = Idle /\ start < end /\ CanCreate(Row(id, start, end, 0)) /\ Changed
    /\ calls' = [calls EXCEPT ![c] = [step |-> "other", at |-> 0, no |-> 0, adds |-> Row(id, start, end, 0)]]
    /\ UNCHANGED <<made, used, whole, left>>

\* One step: the row's lock and its foreign keys keep it and those who would use it apart.
Delete(id) ==
  /\ id \in There \ used /\ Changed
  /\ made' = [made EXCEPT ![id] = None]
  /\ UNCHANGED <<used, calls, whole, left>>

\* A synthetic VOD is made of one of these.
Use(id) ==
  /\ id \in There \ used /\ Changed
  /\ used' = used \cup {id}
  /\ UNCHANGED <<made, calls, whole, left>>

----------------------------------------------------------------------------

Init ==
  /\ made = [id \in Ids |-> None] /\ used = {}
  /\ calls = [c \in Calls |-> Idle] /\ whole = {} /\ left = {}
  /\ counts = [splits |-> 0, changes |-> 0, faults |-> 0]

Next ==
  \/ \E c \in Calls :
       \/ Split(c) \/ CheckHalf(c, "first", First(c)) \/ CheckHalf(c, "second", Second(c))
       \/ RefuseFirst(c) \/ RefuseSecond(c) \/ RemoveFirst(c)
       \/ Commit(c) \/ Conflict(c) \/ Fails(c)
       \/ \E id \in Ids : Create(c, id)
  \/ \E id \in Ids : Delete(id) \/ Use(id)

Spec == Init /\ [][Next]_splitVars

----------------------------------------------------------------------------

\* What is used is there; splits have numbers.
TypeOK ==
  /\ used \subseteq There
  /\ \A id \in There : made[id].start < made[id].end /\ made[id].by \in 0..counts.splits
  /\ whole \cup left \subseteq 1..counts.splits

\* "Both or neither": a half of a split that is over is one of a split that made both, unless it failed
\* between the two, or the half was in use by the time it was to be removed; and a second of the VOD is
\* superseded by two only where one of them was checked while the other was checked and not committed,
\* also when two admins split it side by side (split_vod, synthetic.create, remove).
SplitIsWhole ==
  /\ \A half \in Halves \cap There :
       LET n == made[half].by
       IN  n = 0 \/ n \in whole \cup left \/ \E c \in Calls : calls[c].no = n
  /\ \A a, b \in There : a # b => Apart(made[a], made[b]) \/ a \in made[b].beside \/ b \in made[a].beside
===============================================================================
