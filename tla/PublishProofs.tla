---------------------------- MODULE PublishProofs ----------------------------
(****************************************************************************)
(* What TLAPS proves of Publish, for any jobs, parts, settings and faults:  *)
(* what is listed is there, no step writes over another's, a part is        *)
(* uploaded once, and the uploads of a VOD link to each other.              *)
(****************************************************************************)
EXTENDS Publish, FiniteSetTheorems, WellFoundedInduction, TLAPS

----------------------------------------------------------------------------
(* The inductive invariant.                                                 *)

VideoIds == (Jobs \cup {NoJob}) \X Nat
Entry    == [id : VideoIds, type : STRING, part : Nat, gaps : BOOLEAN, preview : BOOLEAN]
Partial  == UNION {[K -> VideoIds] : K \in SUBSET Nat}
Payload  == [uploaded : Partial, begun : BOOLEAN, replacing : Partial, removed : SUBSET VideoIds,
             not_removed : SUBSET VideoIds, deferrals : Nat]
States   == {"queued", "running", "failed", "cancelled", "done"}
Places   == {"idle", "begin", "replace", "parts", "uploaded", "saving", "listed", "gone", "drop", "dropping",
             "describing", "making", "sheets", "setting"}
RunType  == [pc : Places, mem : Payload, part : Nat, id : VideoIds, seen : SUBSET Entry,
             tried : SUBSET (VideoIds \cup Nat)]
JobType  == [state : States, step : {"upload", "describe", "previews", "none"}, waiting : BOOLEAN, attempts : Nat, saved : Payload, run : RunType]

Types ==
  /\ list \subseteq Entry /\ channel \subseteq VideoIds /\ held \in Jobs \cup {NoJob}
  /\ made \in [Jobs -> Nat] /\ spent \in [faults : Nat, retries : Nat]
  /\ job \in [Jobs -> JobType]

\* A video that some job has uploaded by now, or that was there before.
Known(x)  == x[1] \in Jobs => x[2] \in 1..made[x[1]]
ListedIds == {e.id : e \in list}

\* A list has an upload once, and one for each part; a job's are of its type.
ListOK ==
  /\ \A e, f \in list : e.id = f.id \/ (e.type = f.type /\ e.part = f.part) => e = f
  /\ \A e \in list : Known(e.id) /\ (e.id[1] \in Jobs => e.type = Kind[e.id[1]].type)

\* What a payload says of uploads is so.  An upload that replaced another one has taken its place.
PayloadOK(j, p) ==
  /\ DOMAIN p.uploaded \subseteq Kind[j].parts
  /\ \A k \in DOMAIN p.uploaded : p.uploaded[k][1] = j /\ Known(p.uploaded[k])
  /\ \A k, l \in DOMAIN p.uploaded : p.uploaded[k] = p.uploaded[l] => k = l
  /\ p.begun \/ DOMAIN p.replacing = {}
  /\ p.begun => Publishes(j)
  /\ Kind[j].replace /\ ~p.begun => DOMAIN p.uploaded = {}
  /\ \A k \in DOMAIN p.replacing : Known(p.replacing[k])
  /\ \A k \in DOMAIN p.replacing : \A e \in list : e.id = p.replacing[k] => e.type = Kind[j].type /\ e.part = k
  /\ \A k \in DOMAIN p.uploaded \cap DOMAIN p.replacing :
       p.replacing[k] # p.uploaded[k] => p.replacing[k] \notin ListedIds
  /\ \A x \in p.removed : Known(x) /\ x \notin channel

Live(r)       == r.state = "running"
InFlight(r)   == Live(r) /\ r.run.pc \in {"uploaded", "saving"}
Unrecorded(r) == Live(r) /\ r.run.pc \in {"uploaded", "saving", "listed"}

\* What it replaces past its last part, once it has its parts up.
ExtraOf(j, p)  == IF Kind[j].whole /\ Cardinality(DOMAIN p.uploaded) = Kind[j].total
                  THEN {k \in DOMAIN p.replacing : k > Kind[j].total} ELSE {}

\* Where a step is.
Placed(j, r) ==
  /\ r.run.pc \in {"replace", "parts", "uploaded", "saving", "listed", "gone", "drop", "dropping"} => r.step = "upload"
  /\ r.run.pc = "describing" => r.step = "describe"
  /\ r.run.pc \in {"making", "sheets", "setting"} => r.step = "previews"
  /\ r.run.pc \in {"parts", "uploaded", "saving", "listed", "gone", "drop", "dropping"} /\ Kind[j].replace =>
       r.run.mem.begun
  /\ r.run.pc = "begin" => r.run = Begun(r.run.mem)
  /\ r.step = "upload" => r.run.tried \subseteq r.run.mem.not_removed

\* What is in memory is saved, but for the list of what to replace that is about to be.
Remembered(r) ==
  IF r.run.pc = "replace"
  THEN /\ \E replacing \in Partial : r.run.mem = [r.saved EXCEPT !.begun = TRUE, !.replacing = replacing]
       /\ r.saved.begun => r.run.mem.replacing = r.saved.replacing
  ELSE r.run.mem = r.saved

\* What a step has in hand: an upload of its own that is not recorded yet, ...
InHand(j, r) ==
  /\ Unrecorded(r) => /\ r.run.id = <<j, made[j]>> /\ Known(r.run.id)
                      /\ r.run.part \in Kind[j].parts \ DOMAIN r.run.mem.uploaded
                      /\ \A k \in DOMAIN r.run.mem.uploaded : r.run.mem.uploaded[k] # r.run.id
  /\ InFlight(r) => r.run.id \in channel \ ListedIds
  /\ r.run.pc = "listed" =>
       \A k \in DOMAIN r.run.mem.replacing : k = r.run.part => r.run.mem.replacing[k] \notin ListedIds

\* ... one that it deleted, or those it is about to take off the list.
OffHand(j, r) ==
  /\ r.run.pc = "gone" => Known(r.run.id) /\ r.run.id \notin channel
  /\ r.run.pc \in {"drop", "dropping"} =>
       \A k \in ExtraOf(j, r.run.mem) : r.run.mem.replacing[k] \in r.run.mem.removed \cup r.run.mem.not_removed
  /\ r.run.pc \in {"sheets", "setting"} => r.run.id[1] = j

StepOK(j, r) == Placed(j, r) /\ Remembered(r) /\ InHand(j, r) /\ OffHand(j, r)

JobOK(j, r) == PayloadOK(j, r.saved) /\ PayloadOK(j, r.run.mem) /\ (Live(r) => StepOK(j, r))

\* Whoever has the row locked has read the list as it is.
Locking(j, r) == Live(r) /\ r.run.pc \in {"saving", "dropping", "setting"} => held = j /\ r.run.seen = list

Exclusive == \A i, j \in Jobs : Live(job[i]) /\ Live(job[j]) /\ Kind[i].type = Kind[j].type => i = j

\* Nobody has taken an upload that is not listed yet for one to replace.
ApartFrom(p, x) == \A k \in DOMAIN p.replacing : p.replacing[k] # x
Apart == \A i, j \in Jobs : InFlight(job[j]) => ApartFrom(job[i].saved, job[j].run.id) /\ ApartFrom(job[i].run.mem, job[j].run.id)

\* The ids a job may leave on the list that are not on YouTube any more: of its uploads past the last part,
\* once it has its parts up, and those it reports.
Excuses(j, r)  == r.saved.not_removed
                  \cup IF r.step = "upload" /\ Kind[j].parts \subseteq DOMAIN r.saved.uploaded
                       THEN {r.saved.replacing[k] : k \in ExtraOf(j, r.saved)} ELSE {}
OffChannel     == \A e \in list : e.id \in channel \/ \E j \in Jobs : e.id \in Excuses(j, job[j])

\* A job uploads for each part it has recorded, the one under way, and once more for each fault.
Counted(j, r) == made[j] <= Cardinality(DOMAIN r.saved.uploaded) + (IF Unrecorded(r) THEN 1 ELSE 0) + spent.faults

\* Who describes knows the list of its type, and what it has described links to it.
Linking(j, r) ==
  Live(r) /\ r.run.pc = "describing" =>
    /\ r.run.seen = Entries(Kind[j].type)
    /\ \A e \in r.run.seen : e.id \in r.run.tried /\ e.id \in channel =>
         e.id \in DOMAIN text /\ text[e.id] = {<<f.part, f.id>> : f \in {f \in r.run.seen : f.part # e.part}}

Inv ==
  /\ Types /\ ListOK /\ Exclusive /\ Apart /\ OffChannel
  /\ \A j \in Jobs : JobOK(j, job[j]) /\ Locking(j, job[j]) /\ Counted(j, job[j]) /\ Linking(j, job[j])

----------------------------------------------------------------------------

LEMMA LeastOf ==
  ASSUME NEW S \in SUBSET Nat, S # {}
  PROVE  Min(S) \in S /\ \A x \in S : Min(S) <= x
<1>1. IsWellFoundedOn(OpToRel(<, Nat), Nat)
  BY NatLessThanWellFounded
<1>2. PICK x \in S : \A y \in S : ~(<<y, x>> \in OpToRel(<, Nat))
  BY <1>1, WFMin
<1>3. ASSUME NEW y \in S, y < x PROVE FALSE
  <2>1. <<y, x>> \in OpToRel(<, Nat)
    BY <1>3, Zenon DEF OpToRel
  <2>2. QED BY <2>1, <1>2
<1>4. \A y \in S : x <= y
  BY <1>3
<1>5. QED BY <1>4 DEF Min

LEMMA RecordedFinite ==
  ASSUME NEW j \in Jobs, NEW p, PayloadOK(j, p)
  PROVE  IsFiniteSet(DOMAIN p.uploaded) /\ Cardinality(DOMAIN p.uploaded) \in Nat
BY FS_Subset, FS_CardinalityType, PublishAssumption DEF PayloadOK

\* A step of one job that touches nothing but its row and the lock, and puts no upload on its way.
LEMMA LocalStep ==
  ASSUME Inv, NEW j \in Jobs, NEW r \in JobType, job' = [job EXCEPT ![j] = r],
         UNCHANGED <<list, channel, text, made>>,
         held' \in Jobs \cup {NoJob}, held' = held \/ held \in {NoJob, j},
         spent' \in [faults : Nat, retries : Nat], spent'.faults >= spent.faults,
         JobOK(j, r), Linking(j, r),
         Live(r) => Live(job[j]) \/ \A k \in Jobs : Live(job[k]) => Kind[k].type # Kind[j].type,
         InFlight(r) => InFlight(job[j]) /\ r.run.id = job[j].run.id,
         \A k \in Jobs : InFlight(job[k]) => ApartFrom(r.saved, job[k].run.id) /\ ApartFrom(r.run.mem, job[k].run.id),
         Live(r) /\ r.run.pc \in {"saving", "dropping", "setting"} => held' = j /\ r.run.seen = list,
         made[j] <= Cardinality(DOMAIN r.saved.uploaded) + (IF Unrecorded(r) THEN 1 ELSE 0) + spent'.faults,
         \A e \in list : e.id \in Excuses(j, job[j]) => e.id \in channel \cup Excuses(j, r)
  PROVE  Inv'
<1>1. job'[j] = r /\ \A i \in Jobs \ {j} : job'[i] = job[i]
  BY DEF Inv, Types
<1>2. Types'
  BY DEF Inv, Types
<1>3. ListOK'
  BY DEF Inv, ListOK, Known
<1>4. Exclusive'
  BY <1>1 DEF Inv, Exclusive
<1>5. Apart'
  BY <1>1 DEF Inv, Apart
<1>6. OffChannel'
  <2>1. \A i \in Jobs : Excuses(i, job'[i]) = Excuses(i, job[i])' 
    BY DEF Excuses, ExtraOf
  <2>2. \A e \in list : \A i \in Jobs : e.id \in Excuses(i, job[i]) => e.id \in channel \cup Excuses(i, job'[i])
    BY <1>1
  <2>3. QED BY <2>1, <2>2 DEF Inv, OffChannel
<1>7. ASSUME NEW i \in Jobs
      PROVE  (JobOK(i, job[i]) /\ Locking(i, job[i]) /\ Counted(i, job[i]) /\ Linking(i, job[i]))'
  <2>1. ListedIds' = ListedIds /\ \A x : Known(x)' = Known(x)
    BY DEF ListedIds, Known
  <2>2. \A p : PayloadOK(i, p)' = PayloadOK(i, p)
    BY <2>1 DEF PayloadOK
  <2>3. \A q : JobOK(i, q) => JobOK(i, q)'
    <3>1. \A q : OffHand(i, q) => OffHand(i, q)'
      BY <2>1 DEF OffHand, ExtraOf
    <3>2. \A q : InHand(i, q) => InHand(i, q)'
      BY <2>1 DEF InHand
    <3>3. QED BY <2>1, <2>2, <3>1, <3>2 DEF JobOK, StepOK
  <2>4. \A q : Linking(i, q) => Linking(i, q)'
    BY DEF Linking, Entries
  <2>5. JobOK(i, job'[i]) /\ Linking(i, job'[i])
    BY <1>1 DEF Inv
  <2>6. Locking(i, job[i])'
    BY <1>1, PublishAssumption DEF Inv, Locking
  <2>7. Counted(i, job[i])'
    <3>1. PayloadOK(i, job[i].saved) /\ Counted(i, job[i]) /\ made \in [Jobs -> Nat] /\ spent \in [faults : Nat, retries : Nat]
      BY DEF Inv, JobOK, Types
    <3>2. Cardinality(DOMAIN job[i].saved.uploaded) \in Nat
      BY <3>1, RecordedFinite
    <3>3. CASE i = j
      BY <1>1, <3>3 DEF Counted
    <3>4. CASE i # j
      BY <1>1, <3>1, <3>2, <3>4 DEF Counted
    <3>5. QED BY <3>3, <3>4
  <2>8. QED BY <2>3, <2>4, <2>5, <2>6, <2>7
<1>8. QED BY <1>2, <1>3, <1>4, <1>5, <1>6, <1>7 DEF Inv

\* What is in memory and what is saved differ only until the list of what to replace is saved.
LEMMA MemAndSaved ==
  ASSUME Inv, NEW j \in Jobs, Live(job[j])
  PROVE  /\ Mem(j).uploaded = job[j].saved.uploaded /\ Mem(j).removed = job[j].saved.removed
         /\ Mem(j).not_removed = job[j].saved.not_removed
         /\ \A k \in DOMAIN job[j].saved.replacing :
              k \in DOMAIN Mem(j).replacing /\ Mem(j).replacing[k] = job[j].saved.replacing[k]
         /\ Mem(j) \in Payload /\ job[j].saved \in Payload
<1>1. job[j] \in JobType /\ JobOK(j, job[j])
  BY DEF Inv, Types
<1>2. CASE job[j].run.pc # "replace"
  BY <1>1, <1>2 DEF JobOK, StepOK, Remembered, Mem, JobType, RunType
<1>3. CASE job[j].run.pc = "replace"
  <2>1. PICK replacing \in Partial : Mem(j) = [job[j].saved EXCEPT !.begun = TRUE, !.replacing = replacing]
    BY <1>1, <1>3 DEF JobOK, StepOK, Remembered, Mem
  <2>2. job[j].saved \in Payload /\ Mem(j) \in Payload
    BY <1>1 DEF JobType, RunType, Mem
  <2>3. job[j].saved.begun => Mem(j).replacing = job[j].saved.replacing
    BY <1>1, <1>3 DEF JobOK, StepOK, Remembered, Mem
  <2>4. job[j].saved.begun \/ DOMAIN job[j].saved.replacing = {}
    BY <1>1 DEF JobOK, PayloadOK
  <2>5. QED BY <2>1, <2>2, <2>3, <2>4 DEF Payload
<1>4. QED BY <1>2, <1>3

\* Two payloads that say the same of uploads.
SameUploads(p, q) ==
  /\ p.uploaded = q.uploaded /\ p.begun = q.begun /\ p.replacing = q.replacing
  /\ p.removed = q.removed /\ p.not_removed = q.not_removed

LEMMA OfSameUploads ==
  ASSUME NEW j, NEW p, NEW q, SameUploads(p, q), PayloadOK(j, q)
  PROVE  PayloadOK(j, p)
<1>1. /\ p.uploaded = q.uploaded /\ p.begun = q.begun /\ p.replacing = q.replacing /\ p.removed = q.removed
  BY DEF SameUploads
<1>2. /\ DOMAIN p.uploaded \subseteq Kind[j].parts
      /\ \A k \in DOMAIN p.uploaded : p.uploaded[k][1] = j /\ Known(p.uploaded[k])
      /\ \A k, l \in DOMAIN p.uploaded : p.uploaded[k] = p.uploaded[l] => k = l
  BY <1>1 DEF PayloadOK
<1>3. /\ p.begun \/ DOMAIN p.replacing = {}
      /\ p.begun => Publishes(j)
      /\ Kind[j].replace /\ ~p.begun => DOMAIN p.uploaded = {}
  BY <1>1 DEF PayloadOK
<1>4. /\ \A k \in DOMAIN p.replacing : Known(p.replacing[k])
      /\ \A k \in DOMAIN p.replacing : \A e \in list : e.id = p.replacing[k] => e.type = Kind[j].type /\ e.part = k
      /\ \A k \in DOMAIN p.uploaded \cap DOMAIN p.replacing :
           p.replacing[k] # p.uploaded[k] => p.replacing[k] \notin ListedIds
  BY <1>1 DEF PayloadOK
<1>5. \A x \in p.removed : Known(x) /\ x \notin channel
  BY <1>1 DEF PayloadOK
<1>6. QED BY <1>2, <1>3, <1>4, <1>5 DEF PayloadOK

\* A step that ends without returning, or is ended: a fault, unless nothing was under way.
LEMMA LeaveStep ==
  ASSUME Inv, NEW j \in Jobs, Live(job[j]), NEW r \in JobType, job' = [job EXCEPT ![j] = r],
         r.state # "running", r.step = job[j].step, r.run = Idle,
         SameUploads(r.saved, Mem(j)) \/ SameUploads(r.saved, job[j].saved),
         UNCHANGED <<list, channel, text, made>>, held' = IF held = j THEN NoJob ELSE held,
         spent' \in [faults : Nat, retries : Nat], spent'.faults >= spent.faults,
         spent'.faults > spent.faults \/ ~Unrecorded(job[j])
  PROVE  Inv'
<1>1. /\ PayloadOK(j, job[j].saved) /\ PayloadOK(j, Mem(j)) /\ Counted(j, job[j])
      /\ held \in Jobs \cup {NoJob} /\ spent \in [faults : Nat, retries : Nat] /\ made[j] \in Nat
  BY DEF Inv, JobOK, Types, Mem
<1>2. ~Live(r) /\ ~InFlight(r) /\ ~Unrecorded(r)
  BY DEF Live, InFlight, Unrecorded
<1>3. r.run.mem = NoPayload
  BY DEF Idle, RunAt
<1>4. PayloadOK(j, r.saved)
  BY <1>1, OfSameUploads
<1>5. PayloadOK(j, NoPayload)
  BY DEF PayloadOK, NoPayload
<1>6. JobOK(j, r)
  BY <1>2, <1>3, <1>4, <1>5 DEF JobOK
<1>7. \A k \in Jobs : InFlight(job[k]) => ApartFrom(r.saved, job[k].run.id) /\ ApartFrom(r.run.mem, job[k].run.id)
  <2>1. \A x : ApartFrom(NoPayload, x)
    BY DEF ApartFrom, NoPayload
  <2>2. \A k \in Jobs : InFlight(job[k]) => ApartFrom(job[j].saved, job[k].run.id) /\ ApartFrom(Mem(j), job[k].run.id)
    BY DEF Inv, Apart, Mem
  <2>3. QED BY <2>1, <2>2, <1>3 DEF ApartFrom, SameUploads
<1>8. made[j] <= Cardinality(DOMAIN r.saved.uploaded) + (IF Unrecorded(r) THEN 1 ELSE 0) + spent'.faults
  <2>1. r.saved.uploaded = job[j].saved.uploaded
    BY MemAndSaved DEF SameUploads
  <2>2. Cardinality(DOMAIN r.saved.uploaded) \in Nat
    BY <1>4, RecordedFinite
  <2>3. QED BY <1>1, <1>2, <2>1, <2>2 DEF Counted
<1>9. \A e \in list : e.id \in Excuses(j, job[j]) => e.id \in channel \cup Excuses(j, r)
  <2>1. /\ r.saved.not_removed = job[j].saved.not_removed /\ r.saved.uploaded = job[j].saved.uploaded
        /\ \A k \in DOMAIN job[j].saved.replacing :
             k \in DOMAIN r.saved.replacing /\ r.saved.replacing[k] = job[j].saved.replacing[k]
    BY MemAndSaved DEF SameUploads
  <2>2. \A k \in ExtraOf(j, job[j].saved) :
          k \in ExtraOf(j, r.saved) /\ r.saved.replacing[k] = job[j].saved.replacing[k]
    BY <2>1 DEF ExtraOf
  <2>3. QED BY <2>1, <2>2 DEF Excuses
<1>10. Linking(j, r)
  BY <1>2 DEF Linking
<1>11. held' \in Jobs \cup {NoJob} /\ (held' = held \/ held \in {NoJob, j})
  BY <1>1
<1>12. QED BY <1>2, <1>6, <1>7, <1>8, <1>9, <1>10, <1>11, LocalStep

LEMMA IdleTypes ==
  /\ NoId \in VideoIds /\ NoPayload \in Payload /\ Idle \in RunType
  /\ \A p \in Payload : Begun(p) \in RunType
<1>1. NoId \in VideoIds
  BY DEF NoId, VideoIds
<1>2. NoPayload \in Payload
  <2>1. <<>> \in Partial
    BY SMTT(30) DEF Partial
  <2>2. ASSUME NEW none \in Partial
        PROVE  [uploaded |-> none, begun |-> FALSE, replacing |-> none, removed |-> {}, not_removed |-> {},
                deferrals |-> 0] \in Payload
    BY DEF Payload
  <2>3. QED BY <2>1, <2>2 DEF NoPayload
<1>3. ASSUME NEW p \in Payload, NEW pc \in Places PROVE RunAt(pc, p) \in RunType
  BY <1>1 DEF RunType, RunAt
<1>4. RunAt("idle", NoPayload) \in RunType /\ \A p \in Payload : RunAt("begin", p) \in RunType
  BY <1>2, <1>3 DEF Places
<1>5. QED BY <1>1, <1>2, <1>4 DEF Idle, Begun

LEMMA JobTyped ==
  ASSUME Inv, NEW j \in Jobs
  PROVE  /\ job[j] \in JobType /\ job[j].saved \in Payload /\ Run(j) \in RunType /\ Mem(j) \in Payload
         /\ JobOK(j, job[j]) /\ Linking(j, job[j]) /\ Counted(j, job[j]) /\ Locking(j, job[j])
         /\ made[j] \in Nat /\ held \in Jobs \cup {NoJob} /\ spent \in [faults : Nat, retries : Nat]
BY DEF Inv, Types, JobType, RunType, Run, Mem

LEMMA PayloadsOK ==
  ASSUME Inv, NEW i \in Jobs, NEW p \in {job[i].saved, job[i].run.mem, NoPayload}
  PROVE  PayloadOK(i, p)
<1>1. PayloadOK(i, NoPayload)
  BY DEF PayloadOK, NoPayload
<1>2. PayloadOK(i, job[i].saved) /\ PayloadOK(i, job[i].run.mem)
  BY JobTyped DEF JobOK
<1>3. QED BY <1>1, <1>2

LEMMA LeavesInv ==
  ASSUME Inv, NEW j \in Jobs, Running(j), NEW state \in {"queued", "failed", "cancelled"}, NEW attempts \in Nat,
         NEW payload \in Payload, SameUploads(payload, Mem(j)) \/ SameUploads(payload, job[j].saved),
         Leaves(j, state, attempts, payload), UNCHANGED <<list, channel, text, made>>,
         spent' \in [faults : Nat, retries : Nat], spent'.faults >= spent.faults,
         spent'.faults > spent.faults \/ ~Unrecorded(job[j])
  PROVE  Inv'
<1> DEFINE r == [job[j] EXCEPT !.state = state, !.attempts = attempts, !.waiting = state = "queued",
                               !.saved = payload, !.run = Idle]
<1>1. job' = [job EXCEPT ![j] = r] /\ held' = IF held = j THEN NoJob ELSE held
  BY DEF Leaves
<1>2. r \in JobType
  <2>1. ASSUME NEW q \in JobType, NEW s \in States, NEW waiting \in BOOLEAN, NEW run \in RunType
        PROVE  [q EXCEPT !.state = s, !.attempts = attempts, !.waiting = waiting, !.saved = payload, !.run = run]
                 \in JobType
    BY <2>1 DEF JobType
  <2>2. state \in States
    BY DEF States
  <2>3. (state = "queued") \in BOOLEAN
    BY Zenon
  <2>4. QED BY <2>1, <2>2, <2>3, JobTyped, IdleTypes
<1>3. r.state = state /\ r.step = job[j].step /\ r.run = Idle /\ r.saved = payload
  BY JobTyped DEF JobType
<1>4. Live(job[j])
  BY DEF Live, Running
<1> HIDE DEF r
<1>5. QED BY <1>1, <1>2, <1>3, <1>4, LeaveStep

LEMMA FailsInv ==
  ASSUME Inv, NEW j \in Jobs, Fails(j) \/ Cancel(j)
  PROVE  Inv'
<1>1. /\ Running(j) /\ UNCHANGED <<list, channel, text, made>>
      /\ spent' \in [faults : Nat, retries : Nat] /\ spent'.faults > spent.faults
  BY JobTyped DEF Fails, Cancel, Fault
<1>2. PICK payload \in {Mem(j), job[j].saved}, state \in {"queued", "failed", "cancelled"},
           attempts \in {job[j].attempts, job[j].attempts + 1} : Leaves(j, state, attempts, payload)
  BY DEF Fails, Cancel
<1>3. payload \in Payload /\ attempts \in Nat
  BY JobTyped DEF JobType
<1>4. SameUploads(payload, Mem(j)) \/ SameUploads(payload, job[j].saved)
  BY DEF SameUploads
<1>5. spent'.faults >= spent.faults
  BY <1>1, JobTyped
<1>6. QED BY <1>1, <1>2, <1>3, <1>4, <1>5, LeavesInv

LEMMA RefusedInv ==
  ASSUME Inv, NEW j \in Jobs, UploadRefused(j) \/ DescribeRefused(j)
  PROVE  Inv'
<1>1. /\ Running(j) /\ WaitForLimit(j) /\ UNCHANGED <<list, channel, text, made, spent>>
      /\ Run(j).pc \in {"parts", "describing"}
  BY DEF UploadRefused, DescribeRefused, At, Run
<1>2. PICK n \in Nat, state \in {"queued", "failed"} :
        Leaves(j, state, job[j].attempts, [Mem(j) EXCEPT !.deferrals = n])
  <2>1. Mem(j).deferrals + 1 \in Nat
    BY JobTyped DEF Payload
  <2>2. QED BY <1>1, <2>1 DEF WaitForLimit
<1>3. /\ [Mem(j) EXCEPT !.deferrals = n] \in Payload /\ SameUploads([Mem(j) EXCEPT !.deferrals = n], Mem(j))
      /\ job[j].attempts \in Nat
  BY JobTyped DEF Payload, SameUploads, JobType
<1>4. ~Unrecorded(job[j]) /\ spent' \in [faults : Nat, retries : Nat] /\ spent'.faults >= spent.faults
  BY <1>1, JobTyped DEF Unrecorded, Run
<1>5. QED BY <1>1, <1>2, <1>3, <1>4, LeavesInv

\* A step that leaves the payload as it is, or saves the one in memory.
LEMMA PlainStep ==
  ASSUME Inv, NEW j \in Jobs, NEW r \in JobType, job' = [job EXCEPT ![j] = r],
         r.saved = job[j].saved \/ (Live(job[j]) /\ r.saved = Mem(j)),
         r.run.mem \in {Mem(j), job[j].saved, NoPayload},
         UNCHANGED <<list, channel, text, made>>,
         held' \in Jobs \cup {NoJob}, held' = held \/ held \in {NoJob, j},
         spent' \in [faults : Nat, retries : Nat], spent'.faults = spent.faults,
         Live(r) => StepOK(j, r), Linking(j, r),
         Live(r) => Live(job[j]) \/ \A k \in Jobs : Live(job[k]) => Kind[k].type # Kind[j].type,
         InFlight(r) => InFlight(job[j]) /\ r.run.id = job[j].run.id,
         Unrecorded(job[j]) => Unrecorded(r),
         Live(r) /\ r.run.pc \in {"saving", "dropping", "setting"} => held' = j /\ r.run.seen = list,
         r.step = job[j].step \/ \A e \in list : e.id \in Excuses(j, job[j]) => e.id \in channel \cup Excuses(j, r)
  PROVE  Inv'
<1>1. PayloadOK(j, job[j].saved) /\ PayloadOK(j, Mem(j)) /\ Counted(j, job[j]) /\ spent.faults \in Nat
  BY JobTyped DEF JobOK, Mem
<1>2. PayloadOK(j, NoPayload)
  BY DEF PayloadOK, NoPayload
<1>3. JobOK(j, r)
  BY <1>1, <1>2 DEF JobOK
<1>4. \A k \in Jobs : InFlight(job[k]) => ApartFrom(r.saved, job[k].run.id) /\ ApartFrom(r.run.mem, job[k].run.id)
  <2>1. \A x : ApartFrom(NoPayload, x)
    BY DEF ApartFrom, NoPayload
  <2>2. \A k \in Jobs : InFlight(job[k]) => ApartFrom(job[j].saved, job[k].run.id) /\ ApartFrom(Mem(j), job[k].run.id)
    BY DEF Inv, Apart, Mem
  <2>3. QED BY <2>1, <2>2
<1>5. r.saved.uploaded = job[j].saved.uploaded /\ r.saved.not_removed = job[j].saved.not_removed
  BY MemAndSaved
<1>6. made[j] <= Cardinality(DOMAIN r.saved.uploaded) + (IF Unrecorded(r) THEN 1 ELSE 0) + spent'.faults
  <2>1. Cardinality(DOMAIN r.saved.uploaded) \in Nat
    BY <1>1, <1>5, RecordedFinite
  <2>2. made[j] <= Cardinality(DOMAIN job[j].saved.uploaded) + (IF Unrecorded(job[j]) THEN 1 ELSE 0) + spent.faults
    BY <1>1 DEF Counted
  <2>3. QED BY <2>1, <2>2, <1>1, <1>5, JobTyped
<1>7. \A e \in list : e.id \in Excuses(j, job[j]) => e.id \in channel \cup Excuses(j, r)
  <2>1. CASE r.step = job[j].step
    <3>1. \A k \in DOMAIN job[j].saved.replacing :
            k \in DOMAIN r.saved.replacing /\ r.saved.replacing[k] = job[j].saved.replacing[k]
      BY MemAndSaved
    <3>2. \A k \in ExtraOf(j, job[j].saved) :
            k \in ExtraOf(j, r.saved) /\ r.saved.replacing[k] = job[j].saved.replacing[k]
      BY <1>5, <3>1 DEF ExtraOf
    <3>3. QED BY <1>5, <2>1, <3>2 DEF Excuses
  <2>2. QED BY <2>1
<1>8. spent'.faults >= spent.faults
  BY <1>1
<1>9. QED BY <1>3, <1>4, <1>6, <1>7, <1>8, LocalStep

LEMMA BeginInv ==
  ASSUME Inv, NEW j \in Jobs, Begin(j) \/ Retry(j) \/ WaitEnds(j)
  PROVE  Inv'
<1>1. CASE Begin(j)
  <2> DEFINE r == [job[j] EXCEPT !.state = "running", !.run = Begun(job[j].saved)]
  <2>1. job' = [job EXCEPT ![j] = r] /\ UNCHANGED <<list, channel, text, held, made, spent>>
    BY <1>1 DEF Begin, Local
  <2>2. Begun(job[j].saved) \in RunType
    BY JobTyped, IdleTypes
  <2>3. r \in JobType /\ r.saved = job[j].saved /\ r.step = job[j].step /\ r.run = Begun(job[j].saved)
    BY <2>2, JobTyped DEF JobType, States
  <2>4. r.run = Begun(r.run.mem) /\ r.run.mem = job[j].saved /\ r.run.pc = "begin" /\ r.run.tried = {}
    BY <2>3 DEF Begun, RunAt
  <2> HIDE DEF r
  <2>5. StepOK(j, r) /\ Linking(j, r) /\ ~InFlight(r)
    BY <2>3, <2>4 DEF StepOK, Placed, Remembered, InHand, OffHand, InFlight, Unrecorded, Linking
  <2>6. ~Live(job[j]) /\ \A k \in Jobs : Live(job[k]) => Kind[k].type # Kind[j].type
    BY <1>1 DEF Begin, Live, Running
  <2>7. ~Unrecorded(job[j])
    BY <2>6 DEF Unrecorded
  <2>8. QED BY <2>1, <2>3, <2>4, <2>5, <2>6, <2>7, JobTyped, PlainStep
<1>2. CASE Retry(j)
  <2> DEFINE r == [job[j] EXCEPT !.state = "queued", !.attempts = 0]
  <2>1. job' = [job EXCEPT ![j] = r] /\ UNCHANGED <<list, channel, text, held, made>>
    BY <1>2 DEF Retry
  <2>2. spent' \in [faults : Nat, retries : Nat] /\ spent'.faults = spent.faults
    BY <1>2, JobTyped DEF Retry
  <2>3. r \in JobType /\ r.saved = job[j].saved /\ r.step = job[j].step /\ r.run.mem = Mem(j) /\ r.state = "queued"
    BY JobTyped DEF JobType, States, Mem
  <2>4. ~Live(job[j])
    BY <1>2 DEF Retry, Live
  <2> HIDE DEF r
  <2>5. ~Live(r) /\ Linking(j, r) /\ ~InFlight(r) /\ ~Unrecorded(job[j])
    BY <2>3, <2>4 DEF Live, InFlight, Unrecorded, Linking
  <2>6. QED BY <2>1, <2>2, <2>3, <2>5, JobTyped, PlainStep
<1>3. CASE WaitEnds(j)
  <2> DEFINE r == [job[j] EXCEPT !.waiting = FALSE]
  <2>1. job' = [job EXCEPT ![j] = r] /\ UNCHANGED <<list, channel, text, held, made, spent>>
    BY <1>3 DEF WaitEnds, Local
  <2>2. /\ r \in JobType /\ r.saved = job[j].saved /\ r.step = job[j].step /\ r.run = job[j].run
        /\ r.state = job[j].state
    BY JobTyped DEF JobType
  <2> HIDE DEF r
  <2>3. Live(r) = Live(job[j]) /\ InFlight(r) = InFlight(job[j]) /\ Unrecorded(r) = Unrecorded(job[j])
    BY <2>2 DEF Live, InFlight, Unrecorded
  <2>4. StepOK(j, r) = StepOK(j, job[j]) /\ Linking(j, r) = Linking(j, job[j])
    BY <2>2, <2>3 DEF StepOK, Placed, Remembered, InHand, OffHand, Linking
  <2>5. Live(r) /\ r.run.pc \in {"saving", "dropping", "setting"} => held' = j /\ r.run.seen = list
    BY <2>1, <2>2, <2>3, JobTyped DEF Locking
  <2>6. r.run.mem = Mem(j)
    BY <2>2 DEF Mem
  <2>7. QED BY <2>1, <2>2, <2>3, <2>4, <2>5, <2>6, JobTyped, PlainStep DEF JobOK
<1>4. QED BY <1>1, <1>2, <1>3

LEMMA ReturnStep ==
  ASSUME Inv, NEW j \in Jobs, Live(job[j]), NEW next \in {"describe", "previews", "none"}, Returns(j, next),
         UNCHANGED <<list, channel, text, held, made, spent>>, ~Unrecorded(job[j]),
         job[j].step = "upload" =>
           \A e \in list : e.id \in Excuses(j, job[j]) => e.id \in channel \cup Mem(j).not_removed
  PROVE  Inv'
<1> DEFINE run == IF next = "none" THEN Idle ELSE Begun(Mem(j))
           state == IF next = "none" THEN "done" ELSE job[j].state
           r == [job[j] EXCEPT !.state = state, !.step = next, !.saved = Mem(j), !.run = run]
<1>1. job' = [job EXCEPT ![j] = r]
  BY DEF Returns
<1>2. run \in RunType /\ state \in States
  BY JobTyped, IdleTypes DEF JobType, States
<1>3. r \in JobType /\ r.saved = Mem(j) /\ r.step = next /\ r.run = run
  <2> HIDE DEF run, state
  <2>1. QED BY <1>2, JobTyped DEF JobType
<1>4. run = Idle \/ run = Begun(Mem(j))
  OBVIOUS
<1>5. /\ run.mem \in {NoPayload, Mem(j)} /\ run.pc \in {"idle", "begin"} /\ run.tried = {}
      /\ run.pc = "begin" => run = Begun(Mem(j)) /\ run.mem = Mem(j)
  BY <1>4 DEF Idle, Begun, RunAt
<1>6. Live(r) => run.pc = "begin"
  <2>1. next = "none" => r.state = "done"
    BY JobTyped DEF JobType
  <2>2. next # "none" => run.pc = "begin"
    BY DEF Begun, RunAt
  <2>3. QED BY <2>1, <2>2 DEF Live
<1> HIDE DEF r, run
<1>7. (Live(r) => StepOK(j, r)) /\ Linking(j, r) /\ ~InFlight(r) /\ ~Unrecorded(r)
  BY <1>3, <1>5, <1>6 DEF StepOK, Placed, Remembered, InHand, OffHand, InFlight, Unrecorded, Linking
<1>8. \A e \in list : e.id \in Excuses(j, job[j]) => e.id \in channel \cup Excuses(j, r)
  <2>1. r.saved.not_removed = job[j].saved.not_removed
    BY <1>3, MemAndSaved
  <2>2. QED BY <1>3, <2>1 DEF Excuses
<1>9. QED BY <1>1, <1>3, <1>5, <1>7, <1>8, JobTyped, PlainStep

LEMMA PartialValues ==
  ASSUME NEW f \in Partial
  PROVE  DOMAIN f \subseteq Nat /\ \A k \in DOMAIN f : f[k] \in VideoIds
BY DEF Partial

\* A step that changes nothing but where it is.
LEMMA MoveStep ==
  ASSUME Inv, NEW j \in Jobs, Live(job[j]), NEW run \in RunType, SetRun(j, run), run.mem = Mem(j),
         UNCHANGED <<list, channel, text, made, spent>>,
         held' \in Jobs \cup {NoJob}, held' = held \/ held \in {NoJob, j},
         \A r \in JobType : r = [job[j] EXCEPT !.run = run] => StepOK(j, r) /\ Linking(j, r),
         run.pc \in {"uploaded", "saving"} => Run(j).pc \in {"uploaded", "saving"} /\ run.id = Run(j).id,
         Run(j).pc \in {"uploaded", "saving", "listed"} => run.pc \in {"uploaded", "saving", "listed"},
         run.pc \in {"saving", "dropping", "setting"} => held' = j /\ run.seen = list
  PROVE  Inv'
<1> DEFINE r == [job[j] EXCEPT !.run = run]
<1>1. job' = [job EXCEPT ![j] = r]
  BY DEF SetRun
<1>2. r \in JobType /\ r.saved = job[j].saved /\ r.step = job[j].step /\ r.run = run /\ r.state = job[j].state
  BY JobTyped DEF JobType
<1>3. StepOK(j, r) /\ Linking(j, r)
  BY <1>2
<1> HIDE DEF r
<1>4. InFlight(r) => InFlight(job[j]) /\ r.run.id = job[j].run.id
  BY <1>2 DEF InFlight, Live, Run
<1>5. Unrecorded(job[j]) => Unrecorded(r)
  BY <1>2 DEF Unrecorded, Live, Run
<1>6. QED BY <1>1, <1>2, <1>3, <1>4, <1>5, JobTyped, PlainStep

LEMMA AtFacts ==
  ASSUME Inv, NEW j \in Jobs, Running(j)
  PROVE  /\ Live(job[j]) /\ StepOK(j, job[j]) /\ Run(j) \in RunType /\ Mem(j) \in Payload /\ Run(j).mem = Mem(j)
         /\ Run(j) = job[j].run /\ PayloadOK(j, Mem(j)) /\ PayloadOK(j, job[j].saved)
         /\ Run(j).pc # "replace" => Mem(j) = job[j].saved
BY JobTyped DEF Live, Running, Run, Mem, JobOK, StepOK, Remembered

LEMMA LockRowInv ==
  ASSUME Inv, NEW j \in Jobs, LockRow(j)
  PROVE  Inv'
<1> DEFINE run == [Run(j) EXCEPT !.pc = LockedBy[@], !.seen = list]
<1>1. /\ Running(j) /\ SetRun(j, run) /\ held = NoJob /\ held' = j /\ UNCHANGED <<list, channel, text, made, spent>>
      /\ \/ Run(j).pc = "uploaded" /\ LockedBy[Run(j).pc] = "saving"
         \/ Run(j).pc = "drop" /\ LockedBy[Run(j).pc] = "dropping"
         \/ Run(j).pc = "sheets" /\ LockedBy[Run(j).pc] = "setting"
  BY DEF LockRow, LockedBy
<1>2. list \subseteq Entry
  BY DEF Inv, Types
<1>3. /\ run \in RunType /\ run.pc = LockedBy[Run(j).pc] /\ run.seen = list /\ run.mem = Mem(j) /\ run.part = Run(j).part
      /\ run.id = Run(j).id /\ run.tried = Run(j).tried
  BY <1>1, <1>2, AtFacts DEF RunType, Places
<1> HIDE DEF run
<1>4. ASSUME NEW r \in JobType, r = [job[j] EXCEPT !.run = run] PROVE StepOK(j, r) /\ Linking(j, r)
  <2>1. r.saved = job[j].saved /\ r.step = job[j].step /\ r.run = run /\ r.state = job[j].state
    BY <1>4, JobTyped DEF JobType
  <2>2. /\ r.run.pc = LockedBy[job[j].run.pc] /\ r.run.mem = job[j].run.mem /\ r.run.part = job[j].run.part
        /\ r.run.id = job[j].run.id /\ r.run.tried = job[j].run.tried /\ job[j].run.mem = job[j].saved
    BY <1>1, <1>3, <2>1, AtFacts
  <2>3. /\ StepOK(j, job[j])
        /\ \/ job[j].run.pc = "uploaded" /\ r.run.pc = "saving"
           \/ job[j].run.pc = "drop" /\ r.run.pc = "dropping"
           \/ job[j].run.pc = "sheets" /\ r.run.pc = "setting"
    BY <1>1, <2>2, AtFacts
  <2>4. Placed(j, r) /\ Remembered(r)
    BY <2>1, <2>2, <2>3 DEF StepOK, Placed, Remembered
  <2>5. InHand(j, r)
    BY <2>1, <2>2, <2>3 DEF StepOK, InHand, InFlight, Unrecorded, Live
  <2>6. OffHand(j, r)
    BY <2>1, <2>2, <2>3 DEF StepOK, OffHand
  <2>7. QED BY <1>1, <1>3, <2>1, <2>2, <2>3, <2>4, <2>5, <2>6 DEF Linking, StepOK
<1>5. QED BY <1>1, <1>3, <1>4, AtFacts, MoveStep

LEMMA PlainStepOK ==
  ASSUME NEW j \in Jobs, NEW r \in JobType, r.run.mem = r.saved,
         \/ r.step = "upload" /\ r.run.pc = "parts" /\ (Kind[j].replace => r.run.mem.begun)
         \/ r.step = "describe" /\ r.run.pc = "describing"
         \/ r.step = "previews" /\ r.run.pc = "making",
         r.step = "upload" => r.run.tried \subseteq r.run.mem.not_removed
  PROVE  StepOK(j, r)
<1>1. Placed(j, r) /\ Remembered(r)
  BY DEF Placed, Remembered
<1>2. InHand(j, r) /\ OffHand(j, r)
  BY DEF InHand, OffHand, Unrecorded, InFlight
<1>3. QED BY <1>1, <1>2 DEF StepOK

LEMMA DescribesInv ==
  ASSUME Inv, NEW j \in Jobs, BeginDescribe(j) \/ EndDescribe(j)
  PROVE  Inv'
<1>1. /\ Running(j) /\ job[j].step = "describe" /\ UNCHANGED <<list, channel, text, held, made, spent>>
      /\ Run(j).pc \in {"begin", "describing"}
  BY DEF BeginDescribe, EndDescribe, At, Local, Run
<1>2. ~Unrecorded(job[j]) /\ Live(job[j])
  BY <1>1, AtFacts DEF Unrecorded
<1>3. CASE Returns(j, "previews")
  BY <1>1, <1>2, <1>3, ReturnStep
<1>4. CASE ~Returns(j, "previews")
  <2> DEFINE run == [Run(j) EXCEPT !.pc = "describing", !.seen = Entries(Kind[j].type)]
  <2>1. BeginDescribe(j) /\ Run(j).pc = "begin" /\ SetRun(j, run)
    BY <1>4 DEF BeginDescribe, EndDescribe, At, Run
  <2>2. Entries(Kind[j].type) \subseteq Entry
    BY DEF Entries, Inv, Types
  <2>3. job[j].run.tried = {}
    <3>1. job[j].run = Begun(job[j].run.mem)
      BY <1>1, <2>1, AtFacts DEF StepOK, Placed
    <3>2. QED BY <3>1 DEF Begun, RunAt
  <2>4. /\ run \in RunType /\ run.pc = "describing" /\ run.seen = Entries(Kind[j].type) /\ run.mem = Mem(j)
        /\ run.tried = {}
    BY <1>1, <2>2, <2>3, AtFacts DEF RunType, Places
  <2>5. Mem(j) = job[j].saved
    BY <1>1, AtFacts
  <2> HIDE DEF run
  <2>6. ASSUME NEW r \in JobType, r = [job[j] EXCEPT !.run = run] PROVE StepOK(j, r) /\ Linking(j, r)
    <3>1. r.saved = job[j].saved /\ r.step = job[j].step /\ r.run = run
      BY <2>6, JobTyped DEF JobType
    <3>2. StepOK(j, r)
      BY <1>1, <2>4, <2>5, <3>1, PlainStepOK
    <3>3. QED BY <2>4, <3>1, <3>2 DEF Linking
  <2>7. QED BY <1>1, <1>2, <2>1, <2>4, <2>6, JobTyped, MoveStep
<1>5. QED BY <1>3, <1>4

LEMMA PreviewsInv ==
  ASSUME Inv, NEW j \in Jobs, BeginPreviews(j) \/ MakeSheets(j) \/ SheetsFail(j) \/ EndPreviews(j)
  PROVE  Inv'
<1>1. /\ Running(j) /\ job[j].step = "previews" /\ UNCHANGED <<list, channel, text, held, made, spent>>
      /\ Run(j).pc \in {"begin", "making"}
  BY DEF BeginPreviews, MakeSheets, SheetsFail, EndPreviews, At, Local, Run
<1>2. /\ ~Unrecorded(job[j]) /\ Live(job[j]) /\ Run(j) \in RunType /\ Mem(j) = job[j].saved /\ Run(j).mem = Mem(j)
      /\ PayloadOK(j, Mem(j)) /\ Mem(j) \in Payload
  BY <1>1, AtFacts DEF Unrecorded
<1>3. CASE Returns(j, "none")
  BY <1>1, <1>2, <1>3, ReturnStep
<1>4. ASSUME NEW run \in RunType, SetRun(j, run), run.pc = "making", run.mem = Mem(j)
      PROVE  Inv'
  <2>1. ASSUME NEW r \in JobType, r = [job[j] EXCEPT !.run = run] PROVE StepOK(j, r) /\ Linking(j, r)
    <3>1. r.saved = job[j].saved /\ r.step = job[j].step /\ r.run = run
      BY <2>1, JobTyped DEF JobType
    <3>2. QED BY <1>1, <1>2, <1>4, <3>1, PlainStepOK DEF Linking
  <2>2. QED BY <1>1, <1>2, <1>4, <2>1, JobTyped, MoveStep
<1>5. ASSUME BeginPreviews(j), ~Returns(j, "none") PROVE Inv'
  <2> DEFINE tried == {k \in DOMAIN Mem(j).uploaded : Mem(j).uploaded[k] \in {e.id : e \in {e \in list : e.preview}}}
             run   == [Run(j) EXCEPT !.pc = "making", !.tried = tried]
  <2>1. SetRun(j, run)
    BY <1>5 DEF BeginPreviews
  <2>2. tried \subseteq Nat
    BY <1>2 DEF Payload, Partial
  <2> HIDE DEF tried
  <2>3. run \in RunType /\ run.pc = "making" /\ run.mem = Mem(j)
    BY <1>2, <2>2 DEF RunType, Places
  <2>4. QED BY <2>1, <2>3, <1>4
<1>6. ASSUME MakeSheets(j) \/ SheetsFail(j) PROVE Inv'
  <2> DEFINE k == Min(Todo(j))
  <2>1. Todo(j) # {}
    BY <1>6 DEF MakeSheets, SheetsFail
  <2>2. k \in Todo(j) /\ k \in Nat
    <3>1. Todo(j) \subseteq Nat
      BY <1>2 DEF Todo, Payload, Partial
    <3>2. QED BY <2>1, <3>1, LeastOf
  <2>3. /\ Mem(j).uploaded[k] \in VideoIds /\ Mem(j).uploaded[k][1] = j
    <3>1. k \in DOMAIN Mem(j).uploaded /\ Mem(j).uploaded \in Partial
      BY <1>2, <2>2 DEF Todo, Payload
    <3>2. QED BY <1>2, <3>1, PartialValues DEF PayloadOK
  <2> HIDE DEF k
  <2>4. CASE SetRun(j, [Run(j) EXCEPT !.tried = @ \cup {k}])
    <3> DEFINE run == [Run(j) EXCEPT !.tried = @ \cup {k}]
    <3>1. run \in RunType /\ run.pc = Run(j).pc /\ run.mem = Mem(j)
      BY <1>2, <2>2 DEF RunType
    <3>2. Run(j).pc = "making"
      BY <1>6 DEF MakeSheets, SheetsFail, At, Run
    <3>3. QED BY <2>4, <3>1, <3>2, <1>4
  <2>5. CASE SetRun(j, [Run(j) EXCEPT !.pc = "sheets", !.id = Mem(j).uploaded[k], !.tried = @ \cup {k}])
    <3> DEFINE run == [Run(j) EXCEPT !.pc = "sheets", !.id = Mem(j).uploaded[k], !.tried = @ \cup {k}]
    <3>1. run \in RunType /\ run.pc = "sheets" /\ run.mem = Mem(j) /\ run.id = Mem(j).uploaded[k]
      BY <1>2, <2>2, <2>3 DEF RunType, Places
    <3> HIDE DEF run
    <3>2. ASSUME NEW r \in JobType, r = [job[j] EXCEPT !.run = run] PROVE StepOK(j, r) /\ Linking(j, r)
      <4>1. r.saved = job[j].saved /\ r.step = job[j].step /\ r.run = run
        BY <3>2, JobTyped DEF JobType
      <4>2. Placed(j, r) /\ Remembered(r)
        BY <1>1, <1>2, <3>1, <4>1 DEF Placed, Remembered
      <4>3. InHand(j, r) /\ OffHand(j, r) /\ Linking(j, r)
        BY <2>3, <3>1, <4>1 DEF InHand, OffHand, Unrecorded, InFlight, Linking
      <4>4. QED BY <4>2, <4>3 DEF StepOK
    <3>3. SetRun(j, run)
      BY <2>5 DEF run
    <3>4. QED BY <1>1, <1>2, <3>1, <3>2, <3>3, JobTyped, MoveStep
  <2>6. QED BY <1>6, <2>4, <2>5 DEF MakeSheets, SheetsFail, k
<1>7. QED BY <1>3, <1>5, <1>6 DEF EndPreviews

\* A step of upload that saves the payload.
LEMMA SaveStep ==
  ASSUME Inv, NEW j \in Jobs, Running(j), job[j].step = "upload", NEW run \in RunType, SetSaved(j, run),
         UNCHANGED <<list, channel, text, held, made, spent>>,
         run.pc = "parts", PayloadOK(j, run.mem), run.mem.replacing = Mem(j).replacing, run.mem.begun = Mem(j).begun,
         run.tried \subseteq run.mem.not_removed, Kind[j].replace => run.mem.begun,
         Mem(j).not_removed \subseteq run.mem.not_removed,
         \/ run.mem.uploaded = Mem(j).uploaded /\ ~Unrecorded(job[j])
         \/ /\ Unrecorded(job[j]) /\ ~(Kind[j].parts \subseteq DOMAIN Mem(j).uploaded)
            /\ Cardinality(DOMAIN run.mem.uploaded) >= Cardinality(DOMAIN Mem(j).uploaded) + 1
  PROVE  Inv'
<1> DEFINE r == [job[j] EXCEPT !.run = run, !.saved = run.mem]
<1>1. job' = [job EXCEPT ![j] = r]
  BY DEF SetSaved
<1>2. run.mem \in Payload
  BY DEF RunType
<1>3. r \in JobType /\ r.saved = run.mem /\ r.step = job[j].step /\ r.run = run /\ r.state = job[j].state
  BY <1>2, JobTyped DEF JobType
<1> HIDE DEF r
<1>4. /\ Mem(j).uploaded = job[j].saved.uploaded /\ Mem(j).not_removed = job[j].saved.not_removed /\ Live(job[j])
      /\ \A k \in DOMAIN job[j].saved.replacing :
           k \in DOMAIN run.mem.replacing /\ run.mem.replacing[k] = job[j].saved.replacing[k]
  BY AtFacts, MemAndSaved
<1>5. JobOK(j, r) /\ Linking(j, r) /\ ~InFlight(r) /\ ~Unrecorded(r)
  <2>1. StepOK(j, r)
    BY <1>3, PlainStepOK
  <2>2. QED BY <1>3, <2>1 DEF JobOK, Linking, InFlight, Unrecorded
<1>6. \A k \in Jobs : InFlight(job[k]) => ApartFrom(r.saved, job[k].run.id) /\ ApartFrom(r.run.mem, job[k].run.id)
  BY <1>3 DEF Inv, Apart, ApartFrom, Mem
<1>7. made[j] <= Cardinality(DOMAIN r.saved.uploaded) + (IF Unrecorded(r) THEN 1 ELSE 0) + spent'.faults
  <2>1. Cardinality(DOMAIN run.mem.uploaded) \in Nat /\ Cardinality(DOMAIN job[j].saved.uploaded) \in Nat
    BY AtFacts, RecordedFinite
  <2>2. /\ made[j] <= Cardinality(DOMAIN job[j].saved.uploaded) + (IF Unrecorded(job[j]) THEN 1 ELSE 0) + spent.faults
        /\ made[j] \in Nat /\ spent.faults \in Nat
    BY JobTyped DEF Counted
  <2>3. QED BY <1>3, <1>4, <1>5, <2>1, <2>2
<1>8. \A e \in list : e.id \in Excuses(j, job[j]) => e.id \in channel \cup Excuses(j, r)
  <2>1. CASE ~(Kind[j].parts \subseteq DOMAIN job[j].saved.uploaded)
    BY <1>3, <1>4, <2>1 DEF Excuses
  <2>2. CASE run.mem.uploaded = Mem(j).uploaded
    <3>1. \A k \in ExtraOf(j, job[j].saved) :
            k \in ExtraOf(j, r.saved) /\ r.saved.replacing[k] = job[j].saved.replacing[k]
      BY <1>3, <1>4, <2>2 DEF ExtraOf
    <3>2. QED BY <1>3, <1>4, <2>2, <3>1 DEF Excuses
  <2>3. QED BY <1>4, <2>1, <2>2
<1>9. Live(r) /\ r.run.pc \in {"saving", "dropping", "setting"} => held' = j /\ r.run.seen = list
  BY <1>3
<1>10. spent' \in [faults : Nat, retries : Nat] /\ spent'.faults >= spent.faults
  BY JobTyped
<1>11. QED BY <1>1, <1>3, <1>4, <1>5, <1>6, <1>7, <1>8, <1>9, <1>10, JobTyped, LocalStep

\* What upload deletes next is one of those it replaces, past the last part or of a part it has uploaded again.
LEMMA OldOne ==
  ASSUME Inv, NEW j \in Jobs, Deleting(j)
  PROVE  /\ \E k \in Stale(j) \cup Extra(j) : NextOld(j) = Mem(j).replacing[k]
         /\ NextOld(j) \in ToDelete(j) /\ NextOld(j) \in VideoIds /\ Known(NextOld(j))
<1> DEFINE S == {k \in Stale(j) : Mem(j).replacing[k] \in ToDelete(j)}
           E == {k \in Extra(j) : Mem(j).replacing[k] \in ToDelete(j)}
           k == IF S # {} THEN Min(S) ELSE Min(E)
<1>1. Running(j) /\ ToDelete(j) # {} /\ NextOld(j) = Mem(j).replacing[k]
  BY DEF Deleting, At, NextOld
<1>2. /\ Mem(j).replacing \in Partial /\ PayloadOK(j, Mem(j))
      /\ Stale(j) \subseteq DOMAIN Mem(j).replacing /\ Extra(j) \subseteq DOMAIN Mem(j).replacing
  BY <1>1, AtFacts DEF Payload, Stale, Extra
<1>3. S \subseteq Nat /\ E \subseteq Nat
  BY <1>2, PartialValues
<1>4. S # {} \/ E # {}
  BY <1>1 DEF ToDelete
<1>5. k \in S \cup E
  <2>1. S # {} => Min(S) \in S
    BY <1>3, LeastOf
  <2>2. E # {} => Min(E) \in E
    BY <1>3, LeastOf
  <2> HIDE DEF S, E
  <2>3. QED BY <2>1, <2>2, <1>4
<1>6. k \in Stale(j) \cup Extra(j) /\ Mem(j).replacing[k] \in ToDelete(j)
  <2> HIDE DEF k
  <2>1. QED BY <1>5
<1> HIDE DEF k
<1>7. Mem(j).replacing[k] \in VideoIds /\ Known(Mem(j).replacing[k])
  BY <1>2, <1>6, PartialValues DEF PayloadOK
<1>8. QED BY <1>1, <1>6, <1>7

LEMMA DeletedInv ==
  ASSUME Inv, NEW j \in Jobs, RecordDeleted(j) \/ DeleteFails(j)
  PROVE  Inv'
<1>1. /\ Running(j) /\ job[j].step = "upload" /\ UNCHANGED <<list, channel, text, held, made, spent>>
      /\ Run(j).pc \in {"gone", "parts"}
  BY DEF RecordDeleted, DeleteFails, Deleting, At, Local, Run
<1>2. /\ ~Unrecorded(job[j]) /\ Run(j) \in RunType /\ Mem(j) \in Payload /\ Run(j).mem = Mem(j)
      /\ PayloadOK(j, Mem(j)) /\ Run(j).tried \subseteq Mem(j).not_removed /\ (Kind[j].replace => Mem(j).begun)
  BY <1>1, AtFacts DEF Unrecorded, StepOK, Placed
<1>3. CASE RecordDeleted(j)
  <2> DEFINE p   == [Mem(j) EXCEPT !.removed = @ \cup {Run(j).id}]
             run == [Run(j) EXCEPT !.pc = "parts", !.id = NoId, !.mem = p]
  <2>1. SetSaved(j, run) /\ Run(j).pc = "gone"
    BY <1>3 DEF RecordDeleted, Run, Mem, At
  <2>2. Known(Run(j).id) /\ Run(j).id \notin channel /\ Run(j).id \in VideoIds
    BY <1>1, <1>2, <2>1, AtFacts DEF StepOK, OffHand, RunType
  <2>3. /\ p \in Payload /\ p.uploaded = Mem(j).uploaded /\ p.begun = Mem(j).begun /\ p.replacing = Mem(j).replacing
        /\ p.not_removed = Mem(j).not_removed /\ p.removed = Mem(j).removed \cup {Run(j).id}
    BY <1>2, <2>2 DEF Payload
  <2> HIDE DEF p
  <2>4. PayloadOK(j, p)
    BY <1>2, <2>2, <2>3 DEF PayloadOK
  <2>5. run \in RunType /\ run.pc = "parts" /\ run.mem = p /\ run.tried = Run(j).tried
    BY <1>2, <2>3, IdleTypes DEF RunType, Places
  <2> HIDE DEF run
  <2>6. QED BY <1>1, <1>2, <2>1, <2>3, <2>4, <2>5, SaveStep
<1>4. CASE DeleteFails(j)
  <2> DEFINE old == NextOld(j)
             p   == [Mem(j) EXCEPT !.not_removed = @ \cup {old}]
             run == [Run(j) EXCEPT !.tried = @ \cup {old}, !.mem = p]
  <2>1. SetSaved(j, run) /\ Run(j).pc = "parts"
    BY <1>4 DEF DeleteFails, Deleting, Run, Mem, At
  <2>2. old \in VideoIds
    BY <1>4, OldOne DEF DeleteFails
  <2> HIDE DEF old
  <2>3. /\ p \in Payload /\ p.uploaded = Mem(j).uploaded /\ p.begun = Mem(j).begun /\ p.replacing = Mem(j).replacing
        /\ p.not_removed = Mem(j).not_removed \cup {old} /\ p.removed = Mem(j).removed
    BY <1>2, <2>2 DEF Payload
  <2> HIDE DEF p
  <2>4. PayloadOK(j, p)
    BY <1>2, <2>3 DEF PayloadOK
  <2>5. run \in RunType /\ run.pc = "parts" /\ run.mem = p /\ run.tried = Run(j).tried \cup {old}
    BY <1>2, <2>1, <2>2, <2>3 DEF RunType
  <2> HIDE DEF run
  <2>6. QED BY <1>1, <1>2, <2>1, <2>3, <2>4, <2>5, SaveStep
<1>5. QED BY <1>3, <1>4

LEMMA RecordInv ==
  ASSUME Inv, NEW j \in Jobs, Record(j)
  PROVE  Inv'
<1> DEFINE p   == [Mem(j) EXCEPT !.uploaded = Put(@, Run(j).part, Run(j).id), !.deferrals = 0]
           run == [Run(j) EXCEPT !.pc = "parts", !.part = 0, !.id = NoId, !.mem = p]
<1>1. /\ Running(j) /\ job[j].step = "upload" /\ UNCHANGED <<list, channel, text, held, made, spent>>
      /\ Run(j).pc = "listed" /\ SetSaved(j, run)
  BY DEF Record, At, Local, Run, Mem
<1>2. /\ Unrecorded(job[j]) /\ Run(j) \in RunType /\ Mem(j) \in Payload /\ Run(j).mem = Mem(j) /\ Run(j) = job[j].run
      /\ PayloadOK(j, Mem(j)) /\ Run(j).tried \subseteq Mem(j).not_removed /\ (Kind[j].replace => Mem(j).begun)
  BY <1>1, AtFacts DEF Unrecorded, StepOK, Placed
<1>3. /\ Run(j).id = <<j, made[j]>> /\ Run(j).part \in Kind[j].parts \ DOMAIN Mem(j).uploaded
      /\ \A k \in DOMAIN Mem(j).uploaded : Mem(j).uploaded[k] # Run(j).id
      /\ \A k \in DOMAIN Mem(j).replacing : k = Run(j).part => Mem(j).replacing[k] \notin ListedIds
  <2>1. InHand(j, job[j])
    BY <1>1, AtFacts DEF StepOK
  <2>2. QED BY <1>1, <1>2, <2>1 DEF InHand
<1>4. /\ Run(j).part \in Nat /\ Run(j).id \in VideoIds /\ Run(j).id[1] = j
  BY <1>2, <1>3 DEF RunType
<1>5. Known(Run(j).id)
  BY <1>1, <1>2, AtFacts DEF StepOK, InHand
<1> DEFINE up == Put(Mem(j).uploaded, Run(j).part, Run(j).id)
<1>6. /\ DOMAIN up = DOMAIN Mem(j).uploaded \cup {Run(j).part}
      /\ up[Run(j).part] = Run(j).id /\ \A k \in DOMAIN Mem(j).uploaded : up[k] = Mem(j).uploaded[k]
  BY <1>3 DEF Put
<1>7. up \in Partial
  <2>1. Mem(j).uploaded \in Partial
    BY <1>2 DEF Payload
  <2>2. DOMAIN up \in SUBSET Nat
    BY <1>4, <1>6, <2>1, PartialValues
  <2>3. up \in [DOMAIN up -> VideoIds]
    <3>1. \A k \in DOMAIN up : up[k] \in VideoIds
      BY <1>4, <1>6, <2>1, PartialValues
    <3>2. QED BY <3>1 DEF Put
  <2> HIDE DEF up
  <2>4. QED BY <2>2, <2>3 DEF Partial
<1> HIDE DEF up
<1>8. /\ p \in Payload /\ p.uploaded = up /\ p.begun = Mem(j).begun /\ p.replacing = Mem(j).replacing
      /\ p.not_removed = Mem(j).not_removed /\ p.removed = Mem(j).removed
  BY <1>2, <1>7 DEF Payload, up
<1> HIDE DEF p
<1>9. PayloadOK(j, p)
  <2>1. DOMAIN up \subseteq Kind[j].parts
    BY <1>2, <1>3, <1>6 DEF PayloadOK
  <2>2. \A k \in DOMAIN up : up[k][1] = j /\ Known(up[k])
    BY <1>2, <1>4, <1>5, <1>6 DEF PayloadOK
  <2>3. \A k, l \in DOMAIN up : up[k] = up[l] => k = l
    BY <1>2, <1>3, <1>6 DEF PayloadOK
  <2>4. \A k \in DOMAIN up \cap DOMAIN p.replacing : p.replacing[k] # up[k] => p.replacing[k] \notin ListedIds
    BY <1>2, <1>3, <1>6, <1>8 DEF PayloadOK
  <2>5. QED BY <1>2, <1>8, <2>1, <2>2, <2>3, <2>4 DEF PayloadOK
<1>10. run \in RunType /\ run.pc = "parts" /\ run.mem = p /\ run.tried = Run(j).tried
  BY <1>2, <1>8, IdleTypes DEF RunType, Places
<1>11. Cardinality(DOMAIN up) = Cardinality(DOMAIN Mem(j).uploaded) + 1
  BY SMTT(30), <1>2, <1>3, <1>6, RecordedFinite, FS_AddElement
<1>12. Cardinality(DOMAIN Mem(j).uploaded) \in Nat
  BY <1>2, RecordedFinite
<1> HIDE DEF run
<1>13. QED BY <1>1, <1>2, <1>3, <1>8, <1>9, <1>10, <1>11, <1>12, SaveStep

\* The list of what to replace names the listed upload of each part.
LEMMA ReplacingOK ==
  ASSUME Inv, NEW j \in Jobs, Running(j), Kind[j].replace
  PROVE  /\ Replacing(j) \in Partial
         /\ \A k \in DOMAIN Replacing(j) : Known(Replacing(j)[k])
         /\ \A k \in DOMAIN Replacing(j) : \A e \in list :
              e.id = Replacing(j)[k] => e.type = Kind[j].type /\ e.part = k
         /\ \A k \in DOMAIN Mem(j).uploaded \cap DOMAIN Replacing(j) :
              Replacing(j)[k] # Mem(j).uploaded[k] => Replacing(j)[k] \notin ListedIds
         /\ Mem(j).begun => Replacing(j) = Mem(j).replacing
         /\ \A k \in DOMAIN Replacing(j) : Mem(j).begun \/ Replacing(j)[k] \in ListedIds
<1>1. PayloadOK(j, Mem(j)) /\ Mem(j) \in Payload
  BY AtFacts
<1>2. CASE Mem(j).begun
  BY <1>1, <1>2 DEF PayloadOK, Payload, Replacing
<1>3. CASE ~Mem(j).begun
  <2> DEFINE K == {e.part : e \in Entries(Kind[j].type)}
             new(k) == CHOOSE e \in Entries(Kind[j].type) : e.part = k
  <2>1. Replacing(j) = [k \in K |-> new(k).id]
    BY <1>3 DEF Replacing
  <2>2. ASSUME NEW k \in K PROVE new(k) \in list /\ new(k).type = Kind[j].type /\ new(k).part = k
    <3>1. \E e \in Entries(Kind[j].type) : e.part = k
      OBVIOUS
    <3>2. QED BY <3>1 DEF Entries
  <2> HIDE DEF new
  <2>3. list \subseteq Entry /\ ListOK
    BY DEF Inv, Types
  <2>4. ASSUME NEW k \in K PROVE new(k).id \in VideoIds /\ Known(new(k).id) /\ new(k).id \in ListedIds
    BY <2>2, <2>3 DEF Entry, ListOK, ListedIds
  <2>5. \A k \in K : \A e \in list : e.id = new(k).id => e.type = Kind[j].type /\ e.part = k
    BY <2>2, <2>3 DEF ListOK
  <2>6. K \in SUBSET Nat
    BY <2>3 DEF Entries, Entry
  <2> HIDE DEF K
  <2>7. Replacing(j) \in [K -> VideoIds]
    BY <2>1, <2>4
  <2>8. Replacing(j) \in Partial
    BY <2>6, <2>7 DEF Partial
  <2>9. DOMAIN Mem(j).uploaded = {}
    BY <1>1, <1>3 DEF PayloadOK
  <2>10. DOMAIN Replacing(j) = K /\ \A k \in K : Replacing(j)[k] = new(k).id
    BY <2>1
  <2>11. QED BY <1>3, <2>4, <2>5, <2>8, <2>9, <2>10
<1>4. QED BY <1>2, <1>3

LEMMA BeginUploadInv ==
  ASSUME Inv, NEW j \in Jobs, BeginUpload(j) \/ SaveReplacing(j)
  PROVE  Inv'
<1>1. /\ Running(j) /\ job[j].step = "upload" /\ UNCHANGED <<list, channel, text, held, made, spent>>
      /\ Run(j).pc \in {"begin", "replace"}
  BY DEF BeginUpload, SaveReplacing, At, Local, Run
<1>2. /\ ~Unrecorded(job[j]) /\ Live(job[j]) /\ Run(j) \in RunType /\ Run(j).mem = Mem(j) /\ Run(j) = job[j].run
      /\ PayloadOK(j, Mem(j)) /\ Mem(j) \in Payload /\ Run(j).tried \subseteq Mem(j).not_removed
      /\ PayloadOK(j, job[j].saved)
  BY <1>1, AtFacts DEF Unrecorded, StepOK, Placed
<1>3. CASE SaveReplacing(j)
  <2> DEFINE run == [Run(j) EXCEPT !.pc = "parts"]
  <2>1. Run(j).pc = "replace" /\ SetSaved(j, run)
    BY <1>3 DEF SaveReplacing, At, Run
  <2>2. run \in RunType /\ run.pc = "parts" /\ run.mem = Mem(j) /\ run.tried = Run(j).tried
    BY <1>2 DEF RunType, Places
  <2> HIDE DEF run
  <2>3. Mem(j).begun
    <3>1. PICK replacing \in Partial : Mem(j) = [job[j].saved EXCEPT !.begun = TRUE, !.replacing = replacing]
      <4>1. Remembered(job[j])
        BY <1>1, AtFacts DEF StepOK
      <4>2. QED BY <1>2, <2>1, <4>1 DEF Remembered, Mem
    <3>2. job[j].saved \in Payload
      BY JobTyped
    <3>3. QED BY <3>1, <3>2 DEF Payload
  <2>4. QED BY <1>1, <1>2, <2>1, <2>2, <2>3, SaveStep
<1>4. CASE BeginUpload(j)
  <2>1. Run(j).pc = "begin" /\ Mem(j) = job[j].saved
    BY <1>1, <1>4, AtFacts DEF BeginUpload, At, Run
  <2>2. CASE ~Publishes(j)
    <3>1. Returns(j, "describe")
      BY <1>4, <2>2 DEF BeginUpload
    <3>2. DOMAIN job[j].saved.replacing = {}
      BY <1>2, <2>2 DEF PayloadOK
    <3>3. \A e \in list : e.id \in Excuses(j, job[j]) => e.id \in channel \cup Mem(j).not_removed
      BY <2>1, <3>2 DEF Excuses, ExtraOf
    <3>4. QED BY <1>1, <1>2, <3>1, <3>3, ReturnStep
  <2>3. CASE Publishes(j) /\ ~Kind[j].replace
    <3> DEFINE run == [Run(j) EXCEPT !.pc = "parts"]
    <3>1. SetRun(j, run)
      BY <1>4, <2>3 DEF BeginUpload
    <3>2. run \in RunType /\ run.pc = "parts" /\ run.mem = Mem(j) /\ run.tried = Run(j).tried
      BY <1>2 DEF RunType, Places
    <3> HIDE DEF run
    <3>3. ASSUME NEW r \in JobType, r = [job[j] EXCEPT !.run = run] PROVE StepOK(j, r) /\ Linking(j, r)
      <4>1. r.saved = job[j].saved /\ r.step = job[j].step /\ r.run = run
        BY <3>3, JobTyped DEF JobType
      <4>2. QED BY <1>1, <1>2, <2>1, <2>3, <3>2, <4>1, PlainStepOK DEF Linking
    <3>4. QED BY <1>1, <1>2, <2>1, <3>1, <3>2, <3>3, JobTyped, MoveStep
  <2>4. CASE Publishes(j) /\ Kind[j].replace
    <3> DEFINE p   == [Mem(j) EXCEPT !.begun = TRUE, !.replacing = Replacing(j)]
               run == [Run(j) EXCEPT !.pc = "replace", !.mem = p]
               r   == [job[j] EXCEPT !.run = run]
    <3>1. job' = [job EXCEPT ![j] = r]
      BY ZenonT(60), <1>4, <2>4 DEF BeginUpload, SetRun, Mem, Run
    <3>2. /\ p \in Payload /\ p.begun = TRUE /\ p.replacing = Replacing(j) /\ p.uploaded = Mem(j).uploaded
          /\ p.removed = Mem(j).removed /\ p.not_removed = Mem(j).not_removed
      BY <1>1, <1>2, <2>4, ReplacingOK DEF Payload
    <3>3. Remembered([job[j] EXCEPT !.run = run])
      <4>1. p = [job[j].saved EXCEPT !.begun = TRUE, !.replacing = Replacing(j)] /\ Replacing(j) \in Partial
        BY <1>1, <2>1, <2>4, ReplacingOK
      <4>2. job[j].saved.begun => p.replacing = job[j].saved.replacing
        BY <1>1, <2>1, <2>4, <3>2, ReplacingOK
      <4> HIDE DEF p
      <4>3. run.mem = p /\ run.pc = "replace" /\ r.run = run /\ r.saved = job[j].saved
        BY <1>2, JobTyped DEF RunType, JobType
      <4> HIDE DEF run
      <4>4. QED BY <4>1, <4>2, <4>3 DEF Remembered
    <3> HIDE DEF p
    <3>4. run \in RunType /\ run.pc = "replace" /\ run.mem = p /\ run.tried = Run(j).tried
      BY <1>2, <3>2 DEF RunType, Places
    <3> HIDE DEF run
    <3>5. r \in JobType /\ r.saved = job[j].saved /\ r.step = job[j].step /\ r.run = run /\ r.state = job[j].state
      BY <3>4, JobTyped DEF JobType
    <3>6. Remembered(r)
      BY <3>3
    <3> HIDE DEF r
    <3>7. StepOK(j, r) /\ Linking(j, r) /\ ~InFlight(r) /\ ~Unrecorded(r)
      <4>1. Placed(j, r)
        BY <1>1, <1>2, <3>2, <3>4, <3>5 DEF Placed
      <4>2. InHand(j, r) /\ OffHand(j, r) /\ Linking(j, r) /\ ~InFlight(r) /\ ~Unrecorded(r)
        BY <3>4, <3>5 DEF InHand, OffHand, Unrecorded, InFlight, Linking
      <4>3. QED BY <3>6, <4>1, <4>2 DEF StepOK
    <3>8. PayloadOK(j, p)
      BY <1>1, <1>2, <2>4, <3>2, ReplacingOK DEF PayloadOK
    <3>9. JobOK(j, r)
      BY <1>2, <3>4, <3>5, <3>7, <3>8 DEF JobOK
    <3>10. ASSUME NEW k \in Jobs, InFlight(job[k])
           PROVE  ApartFrom(r.saved, job[k].run.id) /\ ApartFrom(r.run.mem, job[k].run.id)
      <4>1. /\ ApartFrom(job[j].saved, job[k].run.id) /\ ApartFrom(Mem(j), job[k].run.id)
            /\ job[k].run.id \notin ListedIds
        <5>1. Live(job[k]) /\ JobOK(k, job[k])
          BY <3>10, JobTyped DEF InFlight
        <5>2. QED BY <3>10, <5>1 DEF Inv, Apart, Mem, JobOK, StepOK, InHand
      <4>2. QED BY <1>1, <2>4, <3>2, <3>4, <3>5, <4>1, ReplacingOK DEF ApartFrom
    <3>11. made[j] <= Cardinality(DOMAIN r.saved.uploaded) + (IF Unrecorded(r) THEN 1 ELSE 0) + spent'.faults
      BY <1>1, <1>2, <3>5, <3>7, JobTyped DEF Counted
    <3>12. \A e \in list : e.id \in Excuses(j, job[j]) => e.id \in channel \cup Excuses(j, r)
      BY <3>5 DEF Excuses
    <3>13. spent' \in [faults : Nat, retries : Nat] /\ spent'.faults >= spent.faults
      BY <1>1, JobTyped
    <3>14. Live(r) /\ r.run.pc \in {"saving", "dropping", "setting"} => held' = j /\ r.run.seen = list
      BY <3>4, <3>5
    <3>15. QED BY <1>1, <1>2, <3>1, <3>5, <3>7, <3>9, <3>10, <3>11, <3>12, <3>13, <3>14, JobTyped, LocalStep
  <2>5. QED BY <2>2, <2>3, <2>4
<1>5. QED BY <1>3, <1>4

\* With nothing left to delete, a replaced upload past the last part is deleted, or tried without success.
LEMMA NothingLeft ==
  ASSUME Inv, NEW j \in Jobs, Running(j), job[j].step = "upload", Run(j).pc = "parts", ToDelete(j) = {}
  PROVE  /\ ExtraOf(j, Mem(j)) = Extra(j)
         /\ \A k \in Extra(j) : Mem(j).replacing[k] \in Mem(j).removed \cup Mem(j).not_removed
<1>1. ExtraOf(j, Mem(j)) = Extra(j)
  BY DEF ExtraOf, Extra
<1>2. Run(j).tried \subseteq Mem(j).not_removed
  BY AtFacts DEF StepOK, Placed
<1>3. QED BY <1>1, <1>2 DEF ToDelete

LEMMA EndUploadInv ==
  ASSUME Inv, NEW j \in Jobs, EndUpload(j)
  PROVE  Inv'
<1>1. /\ Running(j) /\ job[j].step = "upload" /\ UNCHANGED <<list, channel, text, held, made, spent>>
      /\ Run(j).pc = "parts" /\ ToDelete(j) = {}
  BY DEF EndUpload, At, Local, Run
<1>2. /\ ~Unrecorded(job[j]) /\ Live(job[j]) /\ Run(j) \in RunType /\ Run(j).mem = Mem(j) /\ Run(j) = job[j].run
      /\ PayloadOK(j, Mem(j)) /\ Run(j).tried \subseteq Mem(j).not_removed /\ Mem(j) = job[j].saved
      /\ (Kind[j].replace => Mem(j).begun)
  BY <1>1, AtFacts DEF Unrecorded, StepOK, Placed
<1>3. /\ ExtraOf(j, Mem(j)) = Extra(j)
      /\ \A k \in Extra(j) : Mem(j).replacing[k] \in Mem(j).removed \cup Mem(j).not_removed
  BY <1>1, NothingLeft
<1>4. CASE Gone(j) = {}
  <2>1. Returns(j, "describe")
    BY <1>4 DEF EndUpload
  <2>2. \A k \in Extra(j) : Mem(j).replacing[k] \in Mem(j).not_removed
    BY <1>3, <1>4 DEF Gone
  <2>3. \A e \in list : e.id \in Excuses(j, job[j]) => e.id \in channel \cup Mem(j).not_removed
    BY <1>2, <1>3, <2>2 DEF Excuses
  <2>4. QED BY <1>1, <1>2, <2>1, <2>3, ReturnStep
<1>5. CASE Gone(j) # {}
  <2> DEFINE run == [Run(j) EXCEPT !.pc = "drop"]
  <2>1. SetRun(j, run)
    BY <1>5 DEF EndUpload
  <2>2. run \in RunType /\ run.pc = "drop" /\ run.mem = Mem(j) /\ run.tried = Run(j).tried
    BY <1>2 DEF RunType, Places
  <2> HIDE DEF run
  <2>3. ASSUME NEW r \in JobType, r = [job[j] EXCEPT !.run = run] PROVE StepOK(j, r) /\ Linking(j, r)
    <3>1. r.saved = job[j].saved /\ r.step = job[j].step /\ r.run = run
      BY <2>3, JobTyped DEF JobType
    <3>2. Placed(j, r) /\ Remembered(r)
      BY <1>1, <1>2, <2>2, <3>1 DEF Placed, Remembered
    <3>3. InHand(j, r) /\ OffHand(j, r) /\ Linking(j, r)
      BY <1>3, <2>2, <3>1 DEF InHand, OffHand, Unrecorded, InFlight, Linking
    <3>4. QED BY <3>2, <3>3 DEF StepOK
  <2>4. QED BY <1>1, <1>2, <2>1, <2>2, <2>3, JobTyped, MoveStep
<1>6. QED BY <1>4, <1>5

----------------------------------------------------------------------------
(* Steps that change the list, the channel or the texts.                    *)

\* What the list keeps of an upload whatever is written: its id, its type and its part.
Same(e, f) == e.id = f.id /\ e.type = f.type /\ e.part = f.part

LEMMA PayloadStays ==
  ASSUME NEW j \in Jobs, NEW p, PayloadOK(j, p), \A x : Known(x) => Known(x)',
         \A e \in list' : (\E f \in list : Same(e, f)) \/ ApartFrom(p, e.id),
         \A x \in channel' : x \in channel \/ ~Known(x)
  PROVE  PayloadOK(j, p)'
<1>1. /\ DOMAIN p.uploaded \subseteq Kind[j].parts
      /\ \A k \in DOMAIN p.uploaded : p.uploaded[k][1] = j /\ Known(p.uploaded[k])'
      /\ \A k, l \in DOMAIN p.uploaded : p.uploaded[k] = p.uploaded[l] => k = l
      /\ p.begun \/ DOMAIN p.replacing = {}
      /\ p.begun => Publishes(j)
      /\ Kind[j].replace /\ ~p.begun => DOMAIN p.uploaded = {}
      /\ \A k \in DOMAIN p.replacing : Known(p.replacing[k])'
  BY DEF PayloadOK
<1>2. \A k \in DOMAIN p.replacing : \A e \in list' : e.id = p.replacing[k] => e.type = Kind[j].type /\ e.part = k
  BY DEF PayloadOK, ApartFrom, Same
<1>3. \A k \in DOMAIN p.replacing : p.replacing[k] \notin ListedIds => p.replacing[k] \notin ListedIds'
  BY DEF ApartFrom, ListedIds, Same
<1>4. \A x \in p.removed : Known(x)' /\ x \notin channel'
  BY DEF PayloadOK
<1>5. Publishes(j)' = Publishes(j)
  BY DEF Publishes, Forced
<1>6. \A k \in DOMAIN p.uploaded \cap DOMAIN p.replacing :
        p.replacing[k] # p.uploaded[k] => p.replacing[k] \notin ListedIds'
  BY <1>3 DEF PayloadOK
<1>7. QED BY <1>1, <1>2, <1>4, <1>5, <1>6 DEF PayloadOK

LEMMA StepStays ==
  ASSUME NEW j \in Jobs, NEW r, StepOK(j, r), \A x : Known(x) => Known(x)', made'[j] = made[j],
         \A e \in list' : (\E f \in list : Same(e, f)) \/ ApartFrom(r.run.mem, e.id),
         \A x \in channel' : x \in channel \/ ~Known(x),
         InFlight(r) => r.run.id \in channel' \ ListedIds'
  PROVE  StepOK(j, r)'
<1>1. Placed(j, r)' /\ Remembered(r)'
  BY DEF StepOK, Placed, Remembered
<1>2. \A k \in DOMAIN r.run.mem.replacing :
        r.run.mem.replacing[k] \notin ListedIds => r.run.mem.replacing[k] \notin ListedIds'
  BY DEF ApartFrom, ListedIds, Same
<1>3. InHand(j, r)'
  BY <1>2 DEF StepOK, InHand, Unrecorded, InFlight, Live
<1>4. OffHand(j, r)'
  BY DEF StepOK, OffHand, ExtraOf
<1>5. QED BY <1>1, <1>3, <1>4 DEF StepOK

LEMMA LinkStays ==
  ASSUME NEW j \in Jobs, NEW r, Linking(j, r),
         \A e : e.type = Kind[j].type => (e \in list' <=> e \in list),
         \A e \in Entries(Kind[j].type) : e.id \in channel' => e.id \in channel,
         \A e \in Entries(Kind[j].type) :
           e.id \in DOMAIN text => e.id \in DOMAIN text' /\ text'[e.id] = text[e.id]
  PROVE  Linking(j, r)'
<1>1. Entries(Kind[j].type)' = Entries(Kind[j].type)
  BY DEF Entries
<1>2. QED BY <1>1 DEF Linking, Live

LEMMA WideStep ==
  ASSUME Inv, NEW j \in Jobs, NEW r \in JobType, job' = [job EXCEPT ![j] = r], Live(job[j]), UNCHANGED spent,
         list' \subseteq Entry, channel' \subseteq VideoIds, held' \in Jobs \cup {NoJob}, made' \in [Jobs -> Nat],
         ListOK', made'[j] >= made[j], \A i \in Jobs : i # j => made'[i] = made[i],
         \A e \in list' : (\E f \in list : Same(e, f)) \/ (InFlight(job[j]) /\ e.id = job[j].run.id),
         \A x \in channel' : x \in channel \/ ~Known(x),
         \A i \in Jobs : i # j /\ InFlight(job[i]) => job[i].run.id \in channel',
         r.saved \in {job[j].saved, Mem(j)}, r.run.mem \in {Mem(j), NoPayload},
         Live(r) => StepOK(j, r)', Linking(j, r)',
         InFlight(r) => \A i \in Jobs : ApartFrom(job[i].saved, r.run.id) /\ ApartFrom(job[i].run.mem, r.run.id),
         r.run.pc \notin {"saving", "dropping", "setting"},
         (list' = list /\ held' = held) \/ held = j,
         \A e : e.type # Kind[j].type => (e \in list' <=> e \in list),
         \A e \in list : e.type # Kind[j].type /\ e.id \in DOMAIN text =>
           e.id \in DOMAIN text' /\ text'[e.id] = text[e.id],
         Counted(j, r)', OffChannel'
  PROVE  Inv'
<1>1. job'[j] = r /\ \A i \in Jobs \ {j} : job'[i] = job[i]
  BY DEF Inv, Types
<1>2. Types'
  BY DEF Inv, Types
<1>3. Exclusive'
  BY <1>1 DEF Inv, Exclusive
<1>4. \A i \in Jobs : \/ /\ ApartFrom(job'[i].saved, job[j].run.id)
                         /\ ApartFrom(job'[i].run.mem, job[j].run.id)
                      \/ ~InFlight(job[j])
  <2>1. \A x : ApartFrom(NoPayload, x)
    BY DEF ApartFrom, NoPayload
  <2>2. QED BY <1>1, <2>1 DEF Inv, Apart, Mem
<1>5. Apart'
  <2>1. ASSUME NEW i \in Jobs, NEW k \in Jobs, InFlight(job'[k])
        PROVE  ApartFrom(job'[i].saved, job'[k].run.id) /\ ApartFrom(job'[i].run.mem, job'[k].run.id)
    <3>1. \A x : ApartFrom(NoPayload, x)
      BY DEF ApartFrom, NoPayload
    <3>2. ApartFrom(job[i].saved, job'[k].run.id) /\ ApartFrom(job[i].run.mem, job'[k].run.id)
      BY <1>1, <2>1 DEF Inv, Apart
    <3>3. QED BY <1>1, <3>1, <3>2 DEF Mem
  <2>2. QED BY <2>1 DEF Apart
<1>6. \A x : Known(x) => Known(x)'
  <2>1. ASSUME NEW i \in Jobs PROVE made[i] \in Nat /\ made'[i] \in Nat /\ made'[i] >= made[i]
    BY JobTyped
  <2>2. ASSUME NEW i \in Jobs, NEW n \in 1..made[i] PROVE n \in 1..made'[i]
    BY <2>1
  <2>3. QED BY <2>2 DEF Known
<1>7. ASSUME NEW i \in Jobs, NEW p \in {job[i].saved, job[i].run.mem, NoPayload} PROVE PayloadOK(i, p)'
  <2>1. PayloadOK(i, p)
    BY PayloadsOK
  <2>2. InFlight(job[j]) => ApartFrom(p, job[j].run.id)
    BY DEF Inv, Apart, ApartFrom, NoPayload
  <2>3. QED BY <1>6, <2>1, <2>2, PayloadStays
<1>8. ASSUME NEW i \in Jobs, i # j
      PROVE  (JobOK(i, job[i]) /\ Locking(i, job[i]) /\ Counted(i, job[i]) /\ Linking(i, job[i]))'
  <2>1. job'[i] = job[i]
    BY <1>1, <1>8
  <2>2. JobOK(i, job[i]) /\ Linking(i, job[i]) /\ Counted(i, job[i]) /\ Locking(i, job[i])
    BY JobTyped
  <2>3. ASSUME Live(job[i]) PROVE StepOK(i, job[i])'
    <3>1. StepOK(i, job[i])
      BY <2>2, <2>3 DEF JobOK
    <3>2. InFlight(job[i]) => job[i].run.id \in channel' \ ListedIds'
      <4>1. ASSUME InFlight(job[i]) PROVE job[i].run.id \notin ListedIds'
        <5>1. job[i].run.id = <<i, made[i]>> /\ job[i].run.id \notin ListedIds
          BY <3>1, <4>1 DEF StepOK, InHand, InFlight, Unrecorded
        <5>2. InFlight(job[j]) => job[j].run.id = <<j, made[j]>>
          BY JobTyped DEF JobOK, StepOK, InHand, InFlight, Unrecorded
        <5>3. InFlight(job[j]) => job[j].run.id # job[i].run.id
          BY <5>1, <5>2, <1>8
        <5>4. QED BY <5>1, <5>3 DEF ListedIds, Same
      <4>2. QED BY <1>8, <4>1
    <3>3. InFlight(job[j]) => ApartFrom(job[i].run.mem, job[j].run.id)
      BY DEF Inv, Apart
    <3>4. StepOK(i, job[i])'
      <4>1. \A q : q = job[i] => StepOK(i, q)'
        BY <1>6, <1>8, <3>1, <3>2, <3>3, StepStays
      <4>2. QED BY <2>1, <4>1
    <3>5. QED BY <3>4
  <2>4. JobOK(i, job[i])'
    BY <1>7, <2>1, <2>3 DEF JobOK, Live
  <2>5. Locking(i, job[i])'
    BY <1>8, <2>1, <2>2 DEF Locking, Live
  <2>6. Counted(i, job[i])'
    BY <1>8, <2>1, <2>2 DEF Counted, Unrecorded, Live
  <2>7. Linking(i, job[i])'
    <3>1. CASE Live(job[i])
      <4>1. Kind[i].type # Kind[j].type
        BY <1>8, <3>1 DEF Inv, Exclusive
      <4>2. \A e \in Entries(Kind[i].type) : e.id \in channel' => e.id \in channel
        BY DEF Inv, ListOK, Entries
      <4>3. \A e \in Entries(Kind[i].type) :
              e.id \in DOMAIN text => e.id \in DOMAIN text' /\ text'[e.id] = text[e.id]
        BY <4>1 DEF Entries
      <4>4. \A q : q = job[i] => Linking(i, q)'
        BY <2>2, <4>1, <4>2, <4>3, LinkStays
      <4>5. QED BY <2>1, <4>4
    <3>2. CASE ~Live(job[i])
      BY <2>1, <3>2 DEF Linking, Live
    <3>3. QED BY <3>1, <3>2
  <2>8. QED BY <2>4, <2>5, <2>6, <2>7
<1>9. (JobOK(j, job[j]) /\ Locking(j, job[j]) /\ Counted(j, job[j]) /\ Linking(j, job[j]))'
  BY <1>1, <1>7 DEF JobOK, Locking, Counted, Linking, Mem
<1>10. QED BY <1>2, <1>3, <1>5, <1>8, <1>9 DEF Inv

\* Off YouTube and listed is only what was before, or what the acting job is excused for.
LEMMA OffChannelStays ==
  ASSUME Inv, NEW j \in Jobs, NEW r \in JobType, job' = [job EXCEPT ![j] = r],
         r.saved = job[j].saved, r.step = job[j].step,
         \A e \in list' : \/ e.id \in channel' \/ e.id \in Excuses(j, job[j])
                          \/ \E f \in list : f.id = e.id /\ f.id \notin channel
  PROVE  OffChannel'
<1>1. job'[j] = r /\ \A i \in Jobs \ {j} : job'[i] = job[i]
  BY DEF Inv, Types
<1>2. ASSUME NEW i \in Jobs PROVE Excuses(i, job[i])' = Excuses(i, job[i])
  BY <1>1 DEF Excuses, ExtraOf
<1>3. \A e \in list' : e.id \in channel' \/ \E i \in Jobs : e.id \in Excuses(i, job[i])
  BY DEF Inv, OffChannel
<1>4. QED BY <1>2, <1>3 DEF OffChannel

LEMMA FreshId ==
  ASSUME Inv, NEW j \in Jobs
  PROVE  ~Known(<<j, made[j] + 1>>) /\ <<j, made[j] + 1>> \in VideoIds
BY JobTyped DEF Known, VideoIds

LEMMA UploadInv ==
  ASSUME Inv, NEW j \in Jobs, Upload(j)
  PROVE  Inv'
<1>1. PICK id \in VideoIds : id = <<j, made[j] + 1>> /\ ~Known(id)
  BY FreshId
<1>2. /\ Running(j) /\ job[j].step = "upload" /\ Run(j).pc = "parts" /\ Missing(j) # {}
      /\ channel' = channel \cup {id} /\ made' = [made EXCEPT ![j] = @ + 1]
      /\ job' = [job EXCEPT ![j].run = [Run(j) EXCEPT !.pc = "uploaded", !.part = Min(Missing(j)), !.id = id]]
      /\ UNCHANGED <<list, text, held, spent>>
  BY <1>1 DEF Upload, At, SetRun, Run
<1>3. /\ ~Unrecorded(job[j]) /\ ~InFlight(job[j]) /\ Live(job[j]) /\ Run(j) \in RunType /\ Run(j).mem = Mem(j)
      /\ Run(j) = job[j].run /\ PayloadOK(j, Mem(j)) /\ Run(j).tried \subseteq Mem(j).not_removed
      /\ Mem(j) = job[j].saved /\ (Kind[j].replace => Mem(j).begun)
  BY <1>2, AtFacts DEF Unrecorded, InFlight, StepOK, Placed
<1>4. PICK k \in Nat : k = Min(Missing(j)) /\ k \in Missing(j)
  <2>1. Missing(j) \subseteq Nat
    BY PublishAssumption DEF Missing
  <2>2. QED BY <1>2, <2>1, LeastOf
<1>5. /\ made \in [Jobs -> Nat] /\ made'[j] = made[j] + 1 /\ (\A i \in Jobs : i # j => made'[i] = made[i])
      /\ made' \in [Jobs -> Nat] /\ Known(id)' /\ id = <<j, made'[j]>> /\ id[1] = j
  <2>1. made \in [Jobs -> Nat] /\ made'[j] = made[j] + 1 /\ (\A i \in Jobs : i # j => made'[i] = made[i])
    BY <1>2 DEF Inv, Types
  <2>2. QED BY <1>1, <1>2, <2>1 DEF Known
<1>6. PICK run \in RunType : /\ run = [Run(j) EXCEPT !.pc = "uploaded", !.part = k, !.id = id]
                             /\ run.pc = "uploaded" /\ run.mem = Mem(j) /\ run.tried = Run(j).tried
                             /\ run.id = id /\ run.part = k
  <2> DEFINE new == [Run(j) EXCEPT !.pc = "uploaded", !.part = k, !.id = id]
  <2>1. /\ new \in RunType /\ new.pc = "uploaded" /\ new.mem = Mem(j) /\ new.tried = Run(j).tried
        /\ new.id = id /\ new.part = k
    BY <1>3 DEF RunType, Places
  <2>2. QED BY <2>1
<1>7. PICK r \in JobType : /\ job' = [job EXCEPT ![j] = r] /\ r.saved = job[j].saved /\ r.step = job[j].step
                           /\ r.run = run /\ r.state = job[j].state
  <2>1. /\ [job[j] EXCEPT !.run = run] \in JobType /\ [job[j] EXCEPT !.run = run].saved = job[j].saved
        /\ [job[j] EXCEPT !.run = run].step = job[j].step /\ [job[j] EXCEPT !.run = run].run = run
        /\ [job[j] EXCEPT !.run = run].state = job[j].state
    BY JobTyped DEF JobType
  <2>2. job' = [job EXCEPT ![j] = [job[j] EXCEPT !.run = run]]
    BY <1>2, <1>4, <1>6
  <2>3. QED BY <2>1, <2>2
<1>8. ListOK /\ id \notin ListedIds
  BY <1>1 DEF Inv, ListOK, ListedIds
<1>9. Live(r) /\ Unrecorded(r) /\ InFlight(r)
  BY <1>2, <1>6, <1>7, AtFacts DEF Unrecorded, InFlight, Live
<1>10. StepOK(j, r)'
  <2>1. Placed(j, r) /\ Remembered(r)
    BY <1>2, <1>3, <1>6, <1>7 DEF Placed, Remembered
  <2>2. \A l \in DOMAIN Mem(j).uploaded : Mem(j).uploaded[l] # id
    BY <1>1, <1>3 DEF PayloadOK
  <2>3. InHand(j, r)'
    <3>1. id \in channel' /\ id \notin ListedIds'
      BY <1>2, <1>8 DEF ListedIds
    <3>2. k \in Kind[j].parts \ DOMAIN Mem(j).uploaded
      BY <1>4 DEF Missing
    <3>3. QED BY <1>5, <1>6, <1>7, <2>2, <3>1, <3>2 DEF InHand
  <2>4. OffHand(j, r)'
    BY <1>6, <1>7 DEF OffHand
  <2>5. Placed(j, r)' /\ Remembered(r)'
    BY <2>1 DEF Placed, Remembered
  <2>6. QED BY <2>3, <2>4, <2>5 DEF StepOK
<1>11. Linking(j, r)'
  BY <1>6, <1>7 DEF Linking
<1>12. \A i \in Jobs : ApartFrom(job[i].saved, r.run.id) /\ ApartFrom(job[i].run.mem, r.run.id)
  <2>1. ASSUME NEW i \in Jobs, NEW p, PayloadOK(i, p) PROVE ApartFrom(p, id)
    BY <1>1, <2>1 DEF PayloadOK, ApartFrom
  <2>2. QED BY <1>6, <1>7, <2>1, JobTyped DEF JobOK
<1>13. Counted(j, r)'
  <2>1. made[j] <= Cardinality(DOMAIN job[j].saved.uploaded) + spent.faults
        /\ made[j] \in Nat /\ spent.faults \in Nat /\ Cardinality(DOMAIN job[j].saved.uploaded) \in Nat
    BY <1>3, JobTyped, RecordedFinite DEF Counted
  <2>2. made'[j] <= Cardinality(DOMAIN r.saved.uploaded) + 1 + spent'.faults
    BY <1>2, <1>5, <1>7, <2>1
  <2>3. QED BY <1>9, <2>2 DEF Counted, Unrecorded, Live
<1>14. OffChannel'
  BY <1>2, <1>7, OffChannelStays DEF Inv, OffChannel
<1>15. ListOK' /\ list' \subseteq Entry /\ channel' \subseteq VideoIds /\ held' \in Jobs \cup {NoJob}
  <2>1. \A x : Known(x) => Known(x)'
    <3>1. ASSUME NEW i \in Jobs, NEW n \in 1..made[i] PROVE n \in 1..made'[i]
      BY <1>5
    <3>2. QED BY <3>1 DEF Known
  <2>2. QED BY <1>2, <1>8, <2>1 DEF ListOK, Inv, Types
<1>16. \A e \in list' : \E f \in list : Same(e, f)
  BY <1>2 DEF Same
<1>17. \A i \in Jobs : i # j /\ InFlight(job[i]) => job[i].run.id \in channel'
  BY <1>2, JobTyped DEF JobOK, StepOK, InHand, InFlight
<1>18. /\ made'[j] >= made[j] /\ (\A x \in channel' : x \in channel \/ ~Known(x)) /\ list' = list /\ held' = held
       /\ UNCHANGED spent /\ r.saved \in {job[j].saved, Mem(j)} /\ r.run.mem \in {Mem(j), NoPayload}
       /\ r.run.pc \notin {"saving", "dropping", "setting"}
       /\ (\A e : e.type # Kind[j].type => (e \in list' <=> e \in list))
       /\ \A e \in list : e.type # Kind[j].type /\ e.id \in DOMAIN text =>
            e.id \in DOMAIN text' /\ text'[e.id] = text[e.id]
  BY <1>1, <1>2, <1>5, <1>6, <1>7
<1>19. QED BY <1>3, <1>5, <1>7, <1>10, <1>11, <1>12, <1>13, <1>14, <1>15, <1>16, <1>17, <1>18, WideStep

LEMMA RunSet ==
  ASSUME Inv, NEW j \in Jobs, NEW run \in RunType, SetRun(j, run)
  PROVE  \E r \in JobType : /\ job' = [job EXCEPT ![j] = r] /\ r.saved = job[j].saved /\ r.step = job[j].step
                            /\ r.run = run /\ r.state = job[j].state
<1> DEFINE r == [job[j] EXCEPT !.run = run]
<1>1. r \in JobType /\ r.saved = job[j].saved /\ r.step = job[j].step /\ r.run = run /\ r.state = job[j].state
  BY JobTyped DEF JobType
<1>2. job' = [job EXCEPT ![j] = r]
  BY DEF SetRun
<1>3. QED BY <1>1, <1>2

\* A step that writes the list, a text or the channel, and leaves the payload as it is.
LEMMA WriteStep ==
  ASSUME Inv, NEW j \in Jobs, Live(job[j]), Remembered(job[j]), job[j].run.pc # "replace",
         NEW run \in RunType, SetRun(j, run), run.mem = Mem(j), UNCHANGED <<made, spent>>,
         list' \subseteq Entry, channel' \subseteq channel, held' \in Jobs \cup {NoJob}, ListOK',
         \A e \in list' : (\E f \in list : Same(e, f)) \/ (InFlight(job[j]) /\ e.id = job[j].run.id),
         \A i \in Jobs : i # j /\ InFlight(job[i]) => job[i].run.id \in channel',
         \A r \in JobType : r.run = run /\ r.saved = Mem(j) /\ r.step = job[j].step /\ r.state = job[j].state =>
           StepOK(j, r)' /\ Linking(j, r)',
         run.pc \in {"listed", "gone", "making", "describing"},
         Run(j).pc \in {"uploaded", "saving", "listed"} => run.pc = "listed",
         (list' = list /\ held' = held) \/ held = j,
         \A e : e.type # Kind[j].type => (e \in list' <=> e \in list),
         \A e \in list : e.type # Kind[j].type /\ e.id \in DOMAIN text =>
           e.id \in DOMAIN text' /\ text'[e.id] = text[e.id],
         \A e \in list' : \/ e.id \in channel' \/ e.id \in Excuses(j, job[j])
                          \/ \E f \in list : f.id = e.id /\ f.id \notin channel
  PROVE  Inv'
<1>1. PICK r \in JobType : /\ job' = [job EXCEPT ![j] = r] /\ r.saved = job[j].saved /\ r.step = job[j].step
                           /\ r.run = run /\ r.state = job[j].state
  BY RunSet
<1>2. Mem(j) = job[j].saved
  BY DEF Remembered, Mem
<1>3. StepOK(j, r)' /\ Linking(j, r)'
  BY <1>1, <1>2
<1>4. ~InFlight(r) /\ (Unrecorded(job[j]) => Unrecorded(r))
  BY <1>1 DEF InFlight, Unrecorded, Live, Run
<1>5. Counted(j, r)'
  <2>1. /\ made[j] <= Cardinality(DOMAIN job[j].saved.uploaded) + (IF Unrecorded(job[j]) THEN 1 ELSE 0) + spent.faults
        /\ Cardinality(DOMAIN job[j].saved.uploaded) \in Nat /\ made[j] \in Nat /\ spent.faults \in Nat
    BY JobTyped, RecordedFinite DEF JobOK, Counted
  <2>2. made'[j] <= Cardinality(DOMAIN r.saved.uploaded) + (IF Unrecorded(r) THEN 1 ELSE 0) + spent'.faults
    BY <1>1, <1>4, <2>1
  <2>3. QED BY <2>2 DEF Counted, Unrecorded, Live
<1>6. OffChannel'
  BY <1>1, OffChannelStays
<1>7. /\ channel' \subseteq VideoIds /\ made' \in [Jobs -> Nat] /\ made'[j] >= made[j]
      /\ \A i \in Jobs : i # j => made'[i] = made[i]
  BY DEF Inv, Types
<1>8. /\ (\A x \in channel' : x \in channel \/ ~Known(x)) /\ UNCHANGED spent
      /\ r.saved \in {job[j].saved, Mem(j)} /\ r.run.mem \in {Mem(j), NoPayload}
      /\ r.run.pc \notin {"saving", "dropping", "setting"}
  BY <1>1
<1>9. QED BY <1>1, <1>3, <1>4, <1>5, <1>6, <1>7, <1>8, WideStep

LEMMA DeleteInv ==
  ASSUME Inv, NEW j \in Jobs, Delete(j)
  PROVE  Inv'
<1>1. PICK old \in VideoIds : old = NextOld(j) /\ Known(old) /\ \E k \in Stale(j) \cup Extra(j) : old = Mem(j).replacing[k]
  BY OldOne DEF Delete
<1>2. /\ Running(j) /\ job[j].step = "upload" /\ Run(j).pc = "parts" /\ Missing(j) = {}
      /\ channel' = channel \ {old} /\ SetRun(j, [Run(j) EXCEPT !.pc = "gone", !.id = old])
      /\ UNCHANGED <<list, text, held, made, spent>>
  BY <1>1 DEF Delete, Deleting, At, Run
<1>3. /\ Live(job[j]) /\ Remembered(job[j]) /\ Run(j) \in RunType /\ Run(j).mem = Mem(j) /\ Run(j) = job[j].run
      /\ PayloadOK(j, Mem(j)) /\ Run(j).tried \subseteq Mem(j).not_removed
      /\ Mem(j) = job[j].saved /\ (Kind[j].replace => Mem(j).begun)
  BY <1>2, AtFacts DEF StepOK, Placed
<1>4. PICK run \in RunType : /\ run = [Run(j) EXCEPT !.pc = "gone", !.id = old]
                             /\ run.pc = "gone" /\ run.mem = Mem(j) /\ run.tried = Run(j).tried /\ run.id = old
  <2> DEFINE new == [Run(j) EXCEPT !.pc = "gone", !.id = old]
  <2>1. new \in RunType /\ new.pc = "gone" /\ new.mem = Mem(j) /\ new.tried = Run(j).tried /\ new.id = old
    BY <1>3 DEF RunType, Places
  <2>2. QED BY <2>1
<1>5. ASSUME NEW r \in JobType, r.run = run, r.saved = Mem(j), r.step = job[j].step
      PROVE  StepOK(j, r)' /\ Linking(j, r)'
  <2>1. Placed(j, r)' /\ Remembered(r)'
    BY <1>2, <1>3, <1>4, <1>5 DEF Placed, Remembered
  <2>2. Known(old)' /\ old \notin channel'
    BY <1>1, <1>2 DEF Known
  <2>3. InHand(j, r)' /\ OffHand(j, r)' /\ Linking(j, r)'
    BY <1>4, <1>5, <2>2 DEF InHand, OffHand, Unrecorded, InFlight, Linking
  <2>4. QED BY <2>1, <2>3 DEF StepOK
<1>6. \A i \in Jobs : i # j /\ InFlight(job[i]) => job[i].run.id \in channel'
  <2>1. PICK k \in DOMAIN Mem(j).replacing : old = Mem(j).replacing[k]
    BY <1>1 DEF Stale, Extra
  <2>2. ASSUME NEW i \in Jobs, InFlight(job[i]) PROVE job[i].run.id \in channel /\ job[i].run.id # old
    <3>1. job[i].run.id \in channel
      BY <2>2, JobTyped DEF JobOK, StepOK, InHand, InFlight
    <3>2. ApartFrom(Mem(j), job[i].run.id)
      BY <2>2 DEF Inv, Apart, Mem
    <3>3. QED BY <2>1, <3>1, <3>2 DEF ApartFrom
  <2>3. QED BY <1>2, <2>2
<1>7. ASSUME NEW e \in list, e.id = old PROVE e.id \in Excuses(j, job[j])
  <2>1. PICK k \in Stale(j) \cup Extra(j) : old = Mem(j).replacing[k]
    BY <1>1
  <2>2. CASE k \in Stale(j)
    <3>1. old \in ListedIds
      BY <1>7 DEF ListedIds
    <3>2. k \in DOMAIN Mem(j).uploaded \cap DOMAIN Mem(j).replacing /\ Mem(j).replacing[k] # Mem(j).uploaded[k]
      BY <2>2 DEF Stale
    <3>3. QED BY <1>3, <2>1, <3>1, <3>2 DEF PayloadOK
  <2>3. CASE k \in Extra(j)
    BY <1>2, <1>3, <1>7, <2>1, <2>3 DEF Extra, ExtraOf, Excuses, Missing
  <2>4. QED BY <2>1, <2>2, <2>3
<1>8. \A e \in list' : \/ e.id \in channel' \/ e.id \in Excuses(j, job[j])
                       \/ \E f \in list : f.id = e.id /\ f.id \notin channel
  BY <1>2, <1>7
<1>9. /\ list' \subseteq Entry /\ channel' \subseteq channel /\ held' \in Jobs \cup {NoJob} /\ ListOK'
      /\ \A e \in list' : \E f \in list : Same(e, f)
  BY <1>2 DEF Inv, Types, ListOK, Known, Same
<1>10. /\ SetRun(j, run) /\ list' = list /\ held' = held /\ UNCHANGED <<made, spent>>
       /\ job[j].run.pc # "replace" /\ Run(j).pc \notin {"uploaded", "saving", "listed"}
       /\ (\A e : e.type # Kind[j].type => (e \in list' <=> e \in list))
       /\ \A e \in list : e.type # Kind[j].type /\ e.id \in DOMAIN text =>
            e.id \in DOMAIN text' /\ text'[e.id] = text[e.id]
  BY <1>2, <1>3, <1>4
<1>11. \A r \in JobType : r.run = run /\ r.saved = Mem(j) /\ r.step = job[j].step /\ r.state = job[j].state =>
         StepOK(j, r)' /\ Linking(j, r)'
  BY <1>5
<1>12. /\ run.pc \in {"listed", "gone", "making", "describing"} /\ run.mem = Mem(j)
       /\ Live(job[j]) /\ Remembered(job[j])
       /\ \A e \in list' : (\E f \in list : Same(e, f)) \/ (InFlight(job[j]) /\ e.id = job[j].run.id)
  BY <1>3, <1>4, <1>9
<1>13. QED BY <1>6, <1>8, <1>9, <1>10, <1>11, <1>12, WriteStep

\* Who holds the row has read the list as it is.
LEMMA Holds ==
  ASSUME Inv, NEW j \in Jobs, Running(j), Run(j).pc \in {"saving", "dropping", "setting"}
  PROVE  held = j /\ Run(j).seen = list
BY AtFacts, JobTyped DEF Locking

LEMMA SaveEntryInv ==
  ASSUME Inv, NEW j \in Jobs, SaveEntry(j)
  PROVE  Inv'
<1>1. PICK entry : entry = SavedEntry(j, Run(j).seen)
  OBVIOUS
<1>2. /\ Running(j) /\ job[j].step = "upload" /\ Run(j).pc = "saving" /\ held = j /\ Run(j).seen = list
      /\ list' = Upserted(list, entry) /\ held' = NoJob /\ SetRun(j, [Run(j) EXCEPT !.pc = "listed", !.seen = {}])
      /\ UNCHANGED <<channel, text, made, spent>>
  BY <1>1, Holds DEF SaveEntry, At, Run
<1>3. /\ Live(job[j]) /\ Remembered(job[j]) /\ Run(j) \in RunType /\ Run(j).mem = Mem(j) /\ Run(j) = job[j].run
      /\ PayloadOK(j, Mem(j)) /\ Run(j).tried \subseteq Mem(j).not_removed
      /\ Mem(j) = job[j].saved /\ (Kind[j].replace => Mem(j).begun)
  BY <1>2, AtFacts DEF StepOK, Placed
<1>4. /\ InFlight(job[j]) /\ Unrecorded(job[j]) /\ Run(j).id = <<j, made[j]>> /\ Known(Run(j).id)
      /\ Run(j).id \in channel /\ Run(j).id \notin ListedIds
      /\ Run(j).part \in Kind[j].parts \ DOMAIN Mem(j).uploaded
      /\ \A k \in DOMAIN Mem(j).uploaded : Mem(j).uploaded[k] # Run(j).id
  BY ZenonT(60), <1>2, <1>3, AtFacts DEF StepOK, InHand, InFlight, Unrecorded
<1>5. ApartFrom(Mem(j), Run(j).id)
  BY <1>3, <1>4 DEF Inv, Apart
<1>6. entry \in Entry /\ entry.id = Run(j).id /\ entry.type = Kind[j].type /\ entry.part = Run(j).part
  <2>1. ASSUME NEW gaps \in BOOLEAN
        PROVE  [id |-> Run(j).id, type |-> Kind[j].type, part |-> Run(j).part, preview |-> FALSE, gaps |-> gaps] \in Entry
    BY <1>3, PublishAssumption DEF RunType, Entry
  <2>2. PICK gaps : /\ gaps = (\/ Run(j).part \in Kind[j].gaps
                               \/ \E e \in Run(j).seen : e.type = Kind[j].type /\ e.part = Run(j).part /\ e.gaps)
                    /\ gaps \in BOOLEAN
    BY Zenon
  <2>3. entry = [id |-> Run(j).id, type |-> Kind[j].type, part |-> Run(j).part, preview |-> FALSE, gaps |-> gaps]
    BY <1>1, <2>2, Zenon DEF SavedEntry
  <2>4. QED BY <2>1, <2>2, <2>3
<1>7. \A e : e \in list' <=> e = entry \/ (e \in list /\ ~(e.type = entry.type /\ e.part = entry.part))
  BY <1>2 DEF Upserted
<1>8. PICK run \in RunType : /\ run = [Run(j) EXCEPT !.pc = "listed", !.seen = {}]
                             /\ run.pc = "listed" /\ run.mem = Mem(j) /\ run.tried = Run(j).tried
                             /\ run.id = Run(j).id /\ run.part = Run(j).part
  <2> DEFINE new == [Run(j) EXCEPT !.pc = "listed", !.seen = {}]
  <2>1. /\ new \in RunType /\ new.pc = "listed" /\ new.mem = Mem(j) /\ new.tried = Run(j).tried
        /\ new.id = Run(j).id /\ new.part = Run(j).part
    BY <1>3 DEF RunType, Places
  <2>2. QED BY <2>1
<1>9. \A k \in DOMAIN Mem(j).replacing : k = Run(j).part => Mem(j).replacing[k] \notin ListedIds'
  <2>1. ASSUME NEW k \in DOMAIN Mem(j).replacing, k = Run(j).part, NEW e \in list', e.id = Mem(j).replacing[k]
        PROVE  FALSE
    <3>1. e # entry
      BY <1>5, <1>6, <2>1 DEF ApartFrom
    <3>2. e.type = Kind[j].type /\ e.part = k
      <4>1. \A x \in list : x.id = Mem(j).replacing[k] => x.type = Kind[j].type /\ x.part = k
        BY <1>3, <2>1 DEF PayloadOK
      <4>2. QED BY <1>7, <2>1, <3>1, <4>1
    <3>3. QED BY <1>6, <1>7, <2>1, <3>1, <3>2
  <2>2. QED BY <2>1 DEF ListedIds
<1>10. ASSUME NEW r \in JobType, r.run = run, r.saved = Mem(j), r.step = job[j].step
       PROVE  StepOK(j, r)' /\ Linking(j, r)'
  <2>1. Placed(j, r)' /\ Remembered(r)'
    BY <1>2, <1>3, <1>8, <1>10 DEF Placed, Remembered
  <2>2. OffHand(j, r)' /\ Linking(j, r)'
    BY <1>8, <1>10 DEF OffHand, Linking
  <2>3. run.id = <<j, made'[j]>> /\ Known(run.id)'
    BY <1>2, <1>4, <1>8 DEF Known
  <2>4. InHand(j, r)'
    BY <1>4, <1>8, <1>9, <1>10, <2>3 DEF InHand, InFlight
  <2>5. QED BY <2>1, <2>2, <2>4 DEF StepOK
<1>11. ListOK'
  <2>1. ListOK
    BY DEF Inv
  <2>2. \A e \in list : e.id # entry.id
    BY <1>4, <1>6 DEF ListedIds
  <2>3. \A e, f \in list' : e.id = f.id \/ (e.type = f.type /\ e.part = f.part) => e = f
    BY <1>7, <2>1, <2>2 DEF ListOK
  <2>4. \A e \in list' : Known(e.id) /\ (e.id[1] \in Jobs => e.type = Kind[e.id[1]].type)
    BY <1>4, <1>6, <1>7, <2>1 DEF ListOK
  <2>5. \A e \in list' : Known(e.id)'
    BY <1>2, <2>4 DEF Known
  <2>6. QED BY <2>3, <2>4, <2>5 DEF ListOK
<1>12. /\ list' \subseteq Entry /\ channel' \subseteq channel /\ held' \in Jobs \cup {NoJob}
       /\ \A e \in list' : (\E f \in list : Same(e, f)) \/ (InFlight(job[j]) /\ e.id = job[j].run.id)
  BY <1>2, <1>3, <1>4, <1>6, <1>7 DEF Inv, Types, Same
<1>13. \A i \in Jobs : i # j /\ InFlight(job[i]) => job[i].run.id \in channel'
  BY <1>2, JobTyped DEF JobOK, StepOK, InHand, InFlight
<1>14. \A e \in list' : \/ e.id \in channel' \/ e.id \in Excuses(j, job[j])
                        \/ \E f \in list : f.id = e.id /\ f.id \notin channel
  BY <1>2, <1>4, <1>6, <1>7
<1>15. /\ SetRun(j, run) /\ held = j /\ UNCHANGED <<made, spent>>
       /\ job[j].run.pc # "replace" /\ run.pc = "listed" /\ run.mem = Mem(j)
       /\ run.pc \in {"listed", "gone", "making", "describing"}
       /\ (\A e : e.type # Kind[j].type => (e \in list' <=> e \in list))
       /\ \A e \in list : e.type # Kind[j].type /\ e.id \in DOMAIN text =>
            e.id \in DOMAIN text' /\ text'[e.id] = text[e.id]
  BY <1>2, <1>3, <1>6, <1>7, <1>8
<1>16. \A r \in JobType : r.run = run /\ r.saved = Mem(j) /\ r.step = job[j].step /\ r.state = job[j].state =>
         StepOK(j, r)' /\ Linking(j, r)'
  BY <1>10
<1>17. QED BY <1>3, <1>11, <1>12, <1>13, <1>14, <1>15, <1>16, WriteStep

LEMMA SetPreviewInv ==
  ASSUME Inv, NEW j \in Jobs, SetPreview(j)
  PROVE  Inv'
<1>1. PICK x : x = Run(j).id
  OBVIOUS
<1>2. /\ Running(j) /\ job[j].step = "previews" /\ Run(j).pc = "setting" /\ held = j /\ Run(j).seen = list
      /\ list' = {IF e.id = x THEN [e EXCEPT !.preview = TRUE] ELSE e : e \in list}
      /\ held' = NoJob /\ SetRun(j, [Run(j) EXCEPT !.pc = "making", !.id = NoId, !.seen = {}])
      /\ UNCHANGED <<channel, text, made, spent>>
  BY <1>1, Holds DEF SetPreview, At, Run
<1>3. /\ Live(job[j]) /\ Remembered(job[j]) /\ Run(j) \in RunType /\ Run(j).mem = Mem(j) /\ Run(j) = job[j].run
      /\ Mem(j) = job[j].saved /\ x[1] = j
  BY <1>1, <1>2, AtFacts DEF StepOK, OffHand
<1>4. list \subseteq Entry /\ ListOK
  BY DEF Inv, Types
<1>5. \A e \in list : /\ [e EXCEPT !.preview = TRUE] \in Entry
                      /\ Same([e EXCEPT !.preview = TRUE], e)
  BY <1>4 DEF Entry, Same
<1>6. \A e \in list' : e \in Entry /\ \E f \in list : Same(e, f) /\ (f.id = x \/ e = f)
                       /\ (f.id = x => e = [f EXCEPT !.preview = TRUE])
  <2>1. ASSUME NEW e \in list'
        PROVE  e \in Entry /\ \E f \in list : Same(e, f) /\ (f.id = x \/ e = f)
                       /\ (f.id = x => e = [f EXCEPT !.preview = TRUE])
    <3>1. PICK f \in list : e = IF f.id = x THEN [f EXCEPT !.preview = TRUE] ELSE f
      BY <1>2
    <3>2. Same(e, f) /\ e \in Entry
      <4>1. Same(f, f) /\ f \in Entry
        BY <1>4 DEF Same
      <4>2. QED BY <1>5, <3>1, <4>1
    <3>3. QED BY <3>1, <3>2
  <2>2. QED BY <2>1
<1>7. \A f \in list : f.id = x => f.type = Kind[j].type
  BY <1>3, <1>4 DEF ListOK
<1>8. \A e : e.type # Kind[j].type => (e \in list' <=> e \in list)
  <2>1. ASSUME NEW e \in list, e.type # Kind[j].type PROVE e \in list'
    BY <1>2, <1>7, <2>1
  <2>2. ASSUME NEW e \in list', e.type # Kind[j].type PROVE e \in list
    BY <1>6, <1>7, <2>2 DEF Same
  <2>3. QED BY <2>1, <2>2
<1>9. PICK run \in RunType : /\ run = [Run(j) EXCEPT !.pc = "making", !.id = NoId, !.seen = {}]
                             /\ run.pc = "making" /\ run.mem = Mem(j)
  <2> DEFINE new == [Run(j) EXCEPT !.pc = "making", !.id = NoId, !.seen = {}]
  <2>1. new \in RunType /\ new.pc = "making" /\ new.mem = Mem(j)
    BY <1>3, IdleTypes DEF RunType, Places
  <2>2. QED BY <2>1
<1>10. ASSUME NEW r \in JobType, r.run = run, r.saved = Mem(j), r.step = job[j].step
       PROVE  StepOK(j, r)' /\ Linking(j, r)'
  <2>1. Placed(j, r)' /\ Remembered(r)'
    BY <1>2, <1>3, <1>9, <1>10 DEF Placed, Remembered
  <2>2. InHand(j, r)' /\ OffHand(j, r)' /\ Linking(j, r)'
    BY <1>9, <1>10 DEF InHand, OffHand, Unrecorded, InFlight, Linking
  <2>3. QED BY <2>1, <2>2 DEF StepOK
<1>11. ListOK'
  <2>1. \A e, f \in list' : e.id = f.id \/ (e.type = f.type /\ e.part = f.part) => e = f
    <3>1. ASSUME NEW e \in list', NEW f \in list', e.id = f.id \/ (e.type = f.type /\ e.part = f.part) PROVE e = f
      <4>1. PICK a \in list : Same(e, a) /\ (a.id = x \/ e = a) /\ (a.id = x => e = [a EXCEPT !.preview = TRUE])
        BY <1>6
      <4>2. PICK b \in list : Same(f, b) /\ (b.id = x \/ f = b) /\ (b.id = x => f = [b EXCEPT !.preview = TRUE])
        BY <1>6
      <4>3. a = b
        BY <1>4, <3>1, <4>1, <4>2 DEF ListOK, Same
      <4>4. QED BY <4>1, <4>2, <4>3
    <3>2. QED BY <3>1
  <2>2. \A e \in list' : Known(e.id)' /\ (e.id[1] \in Jobs => e.type = Kind[e.id[1]].type)
    BY <1>2, <1>4, <1>6 DEF ListOK, Same, Known
  <2>3. QED BY <2>1, <2>2 DEF ListOK
<1>12. /\ list' \subseteq Entry /\ channel' \subseteq channel /\ held' \in Jobs \cup {NoJob}
       /\ \A e \in list' : (\E f \in list : Same(e, f)) \/ (InFlight(job[j]) /\ e.id = job[j].run.id)
  BY <1>2, <1>6
<1>13. \A i \in Jobs : i # j /\ InFlight(job[i]) => job[i].run.id \in channel'
  BY <1>2, JobTyped DEF JobOK, StepOK, InHand, InFlight
<1>14. \A e \in list' : \/ e.id \in channel' \/ e.id \in Excuses(j, job[j])
                        \/ \E f \in list : f.id = e.id /\ f.id \notin channel
  BY <1>2, <1>6 DEF Same
<1>15. /\ SetRun(j, run) /\ held = j /\ UNCHANGED <<made, spent>> /\ Run(j).pc \notin {"uploaded", "saving", "listed"}
       /\ job[j].run.pc # "replace" /\ run.pc \in {"listed", "gone", "making", "describing"} /\ run.mem = Mem(j)
       /\ \A e \in list : e.type # Kind[j].type /\ e.id \in DOMAIN text =>
            e.id \in DOMAIN text' /\ text'[e.id] = text[e.id]
  BY <1>2, <1>3, <1>9
<1>16. \A r \in JobType : r.run = run /\ r.saved = Mem(j) /\ r.step = job[j].step /\ r.state = job[j].state =>
         StepOK(j, r)' /\ Linking(j, r)'
  BY <1>10
<1>17. QED BY <1>3, <1>8, <1>11, <1>12, <1>13, <1>14, <1>15, <1>16, WriteStep

LEMMA NextOne ==
  ASSUME Inv, NEW j \in Jobs, Undescribed(j) # {}, Run(j).seen \subseteq Entry
  PROVE  NextEntry(j) \in Undescribed(j)
<1> DEFINE parts == {e.part : e \in Undescribed(j)}
<1>1. parts \subseteq Nat /\ parts # {}
  BY DEF Undescribed, Entry
<1>2. Min(parts) \in parts /\ \A k \in parts : Min(parts) <= k
  BY <1>1, LeastOf
<1>3. \E e \in Undescribed(j) : \A f \in Undescribed(j) : e.part <= f.part
  BY <1>2
<1>4. QED BY <1>3 DEF NextEntry

LEMMA DescribeInv ==
  ASSUME Inv, NEW j \in Jobs, Describe(j)
  PROVE  Inv'
<1>1. /\ Running(j) /\ job[j].step = "describe" /\ Run(j).pc = "describing" /\ Undescribed(j) # {}
      /\ UNCHANGED <<list, channel, held, made, spent>>
  BY DEF Describe, At, Run
<1>2. /\ Live(job[j]) /\ Remembered(job[j]) /\ Run(j) \in RunType /\ Run(j).mem = Mem(j) /\ Run(j) = job[j].run
      /\ Mem(j) = job[j].saved
  BY <1>1, AtFacts DEF StepOK
<1>3. /\ Run(j).seen = Entries(Kind[j].type)
      /\ \A e \in Run(j).seen : e.id \in Run(j).tried /\ e.id \in channel =>
           e.id \in DOMAIN text /\ text[e.id] = Links(j, e)
  BY <1>1, <1>2, JobTyped DEF Linking, Links
<1>4. PICK e : e = NextEntry(j) /\ e \in Run(j).seen
  <2>1. Run(j).seen \subseteq Entry
    BY <1>2 DEF RunType
  <2>2. NextEntry(j) \in Undescribed(j)
    BY <1>1, <2>1, NextOne
  <2>3. QED BY <2>2 DEF Undescribed
<1>5. /\ text' = IF e.id \in channel THEN Put(text, e.id, Links(j, e)) ELSE text
      /\ SetRun(j, [Run(j) EXCEPT !.tried = @ \cup {e.id}])
  BY <1>4 DEF Describe
<1>6. /\ e.id \in channel => e.id \in DOMAIN text' /\ text'[e.id] = Links(j, e)
      /\ \A x \in DOMAIN text : x # e.id => x \in DOMAIN text' /\ text'[x] = text[x]
  BY <1>5 DEF Put
<1>7. list \subseteq Entry /\ ListOK
  BY DEF Inv, Types
<1>8. e \in list /\ e.id \in VideoIds /\ e.type = Kind[j].type
  BY <1>3, <1>4, <1>7 DEF Entries, Entry
<1>9. PICK run \in RunType : /\ run = [Run(j) EXCEPT !.tried = @ \cup {e.id}] /\ run.pc = "describing"
                             /\ run.mem = Mem(j) /\ run.seen = Run(j).seen /\ run.tried = Run(j).tried \cup {e.id}
  <2> DEFINE new == [Run(j) EXCEPT !.tried = @ \cup {e.id}]
  <2>1. /\ new \in RunType /\ new.pc = "describing" /\ new.mem = Mem(j) /\ new.seen = Run(j).seen
        /\ new.tried = Run(j).tried \cup {e.id}
    BY <1>1, <1>2, <1>8 DEF RunType
  <2>2. QED BY <2>1
<1>10. ASSUME NEW f \in Run(j).seen, f.id \in run.tried, f.id \in channel
       PROVE  f.id \in DOMAIN text' /\ text'[f.id] = {<<g.part, g.id>> : g \in {g \in Run(j).seen : g.part # f.part}}
  <2>1. f \in list
    BY <1>3 DEF Entries
  <2>2. CASE f.id = e.id
    BY <1>6, <1>7, <1>8, <1>10, <2>1, <2>2 DEF ListOK, Links
  <2>3. CASE f.id # e.id
    BY <1>3, <1>6, <1>9, <1>10, <2>3 DEF Links
  <2>4. QED BY <2>2, <2>3
<1>11. ASSUME NEW r \in JobType, r.run = run, r.saved = Mem(j), r.step = job[j].step
       PROVE  StepOK(j, r)' /\ Linking(j, r)'
  <2>1. Placed(j, r)' /\ Remembered(r)'
    BY <1>1, <1>2, <1>9, <1>11 DEF Placed, Remembered
  <2>2. InHand(j, r)' /\ OffHand(j, r)'
    BY <1>9, <1>11 DEF InHand, OffHand, Unrecorded, InFlight
  <2>3. r.run.seen = Entries(Kind[j].type)' /\ r.run.seen = Run(j).seen
    BY <1>1, <1>3, <1>9, <1>11 DEF Entries
  <2>4. Linking(j, r)'
    BY <1>1, <1>10, <1>11, <2>3 DEF Linking
  <2>5. QED BY <2>1, <2>2, <2>4 DEF StepOK
<1>12. /\ ListOK' /\ list' \subseteq Entry /\ channel' \subseteq channel /\ held' \in Jobs \cup {NoJob}
       /\ \A f \in list' : (\E g \in list : Same(f, g)) \/ (InFlight(job[j]) /\ f.id = job[j].run.id)
  BY <1>1, <1>7 DEF Inv, Types, ListOK, Known, Same
<1>13. \A i \in Jobs : i # j /\ InFlight(job[i]) => job[i].run.id \in channel'
  BY <1>1, JobTyped DEF JobOK, StepOK, InHand, InFlight
<1>14. \A f \in list' : \/ f.id \in channel' \/ f.id \in Excuses(j, job[j])
                        \/ \E g \in list : g.id = f.id /\ g.id \notin channel
  BY <1>1
<1>15. \A f \in list : f.type # Kind[j].type /\ f.id \in DOMAIN text =>
         f.id \in DOMAIN text' /\ text'[f.id] = text[f.id]
  BY <1>6, <1>7, <1>8 DEF ListOK
<1>16. /\ SetRun(j, run) /\ list' = list /\ held' = held /\ UNCHANGED <<made, spent>>
       /\ Run(j).pc \notin {"uploaded", "saving", "listed"} /\ run.mem = Mem(j)
       /\ job[j].run.pc # "replace" /\ run.pc \in {"listed", "gone", "making", "describing"}
       /\ (\A f : f.type # Kind[j].type => (f \in list' <=> f \in list))
  BY <1>1, <1>2, <1>5, <1>9
<1>17. \A r \in JobType : r.run = run /\ r.saved = Mem(j) /\ r.step = job[j].step /\ r.state = job[j].state =>
         StepOK(j, r)' /\ Linking(j, r)'
  BY <1>11
<1>18. QED BY <1>2, <1>12, <1>13, <1>14, <1>15, <1>16, <1>17, WriteStep

LEMMA DropInv ==
  ASSUME Inv, NEW j \in Jobs, Drop(j)
  PROVE  Inv'
<1>1. PICK gone : gone = Gone(j)
  OBVIOUS
<1>2. /\ Running(j) /\ job[j].step = "upload" /\ Run(j).pc = "dropping" /\ held = j /\ Run(j).seen = list
      /\ list' = {e \in list : e.id \notin gone} /\ held' = NoJob /\ Returns(j, "describe")
      /\ UNCHANGED <<channel, text, made, spent>>
  BY <1>1, Holds DEF Drop, At, Run
<1>3. /\ Live(job[j]) /\ Mem(j) = job[j].saved /\ ~Unrecorded(job[j]) /\ ~InFlight(job[j]) /\ PayloadOK(j, Mem(j))
      /\ \A k \in ExtraOf(j, Mem(j)) : Mem(j).replacing[k] \in Mem(j).removed \cup Mem(j).not_removed
      /\ Mem(j) \in Payload /\ Begun(Mem(j)) \in RunType
  BY <1>2, AtFacts, IdleTypes DEF StepOK, OffHand, Unrecorded, InFlight
<1>4. PICK r \in JobType : /\ job' = [job EXCEPT ![j] = r] /\ r.saved = Mem(j) /\ r.step = "describe"
                           /\ r.run = Begun(Mem(j)) /\ r.state = job[j].state
  <2> DEFINE new == [job[j] EXCEPT !.state = @, !.step = "describe", !.saved = Mem(j), !.run = Begun(Mem(j))]
  <2>1. /\ new \in JobType /\ new.saved = Mem(j) /\ new.step = "describe" /\ new.run = Begun(Mem(j))
        /\ new.state = job[j].state
    BY <1>3, JobTyped DEF JobType
  <2>2. job' = [job EXCEPT ![j] = new]
    BY <1>2 DEF Returns
  <2>3. QED BY <2>1, <2>2
<1>5. r.run.mem = Mem(j) /\ r.run.pc = "begin"
  BY <1>4 DEF Begun, RunAt
<1>6. StepOK(j, r)' /\ Linking(j, r)' /\ ~InFlight(r) /\ ~Unrecorded(r)
  <2>1. Placed(j, r)' /\ Remembered(r)'
    BY <1>3, <1>4, <1>5 DEF Placed, Remembered
  <2>2. InHand(j, r)' /\ OffHand(j, r)' /\ Linking(j, r)' /\ ~InFlight(r) /\ ~Unrecorded(r)
    BY <1>5 DEF InHand, OffHand, Unrecorded, InFlight, Linking
  <2>3. QED BY <2>1, <2>2 DEF StepOK
<1>7. list \subseteq Entry /\ ListOK /\ OffChannel
  BY DEF Inv, Types
<1>8. /\ ListOK' /\ list' \subseteq Entry /\ channel' \subseteq VideoIds /\ held' \in Jobs \cup {NoJob}
      /\ made' \in [Jobs -> Nat] /\ (\A i \in Jobs : i # j => made'[i] = made[i]) /\ made'[j] >= made[j]
      /\ \A e \in list' : \E f \in list : Same(e, f)
  BY <1>2, <1>7, JobTyped DEF Inv, Types, ListOK, Known, Same
<1>9. gone = {Mem(j).replacing[k] : k \in ExtraOf(j, Mem(j))} \cap Mem(j).removed
  BY <1>1 DEF Gone, Extra, ExtraOf
<1>10. \A e : e.type # Kind[j].type => (e \in list' <=> e \in list)
  <2>1. ASSUME NEW e \in list, e.id \in gone PROVE e.type = Kind[j].type
    <3>1. PICK k \in ExtraOf(j, Mem(j)) : e.id = Mem(j).replacing[k]
      BY <1>9, <2>1
    <3>2. k \in DOMAIN Mem(j).replacing
      BY DEF ExtraOf
    <3>3. QED BY <1>3, <3>1, <3>2 DEF PayloadOK
  <2>2. QED BY <1>2, <2>1
<1>11. OffChannel'
  <2>1. job'[j] = r /\ \A i \in Jobs \ {j} : job'[i] = job[i]
    BY <1>4 DEF Inv, Types
  <2>2. ASSUME NEW i \in Jobs, i # j PROVE Excuses(i, job[i])' = Excuses(i, job[i])
    BY <2>1, <2>2 DEF Excuses, ExtraOf
  <2>3. Excuses(j, job[j])' = Mem(j).not_removed
    BY <1>4, <2>1 DEF Excuses
  <2>4. ASSUME NEW e \in list' PROVE e.id \in channel' \/ \E i \in Jobs : e.id \in Excuses(i, job[i])'
    <3>1. e \in list /\ e.id \notin gone
      BY <1>2
    <3>2. CASE e.id \in channel
      BY <1>2, <3>2
    <3>3. CASE e.id \notin channel
      <4>1. PICK i \in Jobs : e.id \in Excuses(i, job[i])
        BY <1>7, <3>1, <3>3 DEF OffChannel
      <4>2. CASE i # j
        BY <2>2, <4>1, <4>2
      <4>3. CASE i = j
        <5>1. e.id \in Mem(j).not_removed \/ e.id \in {Mem(j).replacing[k] : k \in ExtraOf(j, Mem(j))}
          BY <1>3, <4>1, <4>3 DEF Excuses
        <5>2. e.id \in Mem(j).not_removed
          BY <1>3, <1>9, <3>1, <5>1
        <5>3. QED BY <2>3, <5>2
      <4>4. QED BY <4>2, <4>3
    <3>4. QED BY <3>2, <3>3
  <2>5. QED BY <2>4 DEF OffChannel
<1>12. Counted(j, r)'
  <2>1. /\ made[j] <= Cardinality(DOMAIN job[j].saved.uploaded) + spent.faults
        /\ Cardinality(DOMAIN job[j].saved.uploaded) \in Nat /\ made[j] \in Nat /\ spent.faults \in Nat
    BY <1>3, JobTyped, RecordedFinite DEF Counted
  <2>2. made'[j] <= Cardinality(DOMAIN r.saved.uploaded) + 0 + spent'.faults
    BY <1>2, <1>3, <1>4, <2>1
  <2>3. QED BY <1>6, <2>2 DEF Counted, Unrecorded, Live
<1>13. \A i \in Jobs : i # j /\ InFlight(job[i]) => job[i].run.id \in channel'
  BY <1>2, JobTyped DEF JobOK, StepOK, InHand, InFlight
<1>14. /\ UNCHANGED spent /\ held = j /\ (\A x \in channel' : x \in channel \/ ~Known(x))
       /\ r.saved \in {job[j].saved, Mem(j)} /\ r.run.mem \in {Mem(j), NoPayload}
       /\ r.run.pc \notin {"saving", "dropping", "setting"}
       /\ \A e \in list : e.type # Kind[j].type /\ e.id \in DOMAIN text =>
            e.id \in DOMAIN text' /\ text'[e.id] = text[e.id]
  BY <1>2, <1>4, <1>5
<1>15. QED BY <1>3, <1>4, <1>6, <1>8, <1>10, <1>11, <1>12, <1>13, <1>14, WideStep

LEMMA CrashInv ==
  ASSUME Inv, Crash
  PROVE  Inv'
<1> DEFINE new(i) == IF Running(i) THEN [job[i] EXCEPT !.state = "queued", !.run = Idle] ELSE job[i]
<1>1. /\ job' = [i \in Jobs |-> new(i)] /\ held' = NoJob /\ UNCHANGED <<list, channel, text, made>>
      /\ spent' = [spent EXCEPT !.faults = @ + 1]
  BY DEF Crash, Fault
<1>2. spent' \in [faults : Nat, retries : Nat] /\ spent'.faults = spent.faults + 1 /\ spent.faults \in Nat
  <2>1. spent \in [faults : Nat, retries : Nat]
    BY DEF Inv, Types
  <2>2. spent' = [spent EXCEPT !.faults = @ + 1]
    BY <1>1
  <2>3. QED BY <2>1, <2>2
<1>3. ASSUME NEW i \in Jobs
      PROVE  /\ new(i) \in JobType /\ new(i).saved = job[i].saved /\ new(i).step = job[i].step /\ ~Live(new(i))
             /\ new(i).run.mem = NoPayload \/ new(i).run.mem = job[i].run.mem
  <2>1. CASE Running(i)
    <3>1. Idle.mem = NoPayload /\ Idle \in RunType
      BY IdleTypes DEF Idle, RunAt
    <3>2. QED BY <2>1, <3>1, JobTyped DEF JobType, States, Live
  <2>2. CASE ~Running(i)
    BY <2>2, JobTyped DEF Live, Running
  <2>3. QED BY <2>1, <2>2
<1> HIDE DEF new
<1>4. \A i \in Jobs : job'[i] = new(i)
  BY <1>1
<1>5. Types'
  BY <1>1, <1>2, <1>3 DEF Inv, Types
<1>6. ListOK' /\ Exclusive' /\ Apart'
  <2>1. ListOK'
    BY <1>1 DEF Inv, ListOK, Known
  <2>2. Exclusive'
    BY <1>3, <1>4 DEF Exclusive
  <2>3. Apart'
    BY <1>3, <1>4 DEF Apart, InFlight
  <2>4. QED BY <2>1, <2>2, <2>3
<1>7. OffChannel'
  <2>1. ASSUME NEW i \in Jobs PROVE Excuses(i, job[i])' = Excuses(i, job[i])
    BY <1>3, <1>4 DEF Excuses, ExtraOf
  <2>2. QED BY <1>1, <2>1 DEF Inv, OffChannel
<1>8. ASSUME NEW i \in Jobs
      PROVE  (JobOK(i, job[i]) /\ Locking(i, job[i]) /\ Counted(i, job[i]) /\ Linking(i, job[i]))'
  <2>1. ASSUME NEW p \in {job[i].saved, job[i].run.mem, NoPayload} PROVE PayloadOK(i, p)'
    <3>1. PayloadOK(i, p)
      BY PayloadsOK
    <3>2. (\A x : Known(x) => Known(x)') /\ \A e \in list' : \E f \in list : Same(e, f)
      BY <1>1 DEF Known, Same
    <3>3. QED BY <1>1, <3>1, <3>2, PayloadStays
  <2>2. /\ job'[i] = new(i) /\ new(i).saved = job[i].saved /\ ~Live(new(i))
        /\ new(i).run.mem = NoPayload \/ new(i).run.mem = job[i].run.mem
    BY <1>3, <1>4
  <2>3. JobOK(i, job[i])' /\ Locking(i, job[i])' /\ Linking(i, job[i])'
    BY <2>1, <2>2 DEF JobOK, Locking, Linking
  <2>4. Counted(i, job[i])'
    <3>1. /\ made[i] <= Cardinality(DOMAIN job[i].saved.uploaded) + (IF Unrecorded(job[i]) THEN 1 ELSE 0) + spent.faults
          /\ Cardinality(DOMAIN job[i].saved.uploaded) \in Nat /\ made[i] \in Nat
      BY JobTyped, RecordedFinite DEF JobOK, Counted
    <3>2. made'[i] <= Cardinality(DOMAIN job'[i].saved.uploaded) + 0 + spent'.faults
      BY <1>1, <1>2, <2>2, <3>1
    <3>3. QED BY <2>2, <3>2 DEF Counted, Unrecorded
  <2>5. QED BY <2>3, <2>4
<1>9. QED BY <1>5, <1>6, <1>7, <1>8 DEF Inv

LEMMA InitInv ==
  ASSUME Init
  PROVE  Inv
<1>1. ASSUME NEW j \in Jobs
      PROVE  /\ job[j] \in JobType /\ job[j].saved = NoPayload /\ job[j].run = Idle /\ ~Live(job[j])
             /\ made[j] = 0 /\ job[j].run.mem = NoPayload
  <2>1. /\ job[j] = [state |-> "queued", step |-> "upload", waiting |-> FALSE, attempts |-> 0,
                     saved |-> NoPayload, run |-> Idle]
        /\ made[j] = 0
    BY DEF Init
  <2>2. job[j] \in JobType
    BY <2>1, IdleTypes DEF JobType, States
  <2>3. QED BY <2>1, <2>2 DEF Live, Idle, RunAt
<1>2. Types
  <2>1. Listed \subseteq Entry /\ {e.id : e \in Listed} \subseteq VideoIds
    BY PublishAssumption DEF Entry, VideoIds
  <2>2. job \in [Jobs -> JobType]
    BY <1>1 DEF Init
  <2>3. QED BY <2>1, <2>2 DEF Init, Types
<1>3. ListOK
  <2>1. \A e \in Listed : e.id[1] \notin Jobs
    BY PublishAssumption
  <2>2. QED BY <2>1, PublishAssumption DEF Init, ListOK, Known
<1>4. Exclusive /\ Apart
  BY <1>1 DEF Exclusive, Apart, InFlight
<1>5. OffChannel
  BY DEF Init, OffChannel
<1>6. ASSUME NEW j \in Jobs
      PROVE  JobOK(j, job[j]) /\ Locking(j, job[j]) /\ Counted(j, job[j]) /\ Linking(j, job[j])
  <2>1. PayloadOK(j, NoPayload)
    BY DEF PayloadOK, NoPayload
  <2>2. JobOK(j, job[j]) /\ Locking(j, job[j]) /\ Linking(j, job[j])
    BY <1>1, <2>1 DEF JobOK, Locking, Linking
  <2>3. Cardinality(DOMAIN NoPayload.uploaded) \in Nat
    BY <2>1, RecordedFinite
  <2>4. Counted(j, job[j])
    BY <1>1, <2>3 DEF Counted, Unrecorded, Init
  <2>5. QED BY <2>2, <2>4
<1>7. QED BY <1>2, <1>3, <1>4, <1>5, <1>6 DEF Inv

LEMMA NextInv ==
  ASSUME Inv, Next
  PROVE  Inv'
<1>1. ASSUME NEW j \in Jobs, Uploading(j) PROVE Inv'
  BY <1>1, BeginUploadInv, UploadInv, RefusedInv, SaveEntryInv, RecordInv, DeleteInv, DeletedInv, EndUploadInv, DropInv
     DEF Uploading
<1>2. ASSUME NEW j \in Jobs, Describing(j) \/ Previewing(j) PROVE Inv'
  BY <1>2, DescribesInv, DescribeInv, RefusedInv, PreviewsInv, SetPreviewInv DEF Describing, Previewing
<1>3. ASSUME NEW j \in Jobs, Begin(j) \/ LockRow(j) \/ WaitEnds(j) \/ Fails(j) \/ Cancel(j) \/ Retry(j) PROVE Inv'
  BY <1>3, BeginInv, LockRowInv, FailsInv
<1>4. QED BY <1>1, <1>2, <1>3, CrashInv DEF Next, Works

LEMMA StutterInv ==
  ASSUME Inv, UNCHANGED vars
  PROVE  Inv'
<1>1. UNCHANGED <<list, channel, text, held, job, made, spent>>
  BY DEF vars
<1>2. CASE Jobs = {}
  <2>1. Types' /\ ListOK'
    BY <1>1 DEF Inv, Types, ListOK, Known
  <2>2. Exclusive' /\ Apart' /\ OffChannel'
    BY <1>1, <1>2 DEF Inv, Exclusive, Apart, OffChannel
  <2>3. QED BY <1>2, <2>1, <2>2 DEF Inv
<1>3. ASSUME NEW j \in Jobs PROVE Inv'
  <2>1. job' = [job EXCEPT ![j] = job[j]] /\ held' \in Jobs \cup {NoJob} /\ spent' \in [faults : Nat, retries : Nat]
    BY <1>1 DEF Inv, Types
  <2>2. Live(job[j]) /\ job[j].run.pc \in {"saving", "dropping", "setting"} => held' = j /\ job[j].run.seen = list
    BY <1>1, JobTyped DEF Locking
  <2>3. QED BY <1>1, <2>1, <2>2, JobTyped, PlainStep DEF JobOK, Mem
<1>4. QED BY <1>2, <1>3

THEOREM PublishInvariant == Spec => []Inv
<1>1. Init => Inv
  BY InitInv
<1>2. Inv /\ [Next]_vars => Inv'
  BY NextInv, StutterInv
<1>3. QED BY <1>1, <1>2, PTL DEF Spec

----------------------------------------------------------------------------
(* What follows from it.                                                    *)

\* "the VOD always has its uploads" (README.md), whatever is uploaded, deleted, refused or interrupted (steps/publish.py).
THEOREM ListedUploadsAreThere == Spec => []ListedIsThere
<1>1. ASSUME Inv PROVE ListedIsThere
  <2>1. ASSUME NEW e \in list, e.id \notin channel PROVE e.id \in Leaving \cup Reported
    <3>1. PICK j \in Jobs : e.id \in Excuses(j, job[j])
      BY <1>1, <2>1 DEF Inv, OffChannel
    <3>2. CASE e.id \in job[j].saved.not_removed
      BY <3>2 DEF Reported
    <3>3. CASE e.id \notin job[j].saved.not_removed
      <4>1. job[j].step = "upload" /\ e.id \in {job[j].saved.replacing[k] : k \in ExtraOf(j, job[j].saved)}
        BY <3>1, <3>3 DEF Excuses
      <4>2. ExtraOf(j, job[j].saved) \subseteq {k \in DOMAIN job[j].saved.replacing : k > Kind[j].total}
        BY DEF ExtraOf
      <4>3. e.id \in {job[j].saved.replacing[k] : k \in {k \in DOMAIN job[j].saved.replacing : k > Kind[j].total}}
        BY <4>1, <4>2
      <4>4. QED BY <4>1, <4>3 DEF Leaving
    <3>4. QED BY <3>2, <3>3
  <2>2. QED BY <2>1 DEF ListedIsThere
<1>2. QED BY <1>1, PublishInvariant, PTL

\* "It resumes with the parts not yet uploaded" (README.md): what a job uploads more than once is bounded by
\* the faults between an upload and its record (steps/publish.py, upload).
THEOREM PartsUploadedOnce == Spec => []UploadedOnce
<1>1. ASSUME Inv, NEW j \in Jobs PROVE made[j] <= Cardinality(Kind[j].parts) + spent.faults
  <2> DEFINE U == DOMAIN job[j].saved.uploaded
  <2>1. /\ PayloadOK(j, job[j].saved) /\ made[j] \in Nat /\ spent.faults \in Nat
        /\ made[j] <= Cardinality(U) + (IF Unrecorded(job[j]) THEN 1 ELSE 0) + spent.faults
    BY <1>1, JobTyped DEF JobOK, Counted
  <2>2. /\ U \subseteq Kind[j].parts /\ IsFiniteSet(U) /\ Cardinality(U) \in Nat
        /\ IsFiniteSet(Kind[j].parts) /\ Cardinality(Kind[j].parts) \in Nat
    BY <2>1, RecordedFinite, PublishAssumption, FS_CardinalityType DEF PayloadOK
  <2>3. CASE ~Unrecorded(job[j])
    <3>1. Cardinality(U) <= Cardinality(Kind[j].parts)
      BY <2>2, FS_Subset
    <3>2. QED BY <2>1, <2>2, <2>3, <3>1
  <2>4. CASE Unrecorded(job[j])
    <3>1. PICK k \in Kind[j].parts : k \notin U
      <4>1. Live(job[j]) /\ StepOK(j, job[j])
        BY <1>1, <2>4, JobTyped DEF Unrecorded, JobOK
      <4>2. job[j].run.part \in Kind[j].parts \ DOMAIN job[j].run.mem.uploaded
        BY <2>4, <4>1 DEF StepOK, InHand
      <4>3. job[j].run.mem.uploaded = job[j].saved.uploaded
        BY <1>1, <4>1, MemAndSaved DEF Mem
      <4>4. QED BY <4>2, <4>3
    <3>2. Cardinality(U \cup {k}) = Cardinality(U) + 1
      BY <2>2, <3>1, FS_AddElement
    <3>3. Cardinality(U \cup {k}) <= Cardinality(Kind[j].parts)
      <4>1. U \cup {k} \subseteq Kind[j].parts
        BY <2>2, <3>1
      <4>2. QED BY <2>2, <4>1, FS_Subset
    <3>4. QED BY <2>1, <2>2, <2>4, <3>2, <3>3
  <2>5. QED BY <2>3, <2>4
<1>2. Inv => UploadedOnce
  BY <1>1 DEF UploadedOnce
<1>3. QED BY <1>2, PublishInvariant, PTL

\* No step writes over what another one saved: the jobs of a VOD share one list (repository.py: upsert_youtube_entry,
\* drop_youtube_entries; steps/previews.py: _set_preview).
THEOREM NoEntryIsLost == Spec => NoEntryLost
<1>1. ASSUME Inv, [Next]_vars, list' # list, NEW e \in list PROVE EntryKept(e, list')
  <2>1. PICK j \in Jobs : SaveEntry(j) \/ Drop(j) \/ SetPreview(j)
    <3>1. Next
      BY <1>1 DEF vars
    <3>2. ASSUME NEW j \in Jobs, Uploading(j) PROVE SaveEntry(j) \/ Drop(j)
      BY <1>1, <3>2 DEF Uploading, BeginUpload, SaveReplacing, Upload, UploadRefused, Record, Delete, RecordDeleted,
                        DeleteFails, EndUpload, Local
    <3>3. ASSUME NEW j \in Jobs, Describing(j) PROVE FALSE
      BY <1>1, <3>3 DEF Describing, BeginDescribe, Describe, DescribeRefused, EndDescribe, Local
    <3>4. ASSUME NEW j \in Jobs, Previewing(j) PROVE SetPreview(j)
      BY <1>1, <3>4 DEF Previewing, BeginPreviews, MakeSheets, SheetsFail, EndPreviews, Local
    <3>5. QED
      BY <1>1, <3>1, <3>2, <3>3, <3>4 DEF Next, Works, Begin, LockRow, WaitEnds, Fails, Cancel, Retry, Crash, Local
  <2>2. \E f \in list : f = e /\ (e.gaps => f.gaps) /\ (e.preview => f.preview)
    OBVIOUS
  <2>3. CASE SaveEntry(j)
    <3>1. PICK entry : entry = SavedEntry(j, list)
      OBVIOUS
    <3>2. Running(j) /\ Run(j).seen = list /\ Run(j).pc = "saving" /\ list' = Upserted(list, entry)
      BY <1>1, <2>3, <3>1, Holds DEF SaveEntry, At, Run
    <3>3. entry.id \notin {g.id : g \in list}
      <4>1. entry.id = Run(j).id
        BY <3>1 DEF SavedEntry
      <4>2. Run(j).id \notin ListedIds
        BY <1>1, <3>2, AtFacts DEF StepOK, InHand, InFlight
      <4>3. QED BY <4>1, <4>2 DEF ListedIds
    <3>4. CASE e.type = entry.type /\ e.part = entry.part
      <4>1. e.gaps => entry.gaps
        BY <3>1, <3>4 DEF SavedEntry
      <4>2. entry \in list'
        BY <3>2 DEF Upserted
      <4>3. QED BY <3>3, <3>4, <4>1, <4>2 DEF EntryKept
    <3>5. CASE ~(e.type = entry.type /\ e.part = entry.part)
      <4>1. e \in list'
        BY <3>2, <3>5 DEF Upserted
      <4>2. QED BY <4>1 DEF EntryKept
    <3>6. QED BY <3>4, <3>5
  <2>4. CASE Drop(j)
    <3>1. Running(j) /\ Run(j).seen = list /\ Run(j).pc = "dropping" /\ list' = {f \in list : f.id \notin Gone(j)}
      BY <1>1, <2>4, Holds DEF Drop, At, Run
    <3>2. CASE e.id \in Gone(j)
      BY <1>1, <3>1, <3>2, AtFacts DEF Gone, PayloadOK, EntryKept
    <3>3. CASE e.id \notin Gone(j)
      <4>1. e \in list'
        BY <3>1, <3>3
      <4>2. QED BY <4>1 DEF EntryKept
    <3>4. QED BY <3>2, <3>3
  <2>5. CASE SetPreview(j)
    <3>1. /\ Running(j) /\ Run(j).seen = list
          /\ list' = {IF f.id = Run(j).id THEN [f EXCEPT !.preview = TRUE] ELSE f : f \in list}
      BY <1>1, <2>5, Holds DEF SetPreview, At, Run
    <3>2. e \in Entry
      BY <1>1 DEF Inv, Types
    <3>3. CASE e.id = Run(j).id
      <4> DEFINE f == [e EXCEPT !.preview = TRUE]
      <4>1. f \in list'
        BY <3>1, <3>3
      <4>2. f.id = e.id /\ f.type = e.type /\ f.part = e.part /\ f.gaps = e.gaps /\ f.preview = TRUE
        BY <3>2 DEF Entry
      <4> HIDE DEF f
      <4>3. QED BY <4>1, <4>2 DEF EntryKept
    <3>4. CASE e.id # Run(j).id
      <4>1. e \in list'
        BY <3>1, <3>4
      <4>2. QED BY <4>1 DEF EntryKept
    <3>5. QED BY <3>3, <3>4
  <2>6. QED BY <2>1, <2>3, <2>4, <2>5
<1>2. Inv /\ [Next]_vars => [\A e \in list : EntryKept(e, list')]_list
  BY <1>1
<1>3. QED BY <1>2, PublishInvariant, PTL DEF Spec, NoEntryLost

\* The step of a job changes where a step returns.
LEMMA StepKept ==
  ASSUME Inv, NEW i \in Jobs, NEW j \in Jobs, NEW run, NEW state, NEW attempts, NEW payload,
         SetRun(i, run) \/ SetSaved(i, run) \/ Leaves(i, state, attempts, payload)
  PROVE  job'[j].step = job[j].step
<1>1. job[i] \in JobType /\ job \in [Jobs -> JobType]
  BY DEF Inv, Types
<1>2. CASE SetRun(i, run)
  BY <1>1, <1>2 DEF SetRun, JobType
<1>3. CASE SetSaved(i, run)
  BY <1>1, <1>3 DEF SetSaved, JobType
<1>4. CASE Leaves(i, state, attempts, payload)
  BY <1>1, <1>4 DEF Leaves, JobType
<1>5. QED BY <1>2, <1>3, <1>4

LEMMA StepReturned ==
  ASSUME Inv, NEW i \in Jobs, NEW j \in Jobs, NEW next, Returns(i, next)
  PROVE  job'[j].step = IF i = j THEN next ELSE job[j].step
<1>1. job[i] \in JobType /\ job \in [Jobs -> JobType]
  BY DEF Inv, Types
<1>2. QED BY <1>1 DEF Returns, JobType

LEMMA DescribeReturns ==
  ASSUME Inv, Next, NEW j \in Jobs, job[j].step = "describe", job'[j].step = "previews"
  PROVE  (BeginDescribe(j) \/ EndDescribe(j)) /\ Returns(j, "previews")
<1>1. ASSUME NEW i \in Jobs, Uploading(i) PROVE FALSE
  <2>1. \A run : ~SetRun(i, run) /\ ~SetSaved(i, run)
    BY StepKept
  <2>2. \A state, attempts, payload : ~Leaves(i, state, attempts, payload)
    BY StepKept
  <2>3. ~Returns(i, "describe")
    BY StepReturned
  <2>4. QED BY <1>1, <2>1, <2>2, <2>3 DEF Uploading, BeginUpload, SaveReplacing, Upload, UploadRefused, WaitForLimit, SaveEntry,
                    Record, Delete, RecordDeleted, DeleteFails, EndUpload, Drop
<1>2. ASSUME NEW i \in Jobs, Describing(i) PROVE i = j /\ (BeginDescribe(j) \/ EndDescribe(j)) /\ Returns(j, "previews")
  <2>1. \A run : ~SetRun(i, run) /\ ~SetSaved(i, run)
    BY StepKept
  <2>2. \A state, attempts, payload : ~Leaves(i, state, attempts, payload)
    BY StepKept
  <2>3. Returns(i, "previews") => i = j
    BY StepReturned
  <2>4. QED BY <1>2, <2>1, <2>2, <2>3 DEF Describing, BeginDescribe, Describe, DescribeRefused, WaitForLimit, EndDescribe
<1>3. ASSUME NEW i \in Jobs, Previewing(i) PROVE FALSE
  <2>1. \A run : ~SetRun(i, run) /\ ~SetSaved(i, run)
    BY StepKept
  <2>2. ~Returns(i, "none")
    BY StepReturned
  <2>3. QED BY <1>3, <2>1, <2>2 DEF Previewing, BeginPreviews, MakeSheets, SheetsFail, SetPreview, EndPreviews
<1>4. ASSUME NEW i \in Jobs, Begin(i) \/ LockRow(i) \/ WaitEnds(i) \/ Fails(i) \/ Cancel(i) \/ Retry(i) PROVE FALSE
  <2>1. \A run : ~SetRun(i, run) /\ ~SetSaved(i, run)
    BY StepKept
  <2>2. \A state, attempts, payload : ~Leaves(i, state, attempts, payload)
    BY StepKept
  <2>3. job[i] \in JobType /\ job \in [Jobs -> JobType]
    BY DEF Inv, Types
  <2>4. ~Begin(i) /\ ~WaitEnds(i) /\ ~Retry(i)
    BY <2>3 DEF Begin, WaitEnds, Retry, JobType
  <2>5. QED BY <1>4, <2>1, <2>2, <2>4 DEF LockRow, Fails, Cancel
<1>5. ~Crash
  BY JobTyped DEF Crash, JobType
<1>6. QED BY <1>1, <1>2, <1>3, <1>4, <1>5 DEF Next, Works

\* A job that is through with describe has linked every listed upload of its type to the others, whatever else
\* was uploaded, listed or taken off meanwhile (steps/publish.py, describe and full_description).
THEOREM LinksStayCurrent == Spec => LinksAreCurrent
<1>1. ASSUME Inv, [Next]_vars, NEW j \in Jobs, Publishes(j), job[j].step = "describe", job'[j].step = "previews"
      PROVE  Described(j)
  <2>1. Next
    <3>1. job' # job
      BY <1>1
    <3>2. QED BY <1>1, <3>1 DEF vars
  <2>2. (BeginDescribe(j) \/ EndDescribe(j)) /\ Returns(j, "previews")
    BY <1>1, <2>1, DescribeReturns
  <2>3. text' = text
    BY <2>2 DEF BeginDescribe, EndDescribe, Local
  <2>4. CASE EndDescribe(j)
    <3>1. /\ Running(j) /\ Run(j).pc = "describing" /\ Undescribed(j) = {} /\ Live(job[j])
      BY <2>4 DEF EndDescribe, At, Run, Running, Live
    <3>2. /\ Run(j).seen = Entries(Kind[j].type)
          /\ \A e \in Run(j).seen : e.id \in Run(j).tried /\ e.id \in channel =>
               e.id \in DOMAIN text /\ text[e.id] = {<<f.part, f.id>> : f \in {f \in Run(j).seen : f.part # e.part}}
      BY <1>1, <3>1, JobTyped DEF Linking, Run
    <3>3. \A e \in Run(j).seen : e.id \in Run(j).tried
      BY <3>1 DEF Undescribed
    <3>4. QED BY <2>3, <3>2, <3>3 DEF Described
  <2>5. CASE BeginDescribe(j)
    <3>1. CASE Entries(Kind[j].type) = {}
      BY <3>1 DEF Described
    <3>2. CASE Entries(Kind[j].type) # {}
      <4>1. SetRun(j, [Run(j) EXCEPT !.pc = "describing", !.seen = Entries(Kind[j].type)])
        BY <1>1, <2>5, <3>2 DEF BeginDescribe
      <4>2. QED BY <1>1, <4>1, StepKept
    <3>3. QED BY <3>1, <3>2
  <2>6. QED BY <2>2, <2>4, <2>5
<1>2. Inv /\ [Next]_vars =>
        [\A j \in Jobs : Publishes(j) /\ job[j].step = "describe" /\ job'[j].step = "previews" => Described(j)]_vars
  BY <1>1
<1>3. QED BY <1>2, PublishInvariant, PTL DEF Spec, LinksAreCurrent
=============================================================================
