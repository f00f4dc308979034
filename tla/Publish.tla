------------------------------ MODULE Publish ------------------------------
(****************************************************************************)
(* The steps that put one VOD's parts on YouTube and keep its list of       *)
(* uploads (steps/publish.py, steps/previews.py): upload, describe and      *)
(* previews, of jobs that run next to each other, wait out YouTube's daily  *)
(* limits, fail and are retried, are cancelled, or die with the worker.     *)
(*                                                                          *)
(* A job's payload is in memory while a step runs.  It is saved where the   *)
(* steps save it and when one ends; when a step raises, what the runtime    *)
(* keeps is the one in memory or the one saved.                             *)
(****************************************************************************)
EXTENDS Integers, FiniteSetsExt

CONSTANTS
  Jobs, NoJob,
  Kind,      \* Kind[j]: [type, parts (payload.parts), total, whole, replace, manual, gaps (parts that have some)]
  Settings,  \* [dry_run, youtube_upload, live_record, multi_track, force_upload_manual, previews]
  Listed,    \* vods.youtube at first
  MaxAttempts,   \* max_attempts
  MaxDeferrals,  \* YOUTUBE_MAX_DEFERRALS
  MaxFaults,     \* bound: crashes, failures and cancels in a behaviour
  MaxRetries     \* bound: manual retries

\* An upload is listed once, and a part of a type has one (the uploads there were before are of no job).
ASSUME PublishAssumption ==
  /\ MaxAttempts \in Nat \ {0} /\ MaxDeferrals \in Nat /\ NoJob \notin Jobs
  /\ Kind \in [Jobs -> [type : STRING, parts : SUBSET Nat, total : Nat, whole : BOOLEAN, replace : BOOLEAN,
                       manual : BOOLEAN, gaps : SUBSET Nat]]
  /\ \A j \in Jobs : IsFiniteSet(Kind[j].parts)
  /\ Listed \subseteq [id : {NoJob} \X Nat, type : STRING, part : Nat, gaps : BOOLEAN, preview : BOOLEAN]
  /\ \A e, f \in Listed : e.id = f.id \/ (e.type = f.type /\ e.part = f.part) => e = f

VARIABLES
  list,     \* vods.youtube: a set of [id, type, part, gaps, preview]
  channel,  \* the videos on YouTube
  text,     \* the parts a video's description links to
  held,     \* the job that has the VOD's row locked
  job,      \* jobs, their saved payload, and the running step
  made,     \* uploads of each job so far
  spent     \* what the bounds count

vars == <<list, channel, text, held, job, made, spent>>

NoId      == <<NoJob, 0>>
NoPayload == [uploaded |-> <<>>, begun |-> FALSE, replacing |-> <<>>, removed |-> {}, not_removed |-> {},
              deferrals |-> 0]
RunAt(pc, payload) == [pc |-> pc, mem |-> payload, part |-> 0, id |-> NoId, seen |-> {}, tried |-> {}]
Idle           == RunAt("idle", NoPayload)
Begun(payload) == RunAt("begin", payload)

Init ==
  /\ list = Listed
  /\ channel = {e.id : e \in Listed}
  /\ text = <<>>
  /\ held = NoJob
  /\ job = [j \in Jobs |-> [state |-> "queued", step |-> "upload", waiting |-> FALSE, attempts |-> 0,
                            saved |-> NoPayload, run |-> Idle]]
  /\ made = [j \in Jobs |-> 0]
  /\ spent = [faults |-> 0, retries |-> 0]

Running(j)       == job[j].state = "running"
At(j, step, pc)  == Running(j) /\ job[j].step = step /\ job[j].run.pc = pc
Run(j)           == job[j].run
Mem(j)           == job[j].run.mem
SetRun(j, run)   == job' = [job EXCEPT ![j].run = run]
SetSaved(j, run) == job' = [job EXCEPT ![j].run = run, ![j].saved = run.mem]
Entries(type)    == {e \in list : e.type = type}
\* A function with one value set.
Put(f, k, v)     == [x \in DOMAIN f \cup {k} |-> IF x = k THEN v ELSE f[x]]
Local            == UNCHANGED <<list, channel, text, held, made, spent>>

----------------------------------------------------------------------------
(* The runtime around the steps, a library: one job per VOD and type runs   *)
(* at a time (_lock).                                                       *)

Begin(j) ==
  /\ job[j].state = "queued" /\ ~job[j].waiting
  /\ \A k \in Jobs : Running(k) => Kind[k].type # Kind[j].type
  /\ job' = [job EXCEPT ![j].state = "running", ![j].run = Begun(job[j].saved)]
  /\ Local

Returns(j, next) ==
  job' = [job EXCEPT ![j].state = IF next = "none" THEN "done" ELSE @, ![j].step = next, ![j].saved = Mem(j),
                     ![j].run = IF next = "none" THEN Idle ELSE Begun(Mem(j))]

\* A running step ends without returning; an open transaction ends with it.
Leaves(j, state, attempts, payload) ==
  /\ job' = [job EXCEPT ![j].state = state, ![j].attempts = attempts, ![j].waiting = state = "queued",
                        ![j].saved = payload, ![j].run = Idle]
  /\ held' = IF held = j THEN NoJob ELSE held

Fault == spent.faults < MaxFaults /\ spent' = [spent EXCEPT !.faults = @ + 1]

Fails(j) ==
  /\ Running(j) /\ Fault
  /\ \E payload \in {Mem(j), job[j].saved} :
       Leaves(j, IF job[j].attempts + 1 >= MaxAttempts THEN "failed" ELSE "queued", job[j].attempts + 1, payload)
  /\ UNCHANGED <<list, channel, text, made>>

Cancel(j) ==
  /\ Running(j) /\ Fault
  /\ \E payload \in {Mem(j), job[j].saved} : Leaves(j, "cancelled", job[j].attempts, payload)
  /\ UNCHANGED <<list, channel, text, made>>

\* The worker dies: every running job is where its last save was.
Crash ==
  /\ Fault /\ \E j \in Jobs : Running(j)
  /\ job' = [j \in Jobs |-> IF Running(j) THEN [job[j] EXCEPT !.state = "queued", !.run = Idle] ELSE job[j]]
  /\ held' = NoJob
  /\ UNCHANGED <<list, channel, text, made>>

Retry(j) ==
  /\ job[j].state \in {"failed", "cancelled"}
  /\ spent.retries < MaxRetries /\ spent' = [spent EXCEPT !.retries = @ + 1]
  /\ job' = [job EXCEPT ![j].state = "queued", ![j].attempts = 0]
  /\ UNCHANGED <<list, channel, text, held, made>>

WaitEnds(j) == job[j].waiting /\ job' = [job EXCEPT ![j].waiting = FALSE] /\ Local

----------------------------------------------------------------------------
(* What the settings let a job publish.                                     *)

Forced(j) ==
  /\ Kind[j].type = "vod" /\ Settings.live_record /\ ~Settings.multi_track
  /\ Settings.force_upload_manual /\ Kind[j].manual

Publishes(j) ==
  /\ ~Settings.dry_run /\ Settings.youtube_upload
  /\ Kind[j].type = "vod" /\ Settings.live_record /\ ~Settings.multi_track => Forced(j)

----------------------------------------------------------------------------
(* upload.                                                                  *)

\* Mutant: a run that looks again for what it replaces.
ReplacingNow(j) == [k \in {e.part : e \in Entries(Kind[j].type)} |->
                      (CHOOSE e \in Entries(Kind[j].type) : e.part = k).id]
\* payload.replacing: the uploads listed when the job first came here.
Replacing(j) ==
  IF Mem(j).begun THEN Mem(j).replacing
  ELSE [k \in {e.part : e \in Entries(Kind[j].type)} |-> (CHOOSE e \in Entries(Kind[j].type) : e.part = k).id]

BeginUpload(j) ==
  /\ At(j, "upload", "begin")
  /\ IF ~Publishes(j) THEN Returns(j, "describe")
     ELSE IF Kind[j].replace
     THEN SetRun(j, [Run(j) EXCEPT !.pc = "replace", !.mem.begun = TRUE, !.mem.replacing = Replacing(j)])
     ELSE SetRun(j, [Run(j) EXCEPT !.pc = "parts"])
  /\ Local

SaveReplacing(j) == At(j, "upload", "replace") /\ SetSaved(j, [Run(j) EXCEPT !.pc = "parts"]) /\ Local

Missing(j) == Kind[j].parts \ DOMAIN Mem(j).uploaded

Upload(j) ==
  /\ At(j, "upload", "parts") /\ Missing(j) # {}
  /\ LET id == <<j, made[j] + 1>>
     IN  /\ channel' = channel \cup {id}
         /\ SetRun(j, [Run(j) EXCEPT !.pc = "uploaded", !.part = Min(Missing(j)), !.id = id])
  /\ made' = [made EXCEPT ![j] = @ + 1]
  /\ UNCHANGED <<list, text, held, spent>>

\* Mutant: a wait that does not count.
WaitUncounted(j) == Leaves(j, "queued", job[j].attempts, Mem(j))
\* _wait_for_limit: StepDeferred is not an attempt; StepRefused fails the job.
WaitForLimit(j) ==
  IF Mem(j).deferrals >= MaxDeferrals
  THEN Leaves(j, "failed", job[j].attempts, [Mem(j) EXCEPT !.deferrals = 0])
  ELSE Leaves(j, "queued", job[j].attempts, [Mem(j) EXCEPT !.deferrals = @ + 1])

UploadRefused(j) ==
  /\ At(j, "upload", "parts") /\ Missing(j) # {} /\ WaitForLimit(j)
  /\ UNCHANGED <<list, channel, text, made, spent>>

\* SELECT ... FOR UPDATE: what the job writes back is the list it reads with the lock.
LockedBy == [uploaded |-> "saving", drop |-> "dropping", sheets |-> "setting"]
\* Mutant: a plain SELECT.
LockRowNot(j) ==
  /\ Running(j) /\ Run(j).pc \in DOMAIN LockedBy
  /\ SetRun(j, [Run(j) EXCEPT !.pc = LockedBy[@], !.seen = list])
  /\ UNCHANGED <<list, channel, text, held, made, spent>>
LockRow(j) ==
  /\ Running(j) /\ Run(j).pc \in DOMAIN LockedBy /\ held = NoJob
  /\ SetRun(j, [Run(j) EXCEPT !.pc = LockedBy[@], !.seen = list])
  /\ held' = j
  /\ UNCHANGED <<list, channel, text, made, spent>>

\* A re-upload of a part keeps the gaps of the upload it replaces, unless it has its own.
SavedEntry(j, seen) ==
  [id |-> Run(j).id, type |-> Kind[j].type, part |-> Run(j).part, preview |-> FALSE,
   gaps |-> \/ Run(j).part \in Kind[j].gaps
            \/ \E e \in seen : e.type = Kind[j].type /\ e.part = Run(j).part /\ e.gaps]

\* upsert_youtube_entry.
Upserted(seen, entry) == {e \in seen : ~(e.type = entry.type /\ e.part = entry.part)} \cup {entry}

SaveEntry(j) ==
  /\ At(j, "upload", "saving")
  /\ list' = Upserted(Run(j).seen, SavedEntry(j, Run(j).seen))
  /\ held' = NoJob
  /\ SetRun(j, [Run(j) EXCEPT !.pc = "listed", !.seen = {}])
  /\ UNCHANGED <<channel, text, made, spent>>

\* Mutant: the upload is recorded in memory only.
RecordUnsaved(j) ==
  /\ At(j, "upload", "listed")
  /\ SetRun(j, [Run(j) EXCEPT !.pc = "parts", !.mem.uploaded = Put(@, Run(j).part, Run(j).id), !.mem.deferrals = 0])
  /\ Local
Record(j) ==
  /\ At(j, "upload", "listed")
  /\ SetSaved(j, [Run(j) EXCEPT !.pc = "parts", !.part = 0, !.id = NoId,
                                !.mem.uploaded = Put(@, Run(j).part, Run(j).id), !.mem.deferrals = 0])
  /\ Local

\* The parts whose old upload goes: those uploaded again, and, when that was the whole VOD, the
\* old ones past its new last part.
Stale(j) == {k \in DOMAIN Mem(j).uploaded \cap DOMAIN Mem(j).replacing : Mem(j).replacing[k] # Mem(j).uploaded[k]}
Extra(j) == IF Kind[j].whole /\ Cardinality(DOMAIN Mem(j).uploaded) = Kind[j].total
            THEN {k \in DOMAIN Mem(j).replacing : k > Kind[j].total} ELSE {}

ToDelete(j) == {Mem(j).replacing[k] : k \in Stale(j) \cup Extra(j)} \ (Mem(j).removed \cup Run(j).tried)

\* One after the other, the stale ones first.
NextOld(j) ==
  LET at(K) == {k \in K : Mem(j).replacing[k] \in ToDelete(j)}
  IN  Mem(j).replacing[IF at(Stale(j)) # {} THEN Min(at(Stale(j))) ELSE Min(at(Extra(j)))]

Deleting(j) == At(j, "upload", "parts") /\ Missing(j) = {} /\ ToDelete(j) # {}

Delete(j) ==
  /\ Deleting(j)
  /\ channel' = channel \ {NextOld(j)}
  /\ SetRun(j, [Run(j) EXCEPT !.pc = "gone", !.id = NextOld(j)])
  /\ UNCHANGED <<list, text, held, made, spent>>

RecordDeleted(j) ==
  /\ At(j, "upload", "gone")
  /\ SetSaved(j, [Run(j) EXCEPT !.pc = "parts", !.id = NoId, !.mem.removed = @ \cup {Run(j).id}])
  /\ Local

DeleteFails(j) ==
  /\ Deleting(j)
  /\ SetSaved(j, [Run(j) EXCEPT !.tried = @ \cup {NextOld(j)}, !.mem.not_removed = @ \cup {NextOld(j)}])
  /\ Local

\* Mutant: what was deleted stays listed.
GoneNone(j) == {}
Gone(j) == {Mem(j).replacing[k] : k \in Extra(j)} \cap Mem(j).removed

EndUpload(j) ==
  /\ At(j, "upload", "parts") /\ Missing(j) = {} /\ ToDelete(j) = {}
  /\ IF Gone(j) = {} THEN Returns(j, "describe") ELSE SetRun(j, [Run(j) EXCEPT !.pc = "drop"])
  /\ Local

\* drop_youtube_entries.
Drop(j) ==
  /\ At(j, "upload", "dropping")
  /\ list' = {e \in Run(j).seen : e.id \notin Gone(j)}
  /\ held' = NoJob
  /\ Returns(j, "describe")
  /\ UNCHANGED <<channel, text, made, spent>>

----------------------------------------------------------------------------
(* describe: one call per upload of the type that is listed when it starts. *)

BeginDescribe(j) ==
  /\ At(j, "describe", "begin")
  /\ IF Publishes(j) /\ Entries(Kind[j].type) # {}
     THEN SetRun(j, [Run(j) EXCEPT !.pc = "describing", !.seen = Entries(Kind[j].type)])
     ELSE Returns(j, "previews")
  /\ Local

Undescribed(j) == {e \in Run(j).seen : e.id \notin Run(j).tried}
NextEntry(j)   == CHOOSE e \in Undescribed(j) : \A f \in Undescribed(j) : e.part <= f.part

\* Mutant: links to the parts this job uploaded.
LinksOwn(j, e) == {<<k, Mem(j).uploaded[k]>> : k \in DOMAIN Mem(j).uploaded \ {e.part}}
\* full_description.
Links(j, e) == {<<f.part, f.id>> : f \in {f \in Run(j).seen : f.part # e.part}}

\* A video that is not on YouTube is skipped.
Describe(j) ==
  /\ At(j, "describe", "describing") /\ Undescribed(j) # {}
  /\ LET e == NextEntry(j)
     IN  /\ text' = IF e.id \in channel THEN Put(text, e.id, Links(j, e)) ELSE text
         /\ SetRun(j, [Run(j) EXCEPT !.tried = @ \cup {e.id}])
  /\ UNCHANGED <<list, channel, held, made, spent>>

DescribeRefused(j) ==
  /\ At(j, "describe", "describing") /\ Undescribed(j) # {} /\ WaitForLimit(j)
  /\ UNCHANGED <<list, channel, text, made, spent>>

EndDescribe(j) ==
  /\ At(j, "describe", "describing") /\ Undescribed(j) = {}
  /\ Returns(j, "previews") /\ Local

----------------------------------------------------------------------------
(* previews: sheets for the uploads of this job that have none.             *)

BeginPreviews(j) ==
  /\ At(j, "previews", "begin")
  /\ LET done == {e.id : e \in {e \in list : e.preview}}
     IN  IF Settings.previews /\ ~Settings.dry_run
         THEN SetRun(j, [Run(j) EXCEPT !.pc = "making",
                           !.tried = {k \in DOMAIN Mem(j).uploaded : Mem(j).uploaded[k] \in done}])
         ELSE Returns(j, "none")
  /\ Local

Todo(j) == (Kind[j].parts \cap DOMAIN Mem(j).uploaded) \ Run(j).tried

MakeSheets(j) ==
  /\ At(j, "previews", "making") /\ Todo(j) # {}
  /\ LET k == Min(Todo(j))
     IN  SetRun(j, [Run(j) EXCEPT !.pc = "sheets", !.id = Mem(j).uploaded[k], !.tried = @ \cup {k}])
  /\ Local

SheetsFail(j) ==
  /\ At(j, "previews", "making") /\ Todo(j) # {}
  /\ SetRun(j, [Run(j) EXCEPT !.tried = @ \cup {Min(Todo(j))}])
  /\ Local

\* _set_preview: nothing is written for an upload no longer listed.
SetPreview(j) ==
  /\ At(j, "previews", "setting")
  /\ list' = {IF e.id = Run(j).id THEN [e EXCEPT !.preview = TRUE] ELSE e : e \in Run(j).seen}
  /\ held' = NoJob
  /\ SetRun(j, [Run(j) EXCEPT !.pc = "making", !.id = NoId, !.seen = {}])
  /\ UNCHANGED <<channel, text, made, spent>>

EndPreviews(j) ==
  /\ At(j, "previews", "making") /\ Todo(j) = {}
  /\ Returns(j, "none") /\ Local

----------------------------------------------------------------------------
Uploading(j) ==
  \/ BeginUpload(j) \/ SaveReplacing(j) \/ Upload(j) \/ UploadRefused(j) \/ SaveEntry(j) \/ Record(j)
  \/ Delete(j) \/ RecordDeleted(j) \/ DeleteFails(j) \/ EndUpload(j) \/ Drop(j)
Describing(j) == BeginDescribe(j) \/ Describe(j) \/ DescribeRefused(j) \/ EndDescribe(j)
Previewing(j) == BeginPreviews(j) \/ MakeSheets(j) \/ SheetsFail(j) \/ SetPreview(j) \/ EndPreviews(j)

Works(j) == Begin(j) \/ Uploading(j) \/ LockRow(j) \/ Describing(j) \/ Previewing(j)

Next == (\E j \in Jobs : Works(j) \/ WaitEnds(j) \/ Fails(j) \/ Cancel(j) \/ Retry(j)) \/ Crash

\* The runtime starts what is due, calls to YouTube are answered (with a refusal, perhaps every
\* time), transactions commit, and waits pass; nothing is assumed of faults and retries.
Progress(j) ==
  \/ job[j].state = "queued" /\ (Begin(j) \/ WaitEnds(j))
  \/ Running(j) /\ (\/ job[j].step = "upload" /\ Uploading(j)
                    \/ job[j].step = "describe" /\ Describing(j)
                    \/ job[j].step = "previews" /\ Previewing(j)
                    \/ LockRow(j))
Fairness == \A j \in Jobs : WF_vars(Progress(j))

Spec     == Init /\ [][Next]_vars
FairSpec == Spec /\ Fairness

----------------------------------------------------------------------------
(* Properties                                                               *)

Ids == {e.id : e \in Listed} \cup (Jobs \X (1..(2 * MaxFaults + 4)))
Parts == UNION {Kind[j].parts : j \in Jobs} \cup {e.part : e \in Listed}

\* Fault counts stay in their bounds, and a job has waited for a limit YOUTUBE_MAX_DEFERRALS
\* times at most since its last upload.
TypeOK ==
  /\ \A e \in list : e.id \in Ids /\ e.part \in Parts /\ {e.gaps, e.preview} \subseteq BOOLEAN
  /\ channel \subseteq Ids /\ DOMAIN text \subseteq Ids /\ held \in Jobs \cup {NoJob}
  /\ \A j \in Jobs :
       /\ job[j].state \in {"queued", "running", "failed", "cancelled", "done"}
       /\ job[j].attempts \in 0..MaxAttempts
       /\ \A payload \in {Mem(j), job[j].saved} :
            /\ DOMAIN payload.uploaded \subseteq Kind[j].parts
            /\ payload.removed \cup payload.not_removed \subseteq Ids
            /\ payload.deferrals \in 0..MaxDeferrals

\* "the VOD always has its uploads" (README.md): every listed upload is on YouTube, but for old
\* parts past the last of a re-archive that is still to take them off or reports them.
Leaving == UNION {{job[j].saved.replacing[k] : k \in {k \in DOMAIN job[j].saved.replacing : k > Kind[j].total}} :
                  j \in {j \in Jobs : job[j].step = "upload"}}
Reported == UNION {job[j].saved.not_removed : j \in Jobs}
ListedIsThere == \A e \in list : e.id \in channel \cup Leaving \cup Reported

\* No step writes over what another one saved: an upload leaves the list only for the same part
\* uploaded again, which keeps its gaps, or once it is off YouTube, and keeps its preview and gaps until then.
EntryKept(e, after) ==
  \/ e.id \notin channel
  \/ \E f \in after : /\ f.type = e.type /\ f.part = e.part
                      /\ e.gaps => f.gaps
                      /\ f.id = e.id => (e.preview => f.preview)
                      /\ f.id # e.id => f.id \notin {g.id : g \in list}
NoEntryLost == [][\A e \in list : EntryKept(e, list')]_list

\* "It resumes with the parts not yet uploaded" (README.md): a job uploads a part again only
\* after a fault between the upload and its record.
UploadedOnce == \A j \in Jobs : made[j] <= Cardinality(Kind[j].parts) + spent.faults

\* "Each new part is uploaded first, then the upload it replaces is deleted from YouTube"
\* (README.md): when all jobs are done, the videos on YouTube are those listed, those YouTube
\* refused to delete, and per job one for each fault that came before an upload was recorded.
AllDone  == \A j \in Jobs : job[j].state = "done"
Stray    == channel \ ({e.id : e \in list} \cup Reported)
NothingStray == AllDone => \A j \in Jobs \cup {NoJob} : Cardinality({id \in Stray : id[1] = j})
                                                       <= IF j = NoJob THEN 0 ELSE spent.faults

\* A job that is through with describe leaves every listed upload of its type linked to exactly
\* the other listed parts.
Described(j) ==
  \A e \in Entries(Kind[j].type) :
    e.id \in channel => e.id \in DOMAIN text'
                        /\ text'[e.id] = {<<f.part, f.id>> : f \in {f \in Entries(Kind[j].type) : f.part # e.part}}
LinksAreCurrent ==
  [][\A j \in Jobs : Publishes(j) /\ job[j].step = "describe" /\ job'[j].step = "previews" => Described(j)]_vars

\* However often YouTube refuses, each job ends.
UploadsSettle == \A j \in Jobs : <>[](job[j].state \in {"done", "failed", "cancelled"})

=============================================================================
