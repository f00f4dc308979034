------------------------------ MODULE MediaFiles ------------------------------
(****************************************************************************)
(* The steps that make a VOD job's files (steps/media.py), on a disk where  *)
(* ffmpeg writes next to a file and renames (ffmpeg.py), with the payload   *)
(* saved now and then, interruptions anywhere, a folder that is deleted     *)
(* between two runs, and settings and censor ranges that change meanwhile.  *)
(*                                                                          *)
(* A file is the stretch of the VOD it shows, whether it is complete, and   *)
(* the edits made to it, in order.                                          *)
(****************************************************************************)
EXTENDS Integers, Sequences, FiniteSets, Functions, SequencesExt

CONSTANTS
  StepsOf,         \* job kind -> its steps that touch files, in order
  Plans,           \* the parts that planning.plan_parts may ask for: <<start, end>> each (bound: at most two)
  Whole,           \* <<0, the VOD's length>>
  None,
  MaxJobs, MaxFaults, MaxEdits   \* bounds

VARIABLES
  disk,     \* path -> [span, whole, edits]
  job,      \* [kind, step, state, plan, saved, mem]; plan: the settings as it started or resumed
  run,      \* the step under way: [at, i, op, done, parts]; op: the ffmpeg command that runs, or None
  settings, \* [plan, ranges]: what the dashboard says now
  history,  \* [censored, plans, uploaded]: what the job's censor step found, split's plans, what was uploaded
  counts    \* [jobs, faults, edits], for the bounds

mediaVars == <<disk, job, run, settings, history, counts>>

Idle == [at |-> "start", i |-> 1, op |-> None, done |-> {}, parts |-> <<>>]
NoPayload == [duration |-> FALSE, mp4 |-> None, parts |-> <<>>, censorFrom |-> None]
NoHistory == [censored |-> FALSE, plans |-> {}, uploaded |-> <<>>]

\* A path is its directory and its name, the name a list of what was done to get it.
Hls == <<"hls", <<>>>>
Mp4 == <<"work", <<>>>>
PartOf(src, n) == <<"parts", Append(src[2], IF n = 1 THEN "part1" ELSE "part2")>>

There(path) == path \in DOMAIN disk
Without(paths) == Restrict(disk, DOMAIN disk \ paths)
With(path, file) == [p \in DOMAIN disk \cup {path} |-> IF p = path THEN file ELSE disk[p]]

Source(payload) == IF payload.mp4 = None THEN Mp4 ELSE payload.mp4

At(step, at) == job.state = "running" /\ StepsOf[job.kind][job.step] = step /\ run.at = at /\ run.op = None

\* The runtime saves the payload with the step that comes next.
Advance(payload) ==
  /\ job' = [job EXCEPT !.step = @ + 1, !.mem = payload, !.saved = payload,
                        !.state = IF job.step = Len(StepsOf[job.kind]) THEN "done" ELSE @]
  /\ run' = Idle

Goto(at) == run' = [run EXCEPT !.at = at, !.op = None]

Fails == job' = [job EXCEPT !.state = "failed", !.mem = job.saved] /\ run' = Idle

----------------------------------------------------------------------------
(* ffmpeg.                                                                  *)

\* The command runs; a missing input is an error.
Ffmpeg(src, out, file(_), then) ==
  IF There(src) THEN run' = [run EXCEPT !.op = [out |-> out, file |-> file(disk[src]), then |-> then]] /\ UNCHANGED job
                ELSE Fails

\* <out>.part is renamed.
Made ==
  /\ job.state = "running" /\ run.op # None
  /\ disk' = With(run.op.out, run.op.file)
  /\ Goto(run.op.then)
  /\ UNCHANGED <<job, settings, history, counts>>

\* Mutant: the command writes to its output from the start.
KilledInPlace == IF run.op = None THEN disk ELSE With(run.op.out, [run.op.file EXCEPT !.whole = FALSE])

\* What a killed command leaves: a .part nobody reads.
Killed == disk

Edited(edit, file) == [file EXCEPT !.edits = Append(@, edit)]
Black(file)    == Edited("black", file)
Mute(file)     == Edited("mute", file)
Cover(file)    == Edited("cover", file)
CensorMute(file) == Edited("censor", file)
Same(file)     == file

----------------------------------------------------------------------------
(* capture, fetch_vod, ensure_source, finalize.                             *)

Capture ==
  /\ At("capture", "start") \/ (At("fetch_vod", "start") /\ ~There(Mp4))
  /\ disk' = With(Hls, [span |-> Whole, whole |-> There(Hls) /\ disk[Hls].whole, edits |-> <<>>])
  /\ Goto("segments")
  /\ UNCHANGED <<job, settings, history, counts>>

Captured ==
  /\ At("capture", "segments") \/ At("fetch_vod", "segments")
  /\ disk' = With(Hls, [span |-> Whole, whole |-> TRUE, edits |-> <<>>])
  /\ Advance(job.mem)
  /\ UNCHANGED <<settings, history, counts>>

HaveSource ==
  /\ At("fetch_vod", "start") /\ There(Mp4)
  /\ Advance(job.mem)
  /\ UNCHANGED <<disk, settings, history, counts>>

EnsureSource ==
  /\ At("ensure_source", "start")
  /\ Advance([job.mem EXCEPT !.duration = There(Mp4)])
  /\ UNCHANGED <<disk, settings, history, counts>>

Finalize ==
  /\ At("finalize", "start")
  /\ IF There(Mp4) /\ job.mem.duration
       THEN Advance([job.mem EXCEPT !.mp4 = None])
       ELSE Ffmpeg(Hls, Mp4, Same, "converted")
  /\ UNCHANGED <<disk, settings, history, counts>>

\* ctx.save, then what the step still does.
Converted ==
  /\ At("finalize", "converted")
  /\ Advance([job.mem EXCEPT !.duration = TRUE, !.mp4 = None])
  /\ UNCHANGED <<disk, settings, history, counts>>

----------------------------------------------------------------------------
(* dmca_edit: a claim to black out and one to mute.                         *)

Targets == IF job.kind = "part_dmca" THEN [i \in DOMAIN job.mem.parts |-> job.mem.parts[i].path]
                                     ELSE <<Source(job.mem)>>
Named(src, dir, name) == <<dir, Append(src[2], name)>>

DmcaBlack ==
  LET src == Targets[run.i]
  IN  /\ At("dmca_edit", "start") /\ run.i <= Len(Targets)
      /\ Ffmpeg(src, Named(src, "dmca", "black"), Black, "black")
      /\ UNCHANGED <<disk, settings, history, counts>>

DmcaMute ==
  LET src == Targets[run.i]
  IN  /\ At("dmca_edit", "black")
      /\ Ffmpeg(Named(src, "dmca", "black"), Named(src, "dmca", "muted"), Mute, "muted")
      /\ UNCHANGED <<disk, settings, history, counts>>

DmcaNext ==
  /\ At("dmca_edit", "muted")
  /\ disk' = Without({Named(Targets[run.i], "dmca", "black")})
  /\ run' = [run EXCEPT !.at = "start", !.i = @ + 1]
  /\ UNCHANGED <<job, settings, history, counts>>

DmcaDone ==
  LET edited(i) == Named(Targets[i], "dmca", "muted")
  IN  /\ At("dmca_edit", "start") /\ run.i > Len(Targets)
      /\ Advance(IF job.kind = "part_dmca"
                 THEN [job.mem EXCEPT !.parts = [i \in DOMAIN @ |-> [@[i] EXCEPT !.path = edited(i)]]]
                 ELSE [job.mem EXCEPT !.mp4 = edited(1), !.parts = <<>>])
      /\ UNCHANGED <<disk, settings, history, counts>>

----------------------------------------------------------------------------
(* censor: ranges to cover and to mute.                                     *)

CensorFrom == IF job.mem.censorFrom = None THEN Source(job.mem) ELSE job.mem.censorFrom

NothingToCensor ==
  /\ At("censor", "start") /\ ~settings.ranges
  /\ Advance(job.mem)
  /\ history' = [history EXCEPT !.censored = FALSE]
  /\ UNCHANGED <<disk, settings, counts>>

Censor ==
  /\ At("censor", "start") /\ settings.ranges
  /\ LET payload == [job.mem EXCEPT !.censorFrom = CensorFrom]
     IN  job' = [job EXCEPT !.mem = payload, !.saved = payload]
  /\ Goto("saved")
  /\ UNCHANGED <<disk, settings, history, counts>>

CensorCover ==
  /\ At("censor", "saved")
  /\ Ffmpeg(job.mem.censorFrom, Named(job.mem.censorFrom, "censor", "covered"), Cover, "covered")
  /\ UNCHANGED <<disk, settings, history, counts>>

CensorSound ==
  LET src == job.mem.censorFrom
  IN  /\ At("censor", "covered")
      /\ Ffmpeg(Named(src, "censor", "covered"), Named(src, "censor", "censored"), CensorMute, "muted")
      /\ UNCHANGED <<disk, settings, history, counts>>

Censored ==
  LET src == job.mem.censorFrom
  IN  /\ At("censor", "muted")
      /\ disk' = Without({Named(src, "censor", "covered")})
      /\ Advance([job.mem EXCEPT !.mp4 = Named(src, "censor", "censored"), !.parts = <<>>])
      /\ history' = [history EXCEPT !.censored = TRUE]
      /\ UNCHANGED <<settings, counts>>

----------------------------------------------------------------------------
(* split.                                                                   *)

\* The parts an earlier run of the step cut: the first n of them are looked at before n is added.
Cut(n) == {p \in run.done : p.number = n}

Entry(n, path) == [number |-> n, span |-> job.plan[n], path |-> path]
SplitNoted == history' = [history EXCEPT !.plans = @ \cup {job.plan}]

\* What an earlier run has cut is looked for once, before the loop.
SplitLooks ==
  /\ At("split", "start")
  /\ run' = [run EXCEPT !.at = "parts", !.done = {p \in ToSet(job.mem.parts) : There(p.path)}]
  /\ UNCHANGED <<disk, job, settings, history, counts>>

SplitKeeps ==
  /\ At("split", "parts") /\ run.i <= Len(job.plan)
  /\ \E p \in Cut(run.i) : run' = [run EXCEPT !.i = @ + 1, !.parts = Append(@, p)]
  /\ SplitNoted
  /\ UNCHANGED <<disk, job, settings, counts>>

\* The payload's list is the one made so far, and is saved.
Listed(path) ==
  LET parts == Append(run.parts, Entry(run.i, path))
      payload == [job.mem EXCEPT !.parts = parts]
  IN  /\ job' = [job EXCEPT !.mem = payload, !.saved = payload]
      /\ run' = [run EXCEPT !.at = "parts", !.i = @ + 1, !.parts = parts]

IsWhole == Len(job.plan) = 1 /\ job.plan[1] = Whole

SplitCuts ==
  LET src == Source(job.mem)
      Clip(file) == [file EXCEPT !.span = job.plan[run.i]]
  IN  /\ At("split", "parts") /\ run.i <= Len(job.plan) /\ Cut(run.i) = {}
      /\ IF IsWhole THEN Listed(src) ELSE Ffmpeg(src, PartOf(src, run.i), Clip, "cut")
      /\ SplitNoted
      /\ UNCHANGED <<disk, settings, counts>>

SplitSaves ==
  /\ At("split", "cut")
  /\ Listed(PartOf(Source(job.mem), run.i))
  /\ UNCHANGED <<disk, settings, history, counts>>

SplitDone ==
  /\ At("split", "parts") /\ run.i > Len(job.plan)
  /\ Advance([job.mem EXCEPT !.parts = run.parts])
  /\ UNCHANGED <<disk, settings, history, counts>>

----------------------------------------------------------------------------
(* upload (Publish models it), cleanup.                                     *)

Upload ==
  /\ At("upload", "start")
  /\ IF \A p \in ToSet(job.mem.parts) : There(p.path)
       THEN /\ Advance(job.mem)
            /\ history' = [history EXCEPT !.uploaded = [i \in DOMAIN job.mem.parts |->
                 [span |-> job.mem.parts[i].span, file |-> disk[job.mem.parts[i].path]]]]
       ELSE Fails /\ UNCHANGED history
  /\ UNCHANGED <<disk, settings, counts>>

Cleanup ==
  /\ At("cleanup", "start")
  /\ disk' = Without({p \in DOMAIN disk : p[1] \in {"parts", "dmca", "censor"}})
  /\ Goto("folders")
  /\ UNCHANGED <<job, settings, history, counts>>

\* keep_hls and keep_mp4.
CleanupRest ==
  \E kept \in SUBSET {Hls, Mp4} :
    /\ At("cleanup", "folders")
    /\ disk' = Without({Hls, Mp4} \ kept)
    /\ Advance(job.mem)
    /\ UNCHANGED <<settings, history, counts>>

----------------------------------------------------------------------------
(* Around the steps.                                                        *)

Start(kind) ==
  /\ job.state \in {"none", "done", "failed", "cancelled"} /\ counts.jobs < MaxJobs
  /\ job' = [kind |-> kind, step |-> 1, state |-> "running", plan |-> settings.plan, saved |-> NoPayload, mem |-> NoPayload]
  /\ run' = Idle /\ history' = NoHistory
  /\ counts' = [counts EXCEPT !.jobs = @ + 1]
  /\ UNCHANGED <<disk, settings>>

\* A crash, a shutdown, a failed attempt or a cancel in the middle of a step; the next run has today's settings.
Interrupt ==
  /\ job.state = "running" /\ counts.faults < MaxFaults
  /\ disk' = Killed
  /\ \E state \in {"running", "failed", "cancelled"} :
       job' = [job EXCEPT !.state = state, !.mem = job.saved, !.plan = settings.plan]
  /\ run' = Idle
  /\ counts' = [counts EXCEPT !.faults = @ + 1]
  /\ UNCHANGED <<settings, history>>

Retry ==
  /\ job.state = "failed"
  /\ job' = [job EXCEPT !.state = "running", !.plan = settings.plan]
  /\ UNCHANGED <<disk, run, settings, history, counts>>

\* storage.delete, of a folder no job is working in.
DeleteFolder ==
  /\ job.state \in {"done", "failed", "cancelled"} /\ disk # <<>> /\ counts.edits < MaxEdits
  /\ disk' = <<>>
  /\ counts' = [counts EXCEPT !.edits = @ + 1]
  /\ UNCHANGED <<job, run, settings, history>>

Change(plan, ranges) ==
  /\ counts.edits < MaxEdits /\ settings # [plan |-> plan, ranges |-> ranges]
  /\ settings' = [plan |-> plan, ranges |-> ranges]
  /\ counts' = [counts EXCEPT !.edits = @ + 1]
  /\ UNCHANGED <<disk, job, run, history>>

----------------------------------------------------------------------------

Init ==
  /\ disk = <<>>
  /\ job = [kind |-> None, step |-> 1, state |-> "none", plan |-> <<>>, saved |-> NoPayload, mem |-> NoPayload]
  /\ run = Idle /\ history = NoHistory
  /\ settings \in [plan : Plans, ranges : BOOLEAN]
  /\ counts = [jobs |-> 0, faults |-> 0, edits |-> 0]

Next ==
  \/ Made \/ Capture \/ Captured \/ HaveSource \/ EnsureSource \/ Finalize \/ Converted
  \/ DmcaBlack \/ DmcaMute \/ DmcaNext \/ DmcaDone
  \/ NothingToCensor \/ Censor \/ CensorCover \/ CensorSound \/ Censored
  \/ SplitLooks \/ SplitKeeps \/ SplitCuts \/ SplitSaves \/ SplitDone \/ Upload \/ Cleanup \/ CleanupRest
  \/ \E kind \in DOMAIN StepsOf : Start(kind)
  \/ Interrupt \/ Retry \/ DeleteFolder
  \/ \E plan \in Plans, ranges \in BOOLEAN : Change(plan, ranges)

Spec == Init /\ [][Next]_mediaVars

----------------------------------------------------------------------------

TypeOK ==
  /\ job.state \in {"none", "running", "done", "failed", "cancelled"}
  /\ \A p \in DOMAIN disk : disk[p].whole \in BOOLEAN
  /\ settings.plan \in Plans

Claims   == IF job.kind \in {"dmca", "part_dmca"} THEN {"black", "mute"} ELSE {}
Covers   == IF history.censored THEN {"cover", "censor"} ELSE {}

\* However often the steps were interrupted, retried and run over what another job left, every part
\* that is uploaded is a complete file of the stretch its entry says, with each edit its job owes it,
\* the censor ranges' and the claims', made exactly once (media.py, "Safe to re-run part-way"); and
\* together they are the parts of the plan, when every run of split had the same one.
UploadsAreRight ==
  /\ \A u \in ToSet(history.uploaded) :
       /\ u.file.whole /\ u.file.span = u.span
       /\ IsInjective(u.file.edits) /\ ToSet(u.file.edits) = Claims \cup Covers
  /\ history.uploaded # <<>> /\ Cardinality(history.plans) = 1 =>
       [i \in DOMAIN history.uploaded |-> history.uploaded[i].span] \in history.plans
=============================================================================
