# Twitch archive: specifications

TLA+ models of twitch-archive, a worker that records Twitch streams and VODs,
publishes them to YouTube and keeps a Postgres archive, and the API that serves
it. The models are checked with TLC on small instances (`*.cfg`); theorems about
them, for every value of their constants, are checked with TLAPS.

Paths below are relative to the repository; `W/` is
`services/worker/archive_worker/`, `A/` is `services/api/archive_api/` and `C/`
is `packages/common/archive_common/`.

## 1. The system

One asyncio process, the worker, does everything that changes the archive; a
second process, the public API, reads it. They share a Postgres database. The
worker's tasks interleave at every `await`: the stream monitor, the job runner
and its jobs, the admin API's requests, the event buffer. A deployment stops the
worker with a signal at any moment and a crash needs no signal.

| component | code | state it keeps | operations | what is hard |
|---|---|---|---|---|
| Legacy job runner | `W/legacy_jobs.py` | rows of `jobs`; `Runner.running`; one task per job | claim, run steps, checkpoint, fail, interrupt, recover; admin retry, pause, resume, control, cancel | tasks cancelled inside a write, admin requests that read in one await and write in another, crashes |
| Worker process | `W/main.py` | its tasks | start, ordered shutdown | cancellation in the middle of a pick |
| Job service, kinds | `W/jobs.py`, `W/job_rows.py` | jobs of the new runtime and the legacy table | enqueue once, control both | check-then-enqueue over two stores |
| Stream monitor | `W/monitor.py` | the `streams` rows and which is live | tick every 30 s: start a recording, an archive job, the bot's chat of an ended stream | look-then-enqueue against admin requests, a stream without a VOD yet, a restart in the middle of one |
| Capture, live recording | `W/steps/capture.py`, `W/hls.py` | segment files, `segments.jsonl`, last sequence in the job | download what a playlist lists, append, resume | crash between a file, its journal line and the saved sequence; playlists that slide |
| Media steps | `W/steps/media.py`, `W/ffmpeg.py` | files of a job, what the payload says of them | finalize, cover, mute, split, cleanup | half-written outputs, an edit made twice, files an earlier job left |
| Publishing | `W/steps/publish.py`, `W/youtube.py`, `W/youtube_quota.py` | `vods.youtube`, the job's `uploaded`, `replacing`, deferrals; the channel | upload a part, record it, delete what it replaces, describe, wait out limits | crash between upload and record, two jobs that write one list, the daily limit |
| YouTube account | `W/youtube.py`, `W/youtube_check.py` | token in `app_state` | authorize, refresh, keepalive | a refresh that ends after a new authorization |
| Merge and split | `W/splices.py`, `W/vods.py` | `vods.merged_into`, `vod_splices` and what they recorded, chat and games | merge, unmerge, split, unsplit | undo in any order, chained splices, ids that come back, jobs queued meanwhile |
| Timelines of parts | `W/timeline.py` | none: pure numbers | cut, shift, renumber, map times | boundaries, gaps, trims |
| Synthetic VODs | `W/synthetic.py`, `W/compose.py`, `C/segments.py`, `W/api_v2_routes.py` | windows of other VODs, columns derived from them | create, change, remove, split in two, recompose | cover counted twice, a composition that is stale and not known to be, half a split |
| Planning of parts | `W/planning.py` | none: pure | parts, restricted chapters, mutes, titles | boundaries |
| Metadata, chat, bot chat | `W/steps/metadata.py`, `W/steps/bot_chat.py`, `W/doomtp.py` | `logs`, `bot_logs`, chapters | page, resume, merge what is read again | a page lost or repeated after a failure, two reads of one VOD at once |
| Previews | `W/steps/previews.py` | preview fields in `vods.youtube` | make, write | the list changes while ffmpeg runs |
| Storage | `W/storage.py` | folders, the trash, a cached scan | list, delete | deletion next to a job that begins, a restart while the trash is emptied |
| Admin API | `W/admin.py`, `W/api_v2*.py`, `W/vod_edits.py` | none of its own | edits of a VOD, deletion of uploads, requests of the other components | a check and a write in two transactions, a request that ends half done |
| Admin sign-in | `W/admin_auth.py`, `W/admin_signin.py` | sessions, sign-ins under way, failed logins per address | sign in, check at vex-auth, sign out, limit | an answer older than a logout; logins that fail side by side |
| Runtime settings | `W/runtime_settings.py` | overrides in a table, the settings in memory | change, reset, load | the running value and the saved one |
| Job events | `W/events.py` | buffer of lines, rows | add, flush, prune, poll | numbers given out before a commit, loss around a flush |
| Public API | `A/*.py` | caches | query, invalidate, page comments, limit | an answer computed before an invalidation and cached after |
| Site tags | `W/site_tags.py`, `C/site_tags.py` | the list of tags, shapes | save, set a shape | the first save has no row to lock |
| Viewer's account | `W/twitch_viewer.py` | a token in `app_state` and a cache | link, unlink, refresh | a refresh that ends after an unlink |
| Emotes, SVG | `W/svg_clean.py`, `C/emote_providers.py` | none | conversions | none |
| Shared package | `C/*.py`, `migrations/` | the tables | definitions and clients | none |

How they interact: the monitor enqueues jobs; the runner executes the steps of
capture, media, metadata and publish, which write one `vods` row under a row
lock; the admin API enqueues and controls jobs, splices and composes VODs, and
deletes files. Splices refuse VODs with an active job and jobs refuse VODs that
were merged away, each check in its own transaction. The public API only reads.

What makes each correct:

* runner: one task per VOD and type; the row always says where to resume; no
  step is skipped; every job settles;
* publishing: every uploaded part is recorded, nothing recorded is missing from
  the channel, a replaced upload is deleted only after its replacement is
  recorded, a finished job has one upload per part;
* splices: an undo restores what the splice changed and nothing else, redirects
  lead in one hop to a VOD that exists, chat is never lost or shown twice;
* capture: a restart neither loses a segment that is on disk nor records one
  twice, and order in the file is the stream's;
* synthetic VODs: a moment is superseded at most once, a composition shows what
  its sources do or is known to be stale, and is never made of itself;
* media files: an uploaded part is complete, the stretch its entry says, and
  edited exactly once;
* chat: a download that ends has all of it, and a viewer's pages skip nothing;
* sessions, settings, tokens, caches: an older value never replaces a newer one;
* deletes: they take no later job's files, and what they took off is gone.

## 2. The modules

| module | models | run |
|---|---|---|
| `JobRunner`, `DurableJob` | the runner, admin requests, shutdown and crash; what it promises | `runner_safety`, `runner_settles` |
| `Timeline` | the pure numbers of `timeline.py` | `timeline_plans` |
| `Planning` | those of `planning.py`, over `Timeline` | `timeline_plans` |
| `Compose` | those of `compose.py` and `segments.py`, over `Timeline` | `timeline_plans` |
| `Splices` | merge, split and their undo over `Timeline`'s plans, with chat, edits and jobs | `splices_undo`, `splices_refetch_race` |
| `Publish` | upload, describe and previews of the jobs of one VOD, the channel and the row | `publish_parts`, `publish_two_rearchives` |
| `LiveRecord`, `VodCapture` | playlists, segments, the journal, restarts | `capture_both`, `capture_crash` |
| `Synthetic`, `SplitRoute` | synthetic VODs as transactions over `Compose`; the request that makes two | `services`, `synthetic_edit_lost` |
| `YouTubeAccount`, `YouTubeQuota`, `ViewerAccount` | tokens and the day's units | `services` |
| `ApiCache`, `Chat`, `BotChat` | the API's cache; the chat, its pages, the bot's log | `services` |
| `MediaFiles`, `UploadRemoval`, `UploadCheck` | the files of a VOD's jobs; uploads deleted by hand; their check | `services`, `check_gap_units` |
| `StreamJobs` | the monitor | `services` |
| `SignIn`, `LoginLimit`, `Settings`, `SiteTags`, `JobLog`, `FolderStorage`, `VodEdits` | the dashboard | `services` |
| `JobRunnerProofs`, `SplicesProofs`, `PublishProofs`, `CaptureProofs` | theorems of those modules | |
| `AccountsProofs`, `DashboardProofs`, `VideosProofs`, `ServicesProofs` | theorems of the modules of `MCServices`, and of their union | |

`MCJobRunner`, `MCTimeline` (with `MCPlanning` and `MCCompose`), `MCSplices`,
`MCPublish`, `MCCapture` and `MCServices` give constants their values.

What is left, in order: proofs about the modules of `MCServices` that have none
(section 9 names them); `Splices` and `Publish` together, for a re-archive
of a VOD that was merged since; privacy of uploads; the backfills of gaps and
previews.

## 3. The job runner (`JobRunner`, `DurableJob`, `JobRunnerProofs`)

### State and actions

| variable | in the code |
|---|---|
| `row` | a row of `jobs`: `state`, `step` (0 is NULL), `attempts`, `waiting` (`not_before` lies ahead), `pauseNext` (`pause_next`), `own` (`pause_before`, `Inherit` for NULL), `known` (`vod_id` is set) |
| `task` | the asyncio tasks that run `Runner._run`, with where each is (`pc`) and the columns of the Job object it holds |
| `running` | `Runner.running` |
| `claim` | a Job that `_claim` committed and `_fill` has not yet turned into a task |
| `mode`, `awaited` | the process around `Runner.shutdown` in `serve` |
| `call` | an admin request between reading a row and writing it |
| `spent` | bounds on admin requests, stops and failing writes |

| action | code |
|---|---|
| `Claim`, `Register` | `_fill`: the pick in its transaction (`_claim`), then the task for it |
| `Start`, `ResolveVod`, `StepReturns` | `_run` up to the end of a step; `resolve_vod` is the step of a live job that finds its VOD |
| `Checkpoint`, `MoveOn` | `_advance`: its transaction, then what `_run` does with the answer |
| `Finish`, `FinishReturns` | the write of `done` |
| `StepRaises`, `WriteRaises`, `RecordFailure` | `except Exception`: retry after a backoff, or `failed` |
| `RecordInterrupt` | `except CancelledError`: queued again, or cancelled |
| `RecordRaises` | a handler's own write fails |
| `Done` | the done callback |
| `BackoffEnds` | `not_before` passes |
| `ReadRow`, `WriteRow`, `CancelTask` | `retry`, `pause`, `resume`, `set_control`, `Runner.cancel`: read in one await, write in another |
| `Stop`, `LoopStops`, `Exit`, `Crash`, `Boot` | `Runner.shutdown`, the rest of `serve`'s end, a kill, and `recover` at the next start |

An await on a write is two points, before and after its commit, and a task can
be cancelled at either: `checkpoint` and `moved`, `finish` and `finished`.

What is simplified: `cancelling`, the set that tells a cancelled job from one
that a shutdown interrupts, is read by the handler as the value it had when the
task was cancelled (`to`); a second cancellation of a task that is already
writing its interruption changes nothing; `recover` is one step with the start;
a job of an unknown kind, `skip_locked` (there is one runner) and the events a
job logs are left out. `manual_steps` does not change during a run, and a task
uses the `pause_before` its claim read, as the code does (its sessions do not
expire objects on commit). A step is opaque: it returns, raises or is cancelled.

### What it promises: `DurableJob`

A job is at a step and is worked on or not. Work on it begins only while no job
of its key is worked on; steps pass one at a time, in order; workers may leave
at any point; it is back at the first step only past the last. `JobRunner`
implements it with `at[j]` the step `row[j]` would resume at and `working[j]`
that `j` has a task that is not over. No outcome of an admin request, a shutdown or
a crash is visible there: that is the point.

### Runs

| run | instance | shows |
|---|---|---|
| `runner_safety` | two jobs of one VOD, 3 steps, 2 requests of all six kinds by one caller, 1 stop, 1 failing write | `OneTaskPerKey`, `CrashResumesHere`, `ImplementsDurableJob` |
| `runner_settles` | `FairSpec`; a job and a live job, 2 steps, 2 attempts, 1 request, 1 stop | `EveryJobSettles` |

The bounds: two jobs that share a key are what exclusion needs, with a task
each. Three steps tell a middle step from the first and the last. Two requests
let one act on what the other changed. One stop is enough because `Boot` leaves
a state that is, but for `spent`, one that can be reached without it. `PickLimit`
is 1 so that a pick can be filled with a job whose key is busy. Deadlock is not checked: with every job
settled and the bounds used up, nothing is left to do.

Fairness (`FairSpec`): per task, because each wait in a step is bounded by a
timeout of its client; of the pick, because the loop wakes every ten seconds;
of a backoff, because it is a time; of the shutdown's end and of the next start,
because the container's restart policy brings the worker back. No admin request,
stop or failing write is ever assumed to happen. `runner_settles` uses no failing
handler: a row whose outcome could not be written stays `running` until the next
start, which nothing promises. The same holds of a `cancel` that finds the task created and not begun: its body
never runs, so nothing writes `cancelled` and the row stays `running` until the
next start; `Ops` of that run leaves `cancel` out for it.

### Proofs (`JobRunnerProofs`)

For all jobs, steps, callers, limits and gates, under the module's assumptions:

* `TypeCorrect`: `Spec => []TypeOK`;
* `Exclusion`, `CrashSafe` and `Implements`, for `OneTaskPerKey`,
  `CrashResumesHere` and `ImplementsDurableJob`, with any `Late`.

The three are about `WithVod`, the jobs that were queued with their VOD; those in
`Late`, the live jobs, run beside them and do all the model has them do. Of a live
job none of the three holds, as the code stands. It is claimed under its own id
and learns its VOD as it runs, so two of one VOD do run together (`_exclusive_key`
goes by what the row knows). And it can run twice: once its row has the VOD
its key is another than the one its task is registered under, a `retry` by an
admin queues it again in whatever state it is (legacy_jobs.py:50), the claim
looks only for busy keys (203), and the second task takes the first one's place in
the registry (184). TLC finds that with `Late = {2}`, where `CrashResumesHere` of
all jobs fails. Of `WithVod` all three hold on an instance of two jobs with their
VOD and a live one that TLC exhausts (two steps, one request, no failing write).
The run has no live job: exclusion takes two jobs with their VOD, and a third makes
three steps and a failing write too many; the proof has any number of each.

None of the three is inductive. `SafeInv` is: besides the types it says, of the
jobs in `WithVod`, that every row knows its VOD (`KnownVods`), that the registry
and the active tasks agree (`Owned`: an active task of such a job is its
registered task, `OneLive`: two active tasks never share the key of one), that a
claim about to be registered was made
while its key was free and its row still says so (`ClaimOK`), and, per point of
a task, where its row is (`Places`, with one clause per `pc`). Admin requests
disturb none of it because they never touch `step` (`RowsStaySafe`), and
cancellations because a cancelled task keeps its row's place (`CancelSome`,
`CancelSafe`). `SafeStep` has a step per action; `Implements` then maps every
action to `Begin`, `Pass`, `Leave` or a stutter of `DurableJob`. The invariant
was checked with TLC on the instance of `runner_safety` before it was proved.

Liveness (`EveryJobSettles`) is only model-checked: it needs fairness and
`ENABLED`, which the prover does not handle.

## 4. Timelines, planning, compositions (`Timeline`, `Planning`, `Compose`)

`timeline.py` has no state: `Timeline` has an operator for each of its
functions.

| operator | code |
|---|---|
| `Cuts`, `Until`, `From`, `Shift`, `GapChapter` | `cuts`, `clip` with an open end on either side (its two uses), `shift`, `gap_chapter` |
| `UploadTypes`, `PlayedType`, `Parts`, `Renumber` | `upload_types`, `played_type`, `parts`, `renumber` |
| `Laid`, `Delay`, `Holes`, `VodTime`, `EndTime`, `PartSpans`, `SplitIntervals` | the class `Timeline`; `EndTime` is `vod_time(ending=True)` |
| `CanMerge`, `JoinOf`, `PlanMerge` | `plan_merge`: what it refuses, the span of the gap chapter, the plan |
| `SideIntervals`, `CanSplit`, `FirstParts`, `SecondUploads`, `PlanSplit` | `split_intervals`, `plan_split` |

What is simplified: a time is a whole number of half seconds, exact, so `EPS` is
zero; a VOD's length, the offset of a merge and a split point are whole seconds
as in the code. Chapters and uploads are sets: chapters do not overlap
(`vod_edits.chapters` refuses those that do) and uploads of a type have distinct
part numbers. Names of games, drive entries and the numbers shown to the admin
are left out.

### Planning of parts: `Planning`

`ChaptersFromMoments` (the chapters of a VOD), `PlanParts` (what is cut into
which upload), `RecordingTimeline` and `RecordingTime` (where a live recording
lies on the VOD), `PartGaps` (`recording_gaps`: what each part misses, as the
site reads it), `PlanCensor` and `CensorOnRecording` have the names of the
functions. Wall-clock time is counted from `created_at`. A recording is three
segments, the middle one possibly without a time of its own, with a hole before
any of them; chapters are a game and a restricted one at either end.

### Compositions: `Compose`

`Resolve`, `Derive`, `Flatten`, `Levels` and `GameWindows` are `compose.py`'s and
`segments.py`'s functions of the same names; `MergeSegments` and `SplitSegments`
make the windows of the routes that merge and split. A source may have become
longer or shorter since the segments were checked. `Resolve` is a fold over
segments; nothing is `RECURSIVE`.

### Run `timeline_plans`

`MCTimeline` is a small machine that plans; a state is the operation just
planned, with what went in and what came out: every merge of two sides, every split, every
split of a merge; every archive; every pair of censored ranges; every synthetic
VOD made of a synthetic VOD. Sides are VODs of four seconds with at most two
cuts, at most two parts of the played type, one with a gap, and one of the other
type: a cut at each place where one comparison decides (a part's end, a gap,
either end of the VOD), an upload that is not whole seconds, a split point half
a second off.

* `FramesStay`: a frame keeps its place through a split, and through a merge,
  or takes the place `plan_merge` promises the source's. `vod_time`, which walks
  over a list of holes, is compared with the definition of a frame's place. The
  type that is not played may drift in a merge; the code warns of it.
* `PartsPlayAll`: every moment outside the restricted chapters is in one part,
  none inside them in any.
* `RecordingPlaysInPlace`: with the gaps `recording_gaps` writes, the site puts
  every frame of a live recording where it was live.
* `CensorCovers`: on a recording, the frames of the censored ranges are covered,
  black over blur, and no others.
* `ComposedShows`: the cached chapters of a composition, and what its flattened
  windows play, agree at every moment.

Sides where a frame would have no place (uploads longer than the VOD) are not
enumerated (`Sound`), nor recordings longer than their VOD. Deadlock is not
checked in this run and the next ones: an operation planned, or bounds used up,
leave nothing to do.

## 5. Merging and splitting (`Splices`, `MCSplices`, `SplicesProofs`)

| variable | in the code |
|---|---|
| `vods` | rows of `vods` and `emotes`: start, title, side (duration, chapters, uploads), `chapters_locked`, emote names, `merged_into` |
| `chat`, `games` | where each row of `logs`/`bot_logs` and of `games` is |
| `splices` | `vod_splices` with the snapshot and the member tables |
| `call` | an admin's request: which splice it picked, which rows it has locked |
| `job` | a refetching job: its check passed, its row inserted, its step fetching |
| `edit`, `edits` | an edit between its check and its write; their number |

| action | code |
|---|---|
| `MergeChecks`, `MergeCommits` | `merge` up to its plan, and its writes |
| `SplitChecks`, `SplitCommits`, `SplitAtJoin` | `split`; at a join it undoes the merge |
| `PickUndo`, `UndoChecks`, `UndoCommits` | `unmerge`, `unsplit`: the splice is read, then rows are locked and checked (`_undo`), then written |
| `AskEdit`, `SaveEdit` | `patch_vod` with a title |
| `AskJob`, `InsertJob` | `enqueue` in `admin.py`: `refuse_spliced` and the insert |
| `StartStep`, `WriteStep` | the `chapters` step: `refuse_if_spliced`, and its write after the answers of Twitch |

The database runs transactions at READ COMMITTED, the default: a request sees
what others committed, holds its row locks until its end, and nobody sees its
writes before. Locks and the checks that follow them are one step, so two
requests that each wait for the other are not in the model (`_repoint`,
splices.py:250, locks redirected VODs after the others). A VOD's id is a sequence, `<<1>>` and its half `<<1, 2>>`, so that
`FreeId` finds the lowest free number as the code does, also after a half is gone.
Deletion of VODs, censor ranges (they only refuse), drive entries, thumbnails,
the numbering of bot chat and the notices to the API are left out. An edit of
the duration or the chapters is not modelled: it moves frames by itself.

`UndoLeavesNoTrace` is the module's abstract specification: a fold of the
splices that are not undone, over where everything was archived, gives where
everything is. Comments and games must be there, `merged_into` must say it, the
halves that exist must be those of active splits, and a VOD nobody touches any
more must have its uploads, length and emotes back. `ChatKeepsSync` ties the
chat to `Timeline`: how far into which upload a comment was said never changes.

| run | instance | shows |
|---|---|---|
| `splices_undo` | three VODs with a delay, a cut and a gap between them, late chat after an end, two per-game uploads; 2 admins, 3 splices, an edit of VOD 2, a refetch of VOD 3 | `UndoLeavesNoTrace`, `ChatKeepsSync`, `EditsKept` |
| `splices_refetch_race` | 1 admin, 1 merge, a refetch of VOD 1 | finding: `ChatKeepsSync` fails |

The bounds: three splices allow a chain of two merges and a split of the result,
and every order of undoing them, with ids that come back. Two admins are
enough for a request to land inside another. In `splices_undo` undos are not
forced and the refetch is of the VOD that is never a merge's target, which
leaves out what section 10 says of forced undos and what the finding shows.

Finding `splices_refetch_race`: a merge looks for active jobs in its transaction, a
job looks for splices in its own; a job that is inserted and started between
the look and the commit overwrites the merged chapters (context.py:193,
splices.py:6).

### Proofs (`SplicesProofs`)

For all VODs, comments, games, callers, jobs and bounds, forced undos included,
under `SplicesAssumption` (what was archived has positions and lengths in whole
numbers, on VODs that exist):

* `LocksHold`: `Spec => []LockInv`;
* `EditsAreKept`: `Spec => EditsKept`;
* `UndoesLeaveNoTrace`: `Spec /\ []UndoesOnce => []UndoLeavesNoTrace`.

`LockInv` is what a request made sure of and its locks keep so until it writes:
the locks of two requests are disjoint (`Exclusive`); a merge's VODs are there
and merged into none (`MergeOK`), so is a split's, with the cut inside it
(`SplitOK`); of an undo, no later splice touches its VODs, and unless it is forced
they have the titles the splice left (`UndoOK`). The writes of another request
keep it because they need locks of their own on every row they touch, the
redirects they move included (`Unheld`).

`UndoLeavesNoTrace` is not inductive: an undo puts rows back from what the splice
recorded, so the proof has to know what that was. A `Trail` is where a place is
after each splice. `HistInv` says, of the splices that are not undone, that

* their VODs were there as VODs of their own, a half's id new (`Rooted`);
* what each recorded as moved (members, games, redirects) is what its step of the
  trails moved (`Recorded`);
* everything is at the end of its trail, redirects are one hop to a VOD that is
  merged into none, and the halves that exist are those of the splits (`Placed`);
* each found a VOD's length and uploads as the one before on it had left them, or
  as they were archived (`Chained`), and likewise for emotes (`Emotes`).

The argument has two lemmas at its core. A new splice lengthens every trail by one step
(`Extends`, for a merge and a split alike). An undo is of a splice that no later
one touches, so whatever it moved has stayed where it put it, and without it the
trails are the ones before (`TrailUndone`, `Undoes`): that is why `_blocker`
must look at both VODs of a splice. Trails are recursive functions over the
sequence of splices; that two of them agree up to some point is shown with a least
point at which they would not (`Upwards`), because the induction theorems of the
library are out of reach.

`UndoesOnce` says that an undo that was let through finds its splice not undone.
The code does not see to it: `_undo` (splices.py:366) never looks at `undone_at`
again after its splice was read in another transaction. It cannot be dropped. TLC
finds a trace without any force in 12 steps: VOD 1 is split, VOD 2 is merged
onto its first half, two undos pick the merge, one undoes it, the split is
undone too, and now VOD 1 looks exactly as the merge had left it, so that the second
undo of the merge is let through. (It needs a length that comes out the same;
with force any two undos of one splice do.) `splices_undo` has no such lengths and no force,
so it checks `UndoLeavesNoTrace` without the hypothesis. The invariants `LockInv` and
`HistInv` were checked with TLC before they were proved, with forced undos
and `UndoesOnce` as a constraint.

`ChatKeepsSync` is only model-checked: it rests on the folds of `Timeline`.

## 6. Publishing (`Publish`, `MCPublish`, `PublishProofs`)

One VOD, its list of uploads, and the jobs that publish it: from the moment a
job's parts are cut to the end of its previews. Jobs of different VODs share
nothing here.

| variable | in the code |
|---|---|
| `list` | `vods.youtube`; of an entry its id, type, part, and whether it has gaps and a preview |
| `channel`, `text` | the videos YouTube has, and the parts each description links to |
| `held` | whose transaction has the VOD's row locked |
| `job` | state, step, attempts and payload as saved; in `run` where the step is, the payload in memory (`mem`), the list it read (`seen`) and what it is done with (`tried`) |
| `made`, `spent` | uploads a job made; bounds |

| action | code |
|---|---|
| `BeginUpload`, `SaveReplacing` | `upload` up to its loop |
| `Upload`, `LockRow`, `SaveEntry`, `Record` | a part: the call, `_save_entry`'s read under the lock and its commit, the save of the payload |
| `UploadRefused`, `DescribeRefused` | `_wait_for_limit` |
| `Delete`, `RecordDeleted`, `DeleteFails` | `_delete_replaced` |
| `EndUpload`, `Drop` | the old parts past the new last one: `drop_youtube_entries` |
| `BeginDescribe`, `Describe`, `EndDescribe` | `describe`: the list is read once |
| `BeginPreviews`, `MakeSheets`, `SheetsFail`, `SetPreview`, `EndPreviews` | `previews` |
| `Begin`, `WaitEnds`, `Fails`, `Cancel`, `Crash`, `Retry` | the runtime around the steps |

The runtime is a library outside the repository, modelled by what the steps and
`jobs.py` say of it: one job per lock, a payload saved on request and at the end
of a step, StepDeferred a wait that is no attempt, StepRefused a failure, a dead
worker's jobs queued as last saved. What it keeps of a payload when a step fails
is not visible here, so both the one in memory and the saved one are possible;
what it keeps of a deferred or refused step is the one in memory, without which
`_wait_for_limit` could not count.

Simplified: an upload is one step with YouTube's answer (its chunks are resumed
inside the call); how long a video is, its title, privacy and thumbnail are left
out, chapters in descriptions too. A settings change during a job does not reach
it (context.py), so `Settings` is a constant. YouTube may refuse any upload or
description for a limit, at any time and forever.

| run | instance | shows |
|---|---|---|
| `publish_parts` | a live job of two parts with gaps, a forced re-archive of the VOD copy from two parts to one; 1 deferral, 1 fault at any point, 1 retry, 1 attempt | all of the module's properties |
| `publish_two_rearchives` | two re-archives of the VOD copy, no faults | finding: `NothingStray` fails |

The instance has the settings under which a VOD copy is only uploaded because it
is forced. Two types are what shares a list without sharing a lock; two old parts
and one new give a part that is replaced and one that is left over. One deferral
stands for three, only "counted or not" matters. A crash takes both jobs down.

* `ListedIsThere`, `NothingStray`: list and channel agree, in both directions,
  with the exceptions the code documents: leftover parts of a re-archive under
  way, deletions reported in `not_removed`, and one lost video per fault and job.
* `NoEntryLost`: what one job saves in the list no other job's write undoes.
* `UploadedOnce`: a resumed job uploads what is missing, no more.
* `LinksAreCurrent`: after `describe`, each listed upload of the type links to
  exactly the other listed parts.
* `UploadsSettle` (under `FairSpec`): refused for ever, a job still ends. Weak
  fairness of each job's steps: the runtime picks what is due, each call to
  YouTube and each transaction ends. Deadlock is not checked: done is done.

Finding `publish_two_rearchives`: a re-archive that waits remembers what it
replaces from before the wait; a second one that runs meanwhile has its uploads
taken from the list and left on YouTube, reported nowhere (README.md:644).

### Proofs (`PublishProofs`)

For any jobs, parts, entries listed before, limits, faults, retries and
settings, under `PublishAssumption` (each job has finitely many parts; what is
listed before is listed once and was uploaded by none of the jobs):

* `ListedUploadsAreThere`: `Spec => []ListedIsThere`;
* `PartsUploadedOnce`: `Spec => []UploadedOnce`;
* `NoEntryIsLost`: `Spec => NoEntryLost`;
* `LinksStayCurrent`: `Spec => LinksAreCurrent`.

All four follow from one invariant, `Inv` (`PublishInvariant`):

* `ListOK`: the list has an upload once and one per part; a job's are of its type;
* `PayloadOK`, of each payload, saved or in memory: its uploads are its own, and
  what it is to replace is either listed as that part or, once the
  part is up, off the list;
* `Placed`, `Remembered`, `InHand`, `OffHand`: per point of a step, what it has
  in hand, for instance an upload that nobody lists yet;
* `Locking`: who holds the row has read the list as it is. This is what makes
  `NoEntryLost` hold: a write is a function of the list it is about to replace;
* `Exclusive`: one running job per type, by the runtime's lock;
* `Apart`: no job has taken an upload in flight for one to replace;
* `OffChannel`: an entry that is not on YouTube is some job's excuse, a part past its
  last one or an id it reports in `not_removed`;
* `Counted`: a job's uploads are those it recorded, the one under way, and one per fault;
* `Linking`: who describes knows the list of its type as it still is, because only
  a job of that type changes its entries, and it is the one that runs.

Only model-checked: `NothingStray`, which is not true of all constants (two
re-archives of one type break it, the finding), and `UploadsSettle`, which is liveness.

## 7. Capture (`LiveRecord`, `VodCapture`, `MCCapture`)

### Live recordings: `LiveRecord`

`live_record` follows its channel's live playlist, a window that slides over
the stream. State: the channel (`air`) and what Helix shows of it (`helix`), the
segment files, the journal `segments.jsonl`, the job's payload as saved and in
memory (`job.saved`, `job.mem`: `last_seq`, `init_name`, `timeline`), and the
step's locals (`run`). A file is named after its sequence number only, so
`files` says whose segment is in it.

| action | code |
|---|---|
| `Begin` | up to the loop: `last_seq` of the payload, `pending_disc` |
| `Connect`, `NoVariant` | `_live_variant`, which answers or not, and `idle` |
| `Fetch`, `FetchFails` | the playlist: `new`, "we fell behind the live window", `idle`; reconnection and `failures` |
| `DownloadInit`, `Download`, `Index`, `After` | the rest of a poll: the init segment, the batch (some fail), its lines in the journal, the save every 30 s, and whether this was the last poll |
| `Finish`, `NothingCaptured` | the end: local playlist, `recording_timeline` |
| `Raises`, `Interrupt`, `Crash` | an error, a shutdown, a kill: the payload goes on from memory or from the last save; a kill may leave a part of a batch in the journal |
| `Airs`, `Ends`, `NextStream`, `HelixSees` | Twitch, as the code sees it |

`Index` is one action because the code has no await in it; only a kill can stop
in its middle, and `Crash` does. The clock is not modelled: a save may or may
not happen in every poll. A segment lasts one unit and its wall clock is its
number, so `TIMELINE_TOLERANCE` is 0. A playlist once asked for is that of the
stream that was on; when another is on it is not served any more. Helix lags
behind the channel but is never wrong about what it once showed.

What is checked has two histories: `starts` (where in the journal each run of
the step began, and from which `last_seq`) and `excused` (segments that left the
window unseen or could not be downloaded).

* `OrderedWithGaps`: the journal only goes forward and every entry's file is its own
  segment. The exception is an entry past the `last_seq` a later run began from
  (`Forgotten`): what was in memory was lost with the worker. Where two entries are not neighbours, the later one is marked
  as a discontinuity, whatever made the hole: an ad, a failed download, a
  reconnection, a restart or another stream. A run that begins without any
  `last_seq` is the exception.
* `CapturedWhole`: a hole is made of ads and of segments in `excused` only.
* `PlaysInPlace`: at the end, `recording_time` puts every timed segment where it
  is in the recording (this relates `recording_timeline`, which `live_record`
  saves, to what `split` and `describe` later ask of it), and the playlist has
  its init segment.

### VOD copies: `VodCapture`

`capture` polls a VOD's playlist while the stream is live, or once. State: the
VOD on Twitch (how many segments, the form each is listed in, ended, live,
there), the files of `hls/`, `index.m3u8`, and the step's counters. A segment
has three forms: plain, `-muted` and `-unmuted` (which the CDN refuses).
Actions: `Fetch`, `FetchFails` (with the ways out for a VOD that is gone and for
30 failures), `Sync` (`_sync_segments` with what fails and which muted copies
are got instead), `Decide` (the rest of the poll), `StepError`, `Raises`,
`Interrupt`. Assumed of Twitch: a playlist does not shrink, and a segment's name
changes once, from plain to one of the others. Left out: `refuse_if_spliced`
(see `Splices`), the stored variant URL, the init segment, the duration.

* `KeepsSound`: a segment the local playlist takes with its sound stays so, for
  all that Twitch mutes and for all runs of the step.
* `CapturedWhole`, for a VOD: a capture that is done lists each segment once, from files
  that are there, without a hole unless the VOD was removed, and all of the VOD
  if it saw its end.

### Runs

`capture_both` starts in a world with a live job or in one with an archive job
(the two share nothing, so both together would only multiply the states), with
the properties above and, under the fairness of each module,
`CapturesEnd`: weak fairness of the step (its awaits have timeouts or are
sleeps), of the stream's end, of Helix noticing, and of Twitch closing the VOD's
playlist. The last is needed: of a VOD that is never closed, a segment that
keeps failing keeps the capture polling. No fairness is given to a fetch or a
download: they may fail for ever.

Bounds: a stream of four segments with an ad, windows of two, so that a batch
holds two segments and the window can pass the recorder by; a second stream
after a short first one whose numbers go on past it (`ShortFirst`), the case in
which a job comes back to a channel that shows another stream; an untimed
segment; two segments of a VOD; thresholds of one and two in place of 10, 30
and 90; one fault. With one fault `MaxAttempts` is 1: what a retry would add is
the same run from the same payload that `Interrupt` leads to.

Finding `capture_crash`: `RecordedOnce` fails after a kill. The journal has a
line per segment, the payload's `last_seq` is saved every 30 s, and a run goes
by the payload: it records again what is still in the window, so the recording
plays it twice. jobs.py:5 says steps must tolerate being re-run.
`OrderedWithGaps` and `PlaysInPlace` say exactly how much of the promise is left:
with a payload kept from memory, as a shutdown does, all of it.

### Proofs (`CaptureProofs`)

The theorems are about `EitherSpec` of `MCCapture`, which starts with either
capture, and have one invariant per capture (`CaptureInvariant`). They hold for any
streams, numbering, ads, window, limits and faults, and for a VOD of any length
(`LiveRecordAssumption`, `VodConstants`).

* `RecordingInOrder`: `EitherSpec => []OrderedWithGaps`;
* `CapturesAreWhole`: `EitherSpec => []CapturedWhole`;
* `SoundIsKept`: `EitherSpec => KeepsSound`.

`LiveInv` adds to the properties what makes them inductive: a batch is a run of
numbers past `last_seq`, and what of the stream lies between the two is excused
(`BatchOK`); the files of what a batch kept are there before their lines are
(`FilesOK`); with no discontinuity pending, the journal ends at the
`last_seq` in memory (`Pending`), which is what lets the next line go unmarked; and
from the journal's end to the `last_seq`, saved or in memory, every segment of
the stream is excused (`Covered`), which is why a kill that forgets `last_seq` may
repeat but never skips. A batch's lines are its numbers in order (`Sorted`); that every
finite set of numbers can be put in order is shown by a least counterexample.

`VodInv` says of a playlist that was fetched that it is a prefix of the VOD, no
shorter than what is recorded, and all of it if the VOD had ended
(`FetchedOK`): a poll compares its count with the last one and stops on an
`ended` it has seen before, and the VOD may have grown, changed form or gone
since.

Only model-checked: `PlaysInPlace`, which is a fold over the journal, and
`CapturesEnd`, which is liveness.

### Also seen

Nothing ties the playlist `live_record` follows to the job's own
stream. A job that comes back while the channel's next stream is on records
that stream, as a marked gap, if its numbers are past `last_seq`. No doc speaks
of it, so no run does; `CapturesEnd` shows that it ends.

## 8. Parts that share nothing (`MCServices`)

Nineteen smaller modules model parts of the worker and the API that touch each
other in nothing these models tell apart. `MCServices` instantiates each with
its constants and checks their union: the initial state picks one (`part`), a
step is that one's, so their states add up. A property of the run is an
invariant of one or two of the modules. All are safety; no fairness is assumed,
and deadlock is not checked, since every bound (`Max...`) runs out. Two tasks
run at a time (`Calls`), which is what it takes for one to overtake another.

A transaction is one step where a row lock or a single statement makes it one;
it is as many steps as it has statements where another one can come between.
Every property below names its exceptions; an exception is a variable the model
sets where the code lets it happen, and nothing else.

### Synthetic VODs: `Synthetic`, `SplitRoute`

`rows` is the table; `tx` the transactions under way, each with when it began.
`Create`, `Change`, `Delete`, `Recompose` and the edits of a real VOD read what they
need (columns by `Compose`'s `Derive`) and commit in separate steps, `Retitle` in
one; `FindStale` is `recompose_stale`'s
query, `todo` what it found. `clock` counts transactions begun, as `now()` is
the start of one.

* `StaleIsKnown`: a composition that is not what its sources give is one the next
  round finds. Exceptions: a source written by a transaction that began before
  the composition and committed after it (`unseen`), and a retitled VOD
  (`retitled`), which is finding `synthetic_edit_lost`. Such a transaction may also
  be a `create` of the source: two requests create one VOD, the first to commit is
  built on and removed, and the second commits with the older date. It takes three
  transactions at a time, one more than the run has; the proof (`StaleIsPicked`) found it.
* `MadeSoundly`: nothing is made, through others, of itself or of a VOD that is
  gone, and nothing is superseded twice, unless the checks ran side by side
  (`together`). For `POST .../split` (`SplitRoute`): no half of a split stays
  alone, unless the split failed between its two transactions or somebody had
  built on the half; and nothing is superseded twice, unless one of the two was
  checked while the other was checked and not committed (`beside`).

`synthetic.create` checks and inserts without a lock between them, so both modules
have the check and the commit as two steps, in `SplitRoute` those of either half
(`CheckHalf`, `Commit`) and of other requests (`Create`, `Commit`). Only the unique
key of the id stands in between: an insert that meets it is an error that
`split_vod` does not take for a refusal (`Conflict`). Plain disjointness fails in the
model, as it does in the code.

Bounds: one VOD of four seconds, two synthetic VODs at first (a copy and a copy
of it), a third may be made; three transactions. A split VOD has three seconds; two splits, two other changes and
a fault.

Finding `synthetic_edit_lost` (one copy, requests that keep the windows): a
retitle of a stale synthetic VOD dates it after the edit of its source, and the
edit is not picked up any more (synthetic.py:352, against synthetic.py:13).

### Tokens and quota: `YouTubeAccount`, `YouTubeQuota`, `ViewerAccount`

* `AccountStays`: `stored` is the row in `app_state`, `objects` the credentials
  made from it, which several API calls share and refresh on threads. Whatever
  is under way when an admin connects another account, the row stays that
  account's; but for a call that had the old credentials in hand (`inHand`).
  `MaxRotations` is 0, as Google keeps refresh tokens.
* `QuotaCounts`: `Answered` takes the Pacific day, `Insert`, `LockRow` and
  `Commit` are `add`'s upsert. The dashboard shows every unit of the day, unless
  a call answered before midnight was counted after it (`late`).
* `UnlinkedIsForgotten`: after an unlink neither row nor cache holds the account,
  unless an ask under way had its token in hand.

### The API's cache and the chat: `ApiCache`, `Chat`, `BotChat`

`ApiCache` follows one cached response: `Miss`, `ReadRows` and `Fill` are the
middleware, `Listen`, `Lost`, `ClearAll` and `Notified` the listener, the rest writes with the
notices they send. `CacheIsCurrent`: while the listener is connected, what is
cached is what the rows say or a notice on its way drops it, for VODs, pages of
chat, games, and synthetic VODs made of what changed. Exception: rows read before an
invalidation and cached after it (`outdated`).

`Chat` has the crawl of `metadata.chat` (batches, failures, resumption at the last
stored offset), the bot's replacement in one transaction, which numbers rows
anew, and the viewer's pages with their cursors and cache. `ChatIsWhole`: a crawl that
ends has all comments, numbered in time order. `PagesFollow`: a viewer misses
none. Five comments in three seconds, pages of two, batches of three: a page and
a batch both end within a second that has more.

`BotChat` has two reads of the bot's log at once, since a VOD's own `bot_chat`
job and a backfill's hold different locks, with the bot moderating meanwhile.
Its part of `ChatIsWhole`: a removed message stays removed whichever read ends
last, and a read that is through has stored all of the VOD's messages, as its
own unless a read that knew no length ran on into the stream first (`strayed`).

### Files and uploads: `MediaFiles`, `UploadRemoval`, `UploadCheck`

`MediaFiles` runs the steps of an archive, a dmca and a part_dmca job over one
folder; a file is the stretch it shows, whether it is complete, and its edits.
ffmpeg writes beside the file and renames; the payload is saved where the code
saves it; `Interrupt`, `Retry`, `DeleteFolder` and `Change` (settings, ranges)
come anywhere. `UploadsAreRight`: what is uploaded is complete, the stretch its
entry says, and has each edit once. Plans of one part, of two, and of two cut
elsewhere, so that a part an earlier plan left has the name of one of the next;
two jobs, one fault, one edit.

`UploadRemoval` is `delete_uploads`: one video after the other, then the list in
one transaction, then the describe jobs; next to a re-archive and deletions on
YouTube. Its part of `UploadsAreRight`: afterwards what is listed is there and
links to what is listed, but for requests that ended early (`cutShort`,
`untold`).

`UploadCheck` is the check of a VOD's uploads: the list, then YouTube's answers in
batches, while uploads are replaced, removed, refused or trimmed. `LossIsReported`:
when nothing changed between (`stale`), a VOD none of whose copies is whole, and
one that lost an upload, is reported as bad. Times are the code's: two hours
planned, a trim of three seconds, thirty and a hundred around `SHORT_BY` and
`INCOMPLETE_BY`.

Finding `check_gap_units` (`WithAdBreak`: one live copy with a break of 200 s): gaps are
stored as start and length, and read as start and end, so a live copy of which
nothing is lost but an ad break is reported as bad (youtube_check.py:121).

### The monitor: `StreamJobs`

`twitch` is what goes on, `tick` the round under way, `queue` the jobs, `rows` the
VODs. `Look` takes Twitch's answer; each await after it is a step. Streams end,
resume and follow each other between any two; any step may fail (`TickFails`);
admins archive by hand and toggle settings. `StreamsHaveTheirJobs`: the monitor
queues one job of each kind for a stream at most, and a stream whose row is
closed has been asked its chat for, unless Twitch had no VOD of it (`absent`).
Jobs queued by hand are not counted: two requests at once queue two. Two
streams, two faults or oddities.

### The dashboard: `SignIn`, `LoginLimit`, `Settings`, `SiteTags`, `JobLog`, `FolderStorage`, `VodEdits`

* `SignInHolds`: a request that begins after its session's logout is refused,
  and so is one that begins `CHECK_S` or more after "sign out everywhere",
  unless vex-auth could not be reached; a refused login's `Retry-After` is exactly
  as long as it takes, also after logins failed side by side.
* `SettingsInEffect`: with no save between its commit and its load, the worker
  runs with the saved, still valid overrides, unless a load was overtaken or
  failed (`behind`); only listed tags have a shape, unless one was set while there
  was no row to lock (`blind`).
* `PollersMissNothing`: rows are in the log's order, the newest `cap` are kept, and
  a poller that goes on from `next` is shown every event once. The lock that
  flushes hold is what keeps a later number from being seen first.
* `DeletesAreSafe`: a delete takes no files of a job queued after it, unless it
  had found no job before, or a removal in place was under way; what is in the
  trash is being removed or known to be stuck; a deleted folder is not shown
  unless a scan was under way (`stale`).
* `EditsHold`: chapters locked by hand stay what they were locked to, and what is
  stored fits a duration set by hand, but for checks that were overtaken
  (`overtaken`, `stepped`).

## 9. Proofs

Eight modules hold theorems. Sections 3, 5, 6 and 7 have `JobRunnerProofs`,
`SplicesProofs`, `PublishProofs` and `CaptureProofs`. The other four are about
section 8. Three of them prove theorems of its modules, each for every value of that module's
constants; bounds (`Max...`) occur in guards only. `ServicesProofs` carries the
results over to `MCServices`.

| theorem | of | says | beside the property, the invariant has |
|---|---|---|---|
| `AccountsProofs.StoredTokenIsConnected` | `YouTubeAccount` | `AccountStays` | unless an older account was in use (`inHand`), all credentials, tokens in hand and reports are of the account connected last (`Current`) |
| `.DashboardCounts` | `YouTubeQuota` | `QuotaCounts` | whoever holds the lock has read the row as it is (`ReadsHold`); no day in the row or in a call is after today (`DaysPast`) |
| `.UnlinkedStaysSo` | `ViewerAccount` | `UnlinkedIsForgotten` | row, cache and the token of every ask are the last link's until a route saves (`Tidy`); whoever refreshes has a token to refresh (`TokensOK`) |
| `.SignedOutIsRefused` | `SignIn` | `SignOutHolds` | what a request read of its session was there when it began, no check is dated after its request, and none was answered after the end of the sign-in it checked |
| `.WaitsAreExact` | `LoginLimit` | `WaitIsEnough` | the failures kept are in time order and none is after now, so that what is dropped from the front is all that is old |
| `DashboardProofs.SavedIsRun` | `Settings` | `SettingsInEffect` | rows and calls hold values of settings (`RowsOK`) |
| `.ShapesAreListed` | `SiteTags` | `ShapesFollowTags` | who has the lock has read the list as it is; a shape being written is of a tag that the lock keeps listed |
| `.DeletesSafe` | `FolderStorage` | `DeletesAreSafe` | a job that no delete overlooked has none past its check (`Undisturbed`); removals in place begin after a failure (`InPlaceOnFailure`); what a scan saw is right unless `stale` (`ScanKnows`) |
| `.EditsStand` | `VodEdits` | `EditsHold` | what a request checked is still so, unless it was overtaken |
| `.EveryEventIsShown` | `JobLog` | `PollersMissNothing` | rows under way have the last numbers given out, and come after the rows stored: shown, then not yet shown, then the batch being written, then what is buffered; rows of the newest `cap` are there |
| `VideosProofs.SplitsAreWhole` | `SplitRoute` | `SplitIsWhole` | where each split is in its two transactions, what each call has checked and not committed, and which half it made; of two rows that overlap, committed or to be, one was checked beside the other (`SplitApart`) |
| `.RemovalsAreWhole` | `UploadRemoval` | `RemovalIsWhole` | what a request has deleted and not yet taken off the list |
| `.StreamsGetTheirJobs` | `StreamJobs` | `StreamsHaveTheirJobs` | what the round under way has looked up is still so, since nobody else writes it |
| `.BotLogIsKept` | `BotChat` | `BotChatKept` | what a read has passed is stored (by time and by page), and what one stored as removed was removed |
| `.ChatIsStored` | `Chat` | `ChatIsWhole` | a crawl has stored or holds all it has passed, and resumes at an offset whose second it reads again; rows are numbered in time order |
| `.CachedIsCurrent` | `ApiCache` | `CacheIsCurrent` | a response that is rendered and not cached yet says what its rows say, unless an invalidation has passed it; a notice is on its way for every write since |
| `.StaleIsPicked` | `Synthetic` | `StaleIsKnown` | a row's lock is one transaction's; what one found when it read is what its sources give now, or one of them is dated after it began, or a transaction older than it may still write one (`overtaken`); nothing is made of itself or of a VOD that is gone |

No assumption is stronger than what the code runs with: lists and times are of
their types, `None` is none of the values it stands beside. For `BotChat` the streams
of a channel do not overlap; for `Chat` Twitch sends comments in time order and at least
one a page; for `ApiCache` a synthetic VOD is made of real ones; for `Synthetic` those there at first were
made one after the other, and requests hold segments. `Settings` needs none.

Lists of chapters (`VodEdits`), of failed logins (`LoginLimit`), of comments (`Chat`),
of messages (`BotChat`) and of synthetic VODs there at first (`Synthetic`) have any length. What
is said of them is proved by a least counterexample, which `NaturalsInduction`'s
well-founded order gives without a predicate as parameter (`Least`). Of what a composition
shows (`Derive`) the proof of `StaleIsPicked` uses only that it depends on
nothing but the columns of its sources.

`ServicesProofs`: a part of `MCServices` and the module a theorem is about are two instances of
one module with the same constants. That the two begin alike, step alike, assume the same
and promise the same is proved by expanding both (`...Init`, `...Next`, `...Assumed`,
`...Property`; for `Synthetic` and `Chat` operator by operator); so the part's invariant holds while `part` is that one (`...Kept`),
and the theorems `Spec => []P` follow for those `P` of the run `services` all of whose
parts have a proof: `AccountStays`, `QuotaCounts`, `UnlinkedIsForgotten`, `SignInHolds`,
`SettingsInEffect`, `PollersMissNothing`, `DeletesAreSafe`, `EditsHold`,
`StreamsHaveTheirJobs`, `CacheIsCurrent`, `ChatIsWhole`, `StaleIsKnown`.

Only model-checked:

* liveness (`EveryJobSettles`, `UploadsSettle`, `CapturesEnd`) and `ENABLED`: out of
  the prover's reach;
* what a fold over data computes for every input (`Timeline`, `Planning`, `Compose`, and
  with them `ChatKeepsSync` and `PlaysInPlace`): it takes induction over operators;
* `NothingStray`, which is not so for every value of the constants: two re-archives of one
  VOD side by side leave uploads nobody lists (`publish_two_rearchives`);
* `TypesOK`, and of the other invariants of `services` `MadeSoundly` (levels of nesting and
  overlaps), the part of `MediaFiles` in `UploadsAreRight`, `LossIsReported` (a fold over the
  parts of a VOD) and `PagesFollow` (sorts, which none of the provers expands).

## 10. Divergences that no run shows

Met while modelling; the models have them as transitions or as exceptions of a
property, and no run is about them.

* A shutdown that interrupts the write of `done` leaves the job queued with no
  step (legacy_jobs.py:270): it starts over, where README.md:37 says finished
  steps never run again.
* A `cancel` of a row read as queued lands after its claim: the row is cancelled
  and the task works on (legacy_jobs.py:134), where README.md:295 says cancelling
  a running job stops it immediately.
* An undo reads its splice before it has the rows and does not look again: a
  second undo of the same splice shifts the games twice (splices.py:413), where README.md:519
  says an undo restores every row as it was. It is let through when it is forced, or
  when the VODs happen to look as the splice left them once more (section 5, `UndoesOnce`).
* The chapters step reads the lock before it awaits Twitch (metadata.py:75), while
  the lock is set in a session of its own (admin.py:1196): `EditsHold` leaves out a
  step that had read the row before.
* A call answered before Pacific midnight and counted after it starts the old day
  again, and the new day's units are gone (youtube_quota.py:54).
* A folder that cannot be moved to the trash is removed in place, where a job
  queued meanwhile may write; a scan that was under way shows a deleted folder
  until the cache expires (storage.py).
* "Both or neither" of the split route is not kept by a stop of the worker between
  the two, nor when the second half's id is committed by another request between its
  check and its insert: that is no `ApiError`, so nothing is undone
  (api_v2_routes.py:511); and the removal of the first half takes whatever has its
  id by then.
* "A source's second may be superseded by one synthetic VOD only" (synthetic.py:102)
  is checked against what is committed: two creates of different ids that are checked
  before either commits both pass.
* A live job whose VOD is known by now and that an admin retries while it runs is
  claimed again and runs twice (legacy_jobs.py:50, 101, 184; section 3).
* A refresh that was under way when another account was authorized saves the old
  account's token over the new one (youtube.py:305-321); one that was under way when
  the viewer's account was unlinked saves and caches its token again
  (twitch_viewer.py:239).
* A response rendered from rows read before an invalidation is cached after it, for its
  time to live (middleware.py:84-93).
* A load of the settings that read its rows before a later save, and ends after that
  save's own, leaves the older ones in memory until the next (runtime_settings.py:199).
* A job queued between the look for active jobs and the move of its folder to the trash
  loses what the folder held (storage.py:236).
* The check of the uploads reads the list once: an upload replaced or lost while it asks
  YouTube is reported, or missed, until the next (youtube_check.py:188).
* The first save of the site's tags has no row to lock, so that a shape can stay
  without its tag (site_tags.py:169).
* `delete_uploads` that ends early leaves the uploads it deleted listed
  (admin.py:1249).
* A read of the bot's log of a VOD whose length is not known yet stores messages of the
  stream that follows (steps/bot_chat.py).

## 11. Not modelled

* The runtime of new jobs (`vex_platform.jobs`): a library outside the repository.
  The monitor uses its `exists_any` and `enqueue`, as `StreamJobs` does.
* Encoding, titles, descriptions, thumbnails, JSON shapes, the query language, the
  audit log, the dashboard's pages, migrations and table definitions: wording and
  layout.
* Clients of Twitch, YouTube, the emote providers and the bot: only their answers,
  as choices. The rate limiter of the public API, emotes, badges, SVG cleaning:
  stateless, or of one counter.
* Privacy of uploads, the backfills of gaps and previews, the folding of rewards
  and timeout reasons into bot messages, the split of a job's daily-limit
  deferral in the legacy runner's steps.
* `Splices` and `Publish` together: a job that publishes a VOD merged meanwhile is
  refused by `Splices`' guard, and the two are checked apart.
