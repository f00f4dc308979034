----------------------------- MODULE VodCapture -----------------------------
(****************************************************************************)
(* The step capture (steps/capture.py): a job polls the playlist of a VOD   *)
(* while its stream is live (or once, for a past VOD), downloads what is    *)
(* missing and rewrites the local playlist.  Twitch mutes segments and      *)
(* renames them while the job follows, refuses downloads, and may take the  *)
(* VOD down; the worker is interrupted or dies, and the step is run again.  *)
(****************************************************************************)
EXTENDS Integers, FiniteSets

CONSTANTS
  Total,          \* bound: segments of the VOD
  Configured,     \* whether the worker has Helix credentials
  NoChangeLimit,  \* hls_no_change_threshold
  ErrorLimit,     \* 30 failed fetches
  MaxAttempts,    \* max_attempts
  MaxFaults       \* bound: interruptions, crashes and raised errors in a behaviour

\* What the constants are.
VodCaptureAssumption ==
  /\ Total \in Nat /\ Configured \in BOOLEAN
  /\ {NoChangeLimit, ErrorLimit, MaxAttempts} \subseteq Nat \ {0}

VARIABLES
  vod,      \* on Twitch: how many segments, the form each is listed in, whether it ended, is live, is there
  have,     \* the files of hls/: <<segment, form>>
  index,    \* index.m3u8: such a set, or NoIndex
  capture,  \* the job's row and the running step's local variables
  spent     \* what the bound counts

vars == <<vod, have, index, capture, spent>>

NoIndex == {<<0, "none">>}
Idle    == [pc |-> "idle", errors |-> 0, stuck |-> 0, unchanged |-> 0, sig |-> <<>>,
            there |-> TRUE, listed |-> {}, ended |-> FALSE, failed |-> {}]

Init ==
  /\ vod = [count |-> 0, form |-> [k \in 1..Total |-> "plain"], ended |-> FALSE, live |-> TRUE, there |-> TRUE]
  /\ have = {} /\ index = NoIndex
  /\ \E once \in BOOLEAN :
       capture = [state |-> "queued", attempts |-> 0, once |-> once, how |-> "none", run |-> Idle]
  /\ spent = 0

At(pc)      == capture.state = "running" /\ capture.run.pc = pc
Run         == capture.run
SetRun(run) == capture' = [capture EXCEPT !.run = run]

----------------------------------------------------------------------------
(* The VOD on Twitch. *)

Twitch == UNCHANGED <<have, index, capture, spent>>

Grows      == ~vod.ended /\ vod.count < Total /\ vod' = [vod EXCEPT !.count = @ + 1] /\ Twitch
Mutes(k)   == /\ k <= vod.count /\ vod.form[k] = "plain"
              /\ \E form \in {"muted", "unmuted"} : vod' = [vod EXCEPT !.form[k] = form]
              /\ Twitch
StreamEnds == vod.live /\ vod' = [vod EXCEPT !.live = FALSE] /\ Twitch
VodEnds    == ~vod.live /\ ~vod.ended /\ vod' = [vod EXCEPT !.ended = TRUE] /\ Twitch
Removed    == vod.there /\ vod' = [vod EXCEPT !.there = FALSE] /\ Twitch

StillLive == Configured /\ vod.live
There     == ~Configured \/ vod.there

----------------------------------------------------------------------------
(* The step. *)

Begin ==
  /\ capture.state = "queued"
  /\ capture' = [capture EXCEPT !.state = "running", !.run = [Idle EXCEPT !.pc = "poll"]]
  /\ UNCHANGED <<vod, have, index, spent>>

Finish(how) ==
  IF index = NoIndex THEN SetRun([Run EXCEPT !.pc = "raise"])
  ELSE capture' = [capture EXCEPT !.state = "done", !.how = how, !.run = Idle]

\* The playlist cannot be fetched.
FetchFails ==
  /\ At("poll")
  /\ LET errors == Run.errors + 1 IN
     IF ~There /\ index # NoIndex THEN Finish("gone")
     ELSE IF ~There \/ capture.once \/ errors >= ErrorLimit THEN SetRun([Run EXCEPT !.pc = "raise"])
     ELSE SetRun([Run EXCEPT !.errors = errors])
  /\ UNCHANGED <<vod, have, index, spent>>

\* The VOD's row and its playlist are asked for together.
Fetch ==
  /\ At("poll")
  /\ SetRun([Run EXCEPT !.errors = 0, !.there = There, !.ended = vod.ended, !.pc = "sync",
                        !.listed = {<<k, vod.form[k]>> : k \in 1..vod.count}])
  /\ UNCHANGED <<vod, have, index, spent>>

MutedForm(form) == IF form = "unmuted" THEN "muted" ELSE form
MutedCopy(e)    == <<e[1], MutedForm(e[2])>>

\* The file a listed segment is taken from: the copy captured before Twitch muted it, the muted
\* copy Twitch served instead, or the one that is listed.
LocalListed(e, files) == e   \* Mutant: the one that is listed.

Local(e, files) ==
  IF <<e[1], "plain">> \in files THEN <<e[1], "plain">>
  ELSE IF MutedCopy(e) \in files THEN MutedCopy(e)
  ELSE e
Todo == {Local(e, have) : e \in Run.listed} \ have

\* The downloads of Todo that fail, those of them refused, and the refused ones whose muted copy is got.
Sync(failed, copied) ==
  /\ At("sync")
  /\ failed \subseteq Todo
  /\ copied \subseteq {e \in failed : e[2] = "unmuted"}
  /\ have' = have \cup (Todo \ failed) \cup {MutedCopy(e) : e \in copied}
  /\ LET entry(e) == IF Local(e, have) \in copied THEN MutedCopy(e) ELSE Local(e, have)
     IN  index' = {entry(e) : e \in Run.listed} \cap have'
  /\ SetRun([Run EXCEPT !.failed = failed \ copied, !.pc = "decide"])
  /\ UNCHANGED <<vod, spent>>

\* The number of segments and the last one's name.
Signature == <<Cardinality(Run.listed), {e \in Run.listed : e[1] = Cardinality(Run.listed)}>>

\* The end of a poll that is not the last by what was fetched: is the playlist still changing?
PollAgain(stuck) ==
  LET unchanged == IF Signature = Run.sig /\ Run.failed = {} THEN Run.unchanged + 1 ELSE 0 IN
  IF unchanged >= NoChangeLimit THEN Finish("unchanged")
  ELSE SetRun([Run EXCEPT !.unchanged = unchanged, !.sig = Signature, !.stuck = stuck,
                           !.listed = {}, !.failed = {}, !.pc = "poll"])

Decide ==
  /\ At("decide")
  /\ IF capture.once
     THEN IF Run.failed = {} THEN Finish("once") ELSE SetRun([Run EXCEPT !.pc = "raise"])
     ELSE IF ~Run.there THEN Finish("gone")
     ELSE IF Run.ended /\ ~StillLive
     THEN IF Run.failed = {} THEN Finish("ended")
          ELSE IF Run.stuck + 1 >= NoChangeLimit THEN SetRun([Run EXCEPT !.pc = "raise"])
          ELSE PollAgain(Run.stuck + 1)
     ELSE PollAgain(Run.stuck)
  /\ UNCHANGED <<vod, have, index, spent>>

----------------------------------------------------------------------------
(* How a run of the step ends without returning. *)

Leaves(state, attempts) == capture' = [capture EXCEPT !.state = state, !.attempts = attempts, !.run = Idle]
Raised == Leaves(IF capture.attempts + 1 >= MaxAttempts THEN "failed" ELSE "queued", capture.attempts + 1)
Fault  == spent < MaxFaults /\ spent' = spent + 1

StepError ==
  /\ At("raise")
  /\ Raised
  /\ UNCHANGED <<vod, have, index, spent>>

\* Helix or the database raises.
Raises ==
  /\ At("poll") \/ At("sync") \/ At("decide")
  /\ Fault /\ Raised
  /\ UNCHANGED <<vod, have, index>>

\* The worker shuts down or dies; some of a poll's downloads are on disk.
Interrupt(got) ==
  /\ capture.state = "running" /\ Fault
  /\ got \subseteq (IF At("sync") THEN Todo ELSE {})
  /\ have' = have \cup got
  /\ Leaves("queued", capture.attempts)
  /\ UNCHANGED <<vod, index>>

Files == (1..Total) \X {"plain", "muted", "unmuted"}

Step ==
  \/ Begin \/ FetchFails \/ Fetch \/ Decide \/ StepError
  \/ \E failed \in SUBSET Todo, copied \in SUBSET Todo : Sync(failed, copied)

Next ==
  \/ Step \/ Raises
  \/ \E got \in SUBSET Todo : Interrupt(got)
  \/ Grows \/ StreamEnds \/ VodEnds \/ Removed
  \/ \E k \in 1..Total : Mutes(k)

\* A stream ends some day, Twitch closes its playlist, and the step goes on.
Fairness == WF_vars(Step) /\ WF_vars(StreamEnds) /\ WF_vars(VodEnds)
Spec     == Init /\ [][Next]_vars
FairSpec == Spec /\ Fairness

----------------------------------------------------------------------------
(* Properties. *)

\* The types of the VOD, of the files and of the job.
TypeOK ==
  /\ vod.count \in 0..Total /\ vod.form \in [1..Total -> {"plain", "muted", "unmuted"}]
  /\ have \subseteq Files
  /\ index = NoIndex \/ index \subseteq Files
  /\ capture.state \in {"queued", "running", "done", "failed", "none"} /\ capture.attempts \in 0..MaxAttempts
  /\ capture.how \in {"none", "gone", "once", "unchanged", "ended"}
  /\ Run.pc \in {"idle", "poll", "sync", "decide", "raise"}
  /\ Run.errors \in 0..ErrorLimit /\ Run.stuck \in 0..NoChangeLimit /\ Run.unchanged \in 0..NoChangeLimit
  /\ Run.listed \subseteq Files /\ Run.failed \subseteq Run.listed

\* Once the recording plays a segment with its sound, it keeps it: what Twitch mutes, refuses or
\* removes later, and a step that is run again, take nothing back (_sync_segments, "captured before
\* Twitch muted it").
KeepsSound == [][\A k \in 1..Total : <<k, "plain">> \in index => <<k, "plain">> \in index']_vars

\* A capture that is done lists files that are there, each segment once and, unless the VOD was
\* taken down, without a hole; if it saw the VOD's end, all of the VOD (capture's ways out of its loop).
FinishedWhole ==
  capture.state = "done" =>
    /\ index \subseteq have
    /\ \A e, f \in index : e[1] = f[1] => e = f
    /\ capture.how = "ended" => {e[1] : e \in index} = 1..vod.count
    /\ capture.how # "gone" => {e[1] : e \in index} = 1..Cardinality(index)

CaptureOver == capture.state \notin {"queued", "running"}
=============================================================================
