----------------------------- MODULE LiveRecord -----------------------------
(****************************************************************************)
(* The step live_record (steps/capture.py): a job follows the playlist of   *)
(* its stream while it is on air, writes each segment to a file and a line  *)
(* of the journal segments.jsonl, and checkpoints in its payload how far it *)
(* came.  The playlist is a window that slides over the stream; fetches     *)
(* fail, the worker is interrupted or dies, the step is run again, and      *)
(* another stream may have begun on the channel by then.                    *)
(*                                                                          *)
(* A segment lasts one unit of time.  The job is that of stream 1.          *)
(****************************************************************************)
EXTENDS Integers, SequencesExt

CONSTANTS
  First,         \* First[s]: the sequence number of the first segment of the channel's stream s
  Length,        \* bound: segments of each stream
  Window,        \* segments in a playlist
  Ads,           \* the segments that are ads: <<stream, sequence number>>
  Untimed,       \* sequence numbers of the segments whose playlists give them no time
  Fmp4,          \* whether the playlists name an init segment
  ConnectLimit,  \* live_end_threshold // 10 + 1
  IdleLimit,     \* live_end_threshold
  FailLimit,     \* 30 failed fetches
  MaxAttempts,   \* max_attempts
  MaxFaults      \* bound: interruptions, crashes and failures in a behaviour

ASSUME LiveRecordAssumption ==
  /\ First \in Seq(Nat) /\ First # <<>> /\ Length \in [DOMAIN First -> Nat \ {0}]
  /\ Window \in Nat \ {0} /\ MaxAttempts \in Nat \ {0}
  /\ IdleLimit \in Nat /\ ConnectLimit \in 1..IdleLimit /\ FailLimit \in Nat

VARIABLES
  air,      \* the channel: its last stream, whether it is on, its newest segment
  helix,    \* the stream Helix shows as live, 0 when none
  files,    \* files[q]: the stream whose segment q is in the file named after q
  journal,  \* segments.jsonl
  job,      \* the job's row (state, attempts, saved) and its payload in memory (mem)
  run,      \* the running step's local variables
  starts,   \* history: where in the journal each run of the step began, and from which last_seq
  excused,  \* history: segments that left the playlist unseen or could not be downloaded
  faults

vars == <<air, helix, files, journal, job, run, starts, excused, faults>>

None      == 0
NoSeq     == -1
NoPayload == [last |-> NoSeq, init |-> FALSE, timeline |-> <<>>]
Idle      == [pc |-> "idle", variant |-> None, pending |-> FALSE, idle |-> 0, failures |-> 0,
              new |-> {}, lost |-> {}, ended |-> FALSE]

Init ==
  /\ air = [stream |-> 1, on |-> TRUE, head |-> First[1]]
  /\ helix = 1
  /\ files = <<>> /\ journal = <<>>
  /\ job = [state |-> "queued", attempts |-> 0, saved |-> NoPayload, mem |-> NoPayload]
  /\ run = Idle
  /\ starts = {} /\ excused = {} /\ faults = 0

Recording == <<files, journal, starts, excused>>
Channel   == <<air, helix>>
At(pc)    == job.state = "running" /\ run.pc = pc

----------------------------------------------------------------------------
(* The channel. *)

Airs ==
  /\ air.on /\ air.head < First[air.stream] + Length[air.stream] - 1
  /\ air' = [air EXCEPT !.head = @ + 1]
  /\ UNCHANGED <<helix, job, run, Recording, faults>>

Ends ==
  /\ air.on
  /\ air' = [air EXCEPT !.on = FALSE]
  /\ UNCHANGED <<helix, job, run, Recording, faults>>

NextStream ==
  /\ ~air.on /\ air.stream < Len(First)
  /\ air' = [stream |-> air.stream + 1, on |-> TRUE, head |-> First[air.stream + 1]]
  /\ UNCHANGED <<helix, job, run, Recording, faults>>

HelixSees ==
  /\ helix # IF air.on THEN air.stream ELSE None
  /\ helix' = IF air.on THEN air.stream ELSE None
  /\ UNCHANGED <<air, job, run, Recording, faults>>

\* _still_live, with a job's stream_id
StillLive == helix = 1

----------------------------------------------------------------------------
(* The step. *)

Begin ==
  /\ job.state = "queued"
  /\ job' = [job EXCEPT !.state = "running", !.mem = job.saved]
  /\ run' = [Idle EXCEPT !.pc = "loop", !.pending = job.saved.last >= 0]
  /\ starts' = starts \cup {[at |-> Len(journal), from |-> job.saved.last]}
  /\ UNCHANGED <<Channel, files, journal, excused, faults>>

UpTo(limit, n) == IF n < limit THEN n ELSE limit

Connect ==
  /\ At("loop") /\ run.variant = None /\ air.on
  /\ run' = [run EXCEPT !.variant = air.stream]
  /\ UNCHANGED <<Channel, Recording, job, faults>>

\* Mutant: a channel that is off is asked for ever.
NoVariantAgain ==
  /\ At("loop") /\ run.variant = None
  /\ run' = [run EXCEPT !.idle = UpTo(IdleLimit, run.idle + 1)]
  /\ UNCHANGED <<Channel, Recording, job, faults>>

NoVariant ==
  /\ At("loop") /\ run.variant = None
  /\ LET idle == UpTo(IdleLimit, run.idle + 1) IN
     run' = [run EXCEPT !.idle = idle,
                        !.pc = IF idle >= ConnectLimit /\ ~StillLive THEN "finish" ELSE "loop"]
  /\ UNCHANGED <<Channel, Recording, job, faults>>

FetchFails ==
  /\ At("loop") /\ run.variant # None
  /\ LET failures == UpTo(FailLimit + 1, run.failures + 1) IN
     run' = [run EXCEPT !.failures = failures, !.variant = None, !.pending = TRUE,
                        !.pc = IF failures > FailLimit /\ ~StillLive THEN "finish" ELSE "loop"]
  /\ UNCHANGED <<Channel, Recording, job, faults>>

\* The first segment the playlist shows.
Oldest == LET q == air.head - Window + 1 IN IF q > First[air.stream] THEN q ELSE First[air.stream]

New == {q \in Oldest..air.head : q > job.mem.last}

\* We fell behind the live window.
Behind == New # {} /\ job.mem.last >= 0 /\ job.mem.last + 1 \notin New

\* A variant is the stream's that was on when it was asked for; it is not served once another is on.
Fetch(ended) ==
  /\ At("loop") /\ run.variant = air.stream
  /\ ended => ~air.on
  /\ run' = [run EXCEPT !.failures = 0, !.new = New, !.ended = ended,
                        !.pending = @ \/ Behind,
                        !.idle = IF New # {} THEN 0 ELSE UpTo(IdleLimit, @ + 1),
                        !.pc = IF Fmp4 /\ ~job.mem.init THEN "init" ELSE "download"]
  /\ excused' = excused \cup {<<air.stream, q>> : q \in {q \in First[air.stream]..Oldest - 1 : q > job.mem.last}}
  /\ UNCHANGED <<Channel, files, journal, job, starts, faults>>

DownloadInit ==
  /\ At("init")
  /\ job' = [job EXCEPT !.mem.init = TRUE]
  /\ run' = [run EXCEPT !.pc = "download"]
  /\ UNCHANGED <<Channel, Recording, faults>>

Ad(q) == <<run.variant, q>> \in Ads

Newest(r) == CHOOSE q \in r.new : \A p \in r.new : p <= q

\* Mutant: last_seq goes on before the batch is in the journal.
DownloadAhead(lost) ==
  /\ At("download")
  /\ \A q \in lost : q \in run.new /\ ~Ad(q)
  /\ LET got == {q \in run.new \ lost : ~Ad(q)} IN
     files' = [q \in DOMAIN files \cup got |-> IF q \in got THEN run.variant ELSE files[q]]
  /\ excused' = excused \cup {<<run.variant, q>> : q \in lost}
  /\ job' = [job EXCEPT !.mem.last = IF run.new = {} THEN @ ELSE Newest(run)]
  /\ run' = [run EXCEPT !.lost = lost, !.pc = "index"]
  /\ UNCHANGED <<Channel, journal, starts, faults>>

\* Files are named after the sequence number; those that fail are "lost".
Download(lost) ==
  /\ At("download")
  /\ \A q \in lost : q \in run.new /\ ~Ad(q)
  /\ LET got == {q \in run.new \ lost : ~Ad(q)} IN
     files' = [q \in DOMAIN files \cup got |-> IF q \in got THEN run.variant ELSE files[q]]
  /\ excused' = excused \cup {<<run.variant, q>> : q \in lost}
  /\ run' = [run EXCEPT !.lost = lost, !.pc = "index"]
  /\ UNCHANGED <<Channel, journal, job, starts, faults>>

Kept(r) == {q \in r.new \ r.lost : ~Ad(q)}

\* Mutant: only what was skipped before the batch is marked.
LineInBatch(r, q) == [stream |-> r.variant, seq |-> q, disc |-> q - 1 \notin r.new /\ r.pending]

\* The lines of a batch, in order: a segment after one that was skipped is after a discontinuity.
Line(r, q) == [stream |-> r.variant, seq |-> q,
               disc |-> IF q - 1 \in r.new THEN q - 1 \notin Kept(r) ELSE r.pending]
Sorted(S) == CHOOSE s \in [1..Cardinality(S) -> S] :
               (\A i, k \in DOMAIN s : i < k => s[i] < s[k]) /\ Range(s) = S
Lines(r)  == LET order == Sorted(Kept(r)) IN [i \in DOMAIN order |-> Line(r, order[i])]

Index ==
  /\ At("index")
  /\ journal' = journal \o Lines(run)
  /\ job' = [job EXCEPT !.mem.last = IF run.new = {} THEN @ ELSE Newest(run)]
  /\ run' = [run EXCEPT !.pending = IF run.new = {} THEN @ ELSE Newest(run) \notin Kept(run),
                        !.new = {}, !.lost = {}, !.pc = "after"]
  /\ UNCHANGED <<Channel, files, starts, excused, faults>>

\* The end of a poll; the payload is saved when the last time is 30 s ago.
After(save) ==
  /\ At("after")
  /\ job' = IF save THEN [job EXCEPT !.saved = job.mem] ELSE job
  /\ run' = IF run.ended THEN [run EXCEPT !.pc = "finish"]
            ELSE IF run.idle < IdleLimit THEN [run EXCEPT !.pc = "loop"]
            ELSE IF StillLive THEN [run EXCEPT !.pc = "loop", !.idle = 0]
            ELSE [run EXCEPT !.pc = "finish"]
  /\ UNCHANGED <<Channel, Recording, faults>>

Wall(e) == 100 * e.stream + e.seq

\* Mutant: time only has to go on.
ContinuesLater(span, e) == e.seq \in Untimed \/ Wall(e) >= span.wall + span.length

\* planning.recording_timeline: the stretches recorded without a gap.
Continues(span, e) == e.seq \in Untimed \/ Wall(e) = span.wall + span.length
Extended(t, e) ==
  LET joins == t.spans # <<>> /\ Continues(Last(t.spans), e)
      begun == [rec |-> t.rec, wall |-> Wall(e), length |-> 1]
  IN  [rec   |-> t.rec + 1,
       spans |-> IF joins THEN [t.spans EXCEPT ![Len(t.spans)].length = @ + 1]
                 ELSE t.spans \o IF e.seq \in Untimed THEN <<>> ELSE <<begun>>]
Timeline(entries) == FoldLeft(Extended, [spans |-> <<>>, rec |-> 0], entries).spans

Finish ==
  /\ At("finish") /\ journal # <<>>
  /\ LET payload == [job.mem EXCEPT !.timeline = Timeline(journal)] IN
     job' = [job EXCEPT !.state = "done", !.mem = payload, !.saved = payload]
  /\ run' = Idle
  /\ UNCHANGED <<Channel, Recording, faults>>

----------------------------------------------------------------------------
(* How a run of the step ends without returning.  What the runtime keeps of *)
(* its payload is the one in memory or the one saved.                       *)

Leaves(state, attempts) ==
  /\ \E payload \in {job.mem, job.saved} :
       job' = [state |-> state, attempts |-> attempts, saved |-> payload, mem |-> payload]
  /\ run' = Idle

Raised == Leaves(IF job.attempts + 1 >= MaxAttempts THEN "failed" ELSE "queued", job.attempts + 1)

Fault == faults < MaxFaults /\ faults' = faults + 1

NothingCaptured ==
  /\ At("finish") /\ journal = <<>>
  /\ Raised
  /\ UNCHANGED <<Channel, Recording, faults>>

\* The init segment's download, the save and Helix may raise.
Raises ==
  /\ \/ At("init") \/ At("after")
     \/ At("loop") /\ IF run.variant = None THEN run.idle + 1 >= ConnectLimit ELSE run.failures >= FailLimit
  /\ Fault /\ Raised
  /\ UNCHANGED <<Channel, Recording>>

\* The worker shuts down at an await.
Interrupt ==
  /\ job.state = "running" /\ run.pc # "finish"
  /\ Fault /\ Leaves("queued", job.attempts)
  /\ UNCHANGED <<Channel, Recording>>

\* The worker dies; of a batch being indexed, some lines are written.
Crash ==
  /\ job.state = "running" /\ Fault
  /\ \/ UNCHANGED journal
     \/ run.pc = "index" /\ \E n \in 1..Len(Lines(run)) : journal' = journal \o SubSeq(Lines(run), 1, n)
  /\ job' = [job EXCEPT !.state = "queued", !.mem = job.saved]
  /\ run' = Idle
  /\ UNCHANGED <<Channel, files, starts, excused>>

Step ==
  \/ Begin \/ Connect \/ NoVariant \/ FetchFails \/ DownloadInit \/ Index \/ Finish \/ NothingCaptured
  \/ \E ended \in BOOLEAN : Fetch(ended)
  \/ \E lost \in SUBSET run.new : Download(lost)
  \/ \E save \in BOOLEAN : After(save)

Next == Step \/ Raises \/ Interrupt \/ Crash \/ Airs \/ Ends \/ NextStream \/ HelixSees

\* A stream ends some day and Helix notices; the step goes on.
Fairness == WF_vars(Step) /\ WF_vars(Ends) /\ WF_vars(HelixSees)
Spec     == Init /\ [][Next]_vars
FairSpec == Spec /\ Fairness
----------------------------------------------------------------------------
(* Properties. *)

Streams  == 1..Len(First)
Segments == UNION {First[s]..First[s] + Length[s] - 1 : s \in Streams}
Payloads == [last : Segments \cup {NoSeq}, init : BOOLEAN,
             timeline : Seq([rec : Nat, wall : Nat, length : Nat])]

\* The types of the channel, of the recording and of the job.
TypeOK ==
  /\ air \in [stream : Streams, on : BOOLEAN, head : Nat] /\ helix \in Streams \cup {None}
  /\ DOMAIN files \subseteq Segments /\ Range(files) \subseteq Streams
  /\ journal \in Seq([stream : Streams, seq : Segments, disc : BOOLEAN])
  /\ job.state \in {"queued", "running", "done", "failed", "none"} /\ job.attempts \in 0..MaxAttempts
  /\ job.saved \in Payloads /\ job.mem \in Payloads
  /\ run.pc \in {"idle", "loop", "init", "download", "index", "after", "finish"}
  /\ run.variant \in Streams \cup {None} /\ run.idle \in 0..IdleLimit /\ run.failures \in 0..FailLimit + 1
  /\ run.new \subseteq Segments /\ run.lost \subseteq run.new

\* A later run began with a last_seq that entry i is past: the one in memory was not kept.
Forgotten(i) == \E s \in starts : i <= s.at /\ s.from < journal[i].seq

\* The recording is in the stream's order, nothing is in it twice, and each entry's file is the
\* segment the entry is about, whatever run wrote it (live_record's last_seq; files are named
\* after sequence numbers), unless what the job knew of it was lost in between.
InOrder ==
  \A i \in DOMAIN journal :
    \/ Forgotten(i)
    \/ /\ journal[i].seq \in DOMAIN files /\ files[journal[i].seq] = journal[i].stream
       /\ \A k \in i + 1..Len(journal) : journal[i].seq < journal[k].seq

\* Where the recording leaves something out (an ad, a failed download, a reconnection, a restart),
\* the entry after it is marked as a discontinuity (live_record's pending_disc); a job that comes
\* back without any last_seq does not know of the gap.
GapsMarked ==
  \A i \in DOMAIN journal \ {1} :
    \/ journal[i].disc
    \/ journal[i].seq = journal[i - 1].seq + 1 /\ journal[i].stream = journal[i - 1].stream
    \/ \E s \in starts : s.at = i - 1 /\ s.from = NoSeq

Between(i, q) == /\ journal[i].stream = journal[i + 1].stream
                 /\ journal[i].seq < q /\ q < journal[i + 1].seq
\* What the recording leaves out was an ad, could not be downloaded or had left the playlist: no
\* segment of a batch is dropped by what happens to another, by a restart or by a reconnection
\* (live_record's loop over new).
NothingMissed ==
  \A i \in 1..Len(journal) - 1, q \in Segments :
    Between(i, q) => <<journal[i].stream, q>> \in Ads \cup excused

\* planning.recording_time: where a moment of the VOD is in the recording.
RecordingTime(wall, t) ==
  LET held == {i \in DOMAIN t : wall <= t[i].wall + t[i].length} IN
  IF held = {} THEN Last(t).rec + Last(t).length
  ELSE LET s == t[CHOOSE i \in held : \A k \in held : i <= k] IN
       IF wall < s.wall THEN s.rec ELSE s.rec + wall - s.wall

\* When a recording is finished, its timeline puts every segment that has a time where it is in the
\* recording, and the playlist has the init segment its segments need (live_record's end,
\* recording_timeline against recording_time), unless a run began without what the journal holds.
PlaysInPlace ==
  job.state = "done" =>
    \/ \E i \in DOMAIN journal : Forgotten(i)
    \/ /\ Fmp4 => job.mem.init
       /\ \A i \in DOMAIN journal :
            journal[i].seq \in Untimed \/ RecordingTime(Wall(journal[i]), job.mem.timeline) = i - 1

RecordingOver == job.state \notin {"queued", "running"}

\* jobs.py: "A step interrupted part-way is re-run, so steps must tolerate that": a segment is in
\* the recording once.
RecordedOnce ==
  \A i, k \in DOMAIN journal : i # k => <<journal[i].stream, journal[i].seq>> # <<journal[k].stream, journal[k].seq>>
=============================================================================
