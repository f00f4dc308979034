------------------------------ MODULE MCCapture ------------------------------
(* Instances of the two captures for TLC: one behaviour has a live job or   *)
(* an archive job, next to which the other one's world stands still (their  *)
(* directories and payloads have nothing in common).                        *)
EXTENDS LiveRecord

VARIABLES vod, have, index, capture, spent

CONSTANTS Total, Configured, NoChangeLimit, ErrorLimit

V == INSTANCE VodCapture

ASSUME VodConstants == V!VodCaptureAssumption

vodVars == <<vod, have, index, capture, spent>>

\* Stream 1 has segments 1 to 4, the third an ad; the channel's next one 2, an ad, and 3.
TwoStreams == <<1, 2>>
Lengths    == <<4, 2>>
TheAds     == {<<1, 3>>, <<2, 2>>}

\* Bound: another stream comes only after one that was short.
ShortFirst == air.stream # air'.stream => air.head = First[air.stream]

NoLiveJob  == /\ air = [stream |-> Len(First), on |-> FALSE, head |-> 0] /\ helix = None
              /\ files = <<>> /\ journal = <<>> /\ starts = {} /\ excused = {} /\ faults = 0
              /\ job = [state |-> "none", attempts |-> 0, saved |-> NoPayload, mem |-> NoPayload]
              /\ run = Idle
NoArchiveJob == /\ vod = [count |-> Total, form |-> [k \in 1..Total |-> "muted"], ended |-> TRUE,
                          live |-> FALSE, there |-> FALSE]
                /\ have = {} /\ index = V!NoIndex /\ spent = 0
                /\ capture = [state |-> "none", attempts |-> 0, once |-> FALSE, how |-> "none", run |-> V!Idle]

EitherInit == (Init /\ NoArchiveJob) \/ (NoLiveJob /\ V!Init)
EitherNext == (Next /\ ShortFirst /\ UNCHANGED vodVars) \/ (V!Next /\ UNCHANGED vars)
EitherSpec == EitherInit /\ [][EitherNext]_<<vars, vodVars>> /\ Fairness /\ V!Fairness

\* LiveRecord's order of what is recorded, with its gaps marked.
OrderedWithGaps == InOrder /\ GapsMarked

\* Either capture leaves out nothing that could be had: see LiveRecord and VodCapture.
CapturedWhole == NothingMissed /\ V!FinishedWhole

\* VodCapture's property of muted segments: see there.
KeepsSound == V!KeepsSound

\* Either capture ends once its stream has, whatever the playlist, the connection, the downloads and
\* Helix do meanwhile, and whichever stream comes next (live_record: idle, failures and _still_live;
\* capture: errors, stuck and no_change).
CapturesEnd == <>(RecordingOver /\ V!CaptureOver)
=============================================================================
