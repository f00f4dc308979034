------------------------------ MODULE StreamJobs ------------------------------
(****************************************************************************)
(* The monitor: which jobs a stream gets (monitor.py), with the rows and    *)
(* the queue it decides on (vods.py, jobs.py), the live job that looks for  *)
(* its VOD (media.resolve_vod), admins who archive a VOD by hand and change *)
(* settings meanwhile, Twitch answering late, and a database that fails     *)
(* anywhere in a round.                                                     *)
(*                                                                          *)
(* Streams are numbered as they go on; a VOD has its stream's number.       *)
(****************************************************************************)
EXTENDS Integers, FiniteSets

CONSTANTS
  LastStream,
  MaxOddities   \* bound: late answers, failed rounds, settings switched and requests by hand

StreamsAssumption == LastStream \in Nat

VARIABLES
  twitch,   \* [on, last, videos]: the stream that is on (0: none), the last one, streams with a VOD there
  rows,     \* [live, vods]: streams marked live, VODs in the archive
  queue,    \* <<kind, stream, who>> -> how many such jobs were queued, ended ones too
  active,   \* streams with an archive job queued, running or paused
  tick,     \* the monitor's round: [step, seen, ended, reading]
  live,     \* stream -> its live job: "none", "recording", "resolving", "done"
  byHand,   \* [step, stream]: an admin's request to archive a VOD
  settings, \* [record, tracks, download]: live_record, multi_track, vod_download
  absent,   \* history: streams that had no VOD when the monitor looked for one at their end
  oddities  \* how many there were, for the bound

streamVars == <<twitch, rows, queue, active, tick, live, byHand, settings, absent, oddities>>

Streams == 1..LastStream
Kinds == {"live", "archive", "bot_chat"}
Idle  == [step |-> "idle", seen |-> 0, ended |-> {}, reading |-> 0]
NoRequest == [step |-> "idle", stream |-> 0]

Odd == oddities < MaxOddities /\ oddities' = oddities + 1

\* exists_any: jobs of any state, of the queue the worker has now and of the one it had before.
ExistsAny(kind, stream) == \E who \in {"monitor", "admin"} : queue[<<kind, stream, who>>] > 0
Queued(kind, stream, who) == queue' = [queue EXCEPT ![<<kind, stream, who>>] = @ + 1]

\* upsert_vod, and vod_id_for_stream.
UpsertVod(stream) == rows' = [rows EXCEPT !.vods = @ \cup {stream}]
HasVod(stream)    == stream \in rows.vods

Step(step) == tick' = [tick EXCEPT !.step = step]

----------------------------------------------------------------------------
(* Twitch.                                                                  *)

GoesOn ==
  /\ twitch.on = 0 /\ twitch.last < LastStream
  /\ twitch' = [twitch EXCEPT !.on = twitch.last + 1, !.last = @ + 1]
  /\ UNCHANGED <<rows, queue, active, tick, live, byHand, settings, absent, oddities>>

\* The VOD of a stream is there after a while, or never.
VideoAppears ==
  /\ twitch.on # 0 /\ twitch.on \notin twitch.videos
  /\ twitch' = [twitch EXCEPT !.videos = @ \cup {twitch.on}]
  /\ UNCHANGED <<rows, queue, active, tick, live, byHand, settings, absent, oddities>>

GoesOff ==
  /\ twitch.on # 0
  /\ twitch' = [twitch EXCEPT !.on = 0]
  /\ UNCHANGED <<rows, queue, active, tick, live, byHand, settings, absent, oddities>>

----------------------------------------------------------------------------
(* Monitor.tick.                                                            *)

\* get_stream: what is on, or, late, nothing or the last stream.
Look ==
  \E seen \in {twitch.on, 0, twitch.last} :
    /\ tick.step = "idle"
    /\ IF seen # twitch.on THEN Odd ELSE UNCHANGED oddities
    /\ tick' = [Idle EXCEPT !.step = "ended", !.seen = seen, !.ended = rows.live \ {seen}]
    /\ UNCHANGED <<twitch, rows, queue, active, live, byHand, settings, absent>>

\* stream_ended: once per stream, and only if Twitch has its VOD.
StreamEnded ==
  \E stream \in tick.ended :
    LET found == ~ExistsAny("bot_chat", stream) /\ stream \in twitch.videos
    IN  /\ tick.step = "ended"
        /\ tick' = [tick EXCEPT !.ended = @ \ {stream}, !.step = IF found THEN "bot" ELSE "ended",
                                !.reading = IF found THEN stream ELSE 0]
        /\ IF found THEN UpsertVod(stream) ELSE UNCHANGED rows
        /\ absent' = IF stream \notin twitch.videos THEN absent \cup {stream} ELSE absent
        /\ UNCHANGED <<twitch, queue, active, live, byHand, settings, oddities>>

EnqueueBotChat ==
  /\ tick.step = "bot"
  /\ Queued("bot_chat", tick.reading, "monitor")
  /\ tick' = [tick EXCEPT !.step = "ended", !.reading = 0]
  /\ UNCHANGED <<twitch, rows, active, live, byHand, settings, absent, oddities>>

\* set_live_stream: the only one live, or none.
SetLive ==
  /\ tick.step = "ended" /\ tick.ended = {}
  /\ rows' = [rows EXCEPT !.live = IF tick.seen = 0 THEN {} ELSE {tick.seen}]
  /\ IF tick.seen = 0 THEN tick' = Idle ELSE Step("live")
  /\ UNCHANGED <<twitch, queue, active, live, byHand, settings, absent, oddities>>

CheckLive ==
  /\ tick.step = "live"
  /\ Step(IF settings.record /\ ~ExistsAny("live", tick.seen) THEN "record" ELSE "vod")
  /\ UNCHANGED <<twitch, rows, queue, active, live, byHand, settings, absent, oddities>>

EnqueueLive ==
  /\ tick.step = "record"
  /\ Queued("live", tick.seen, "monitor")
  /\ live' = [live EXCEPT ![tick.seen] = "recording"]
  /\ Step("vod")
  /\ UNCHANGED <<twitch, rows, active, byHand, settings, absent, oddities>>

\* Without multi_track the live job does what the archive job would.
LiveOnly == settings.record /\ ~settings.tracks

Archived(stream) == ExistsAny("archive", stream)

CheckArchive ==
  LET stream == tick.seen
  IN  /\ tick.step = "vod"
      /\ IF \/ ~settings.download
            \/ IF LiveOnly THEN HasVod(stream) ELSE Archived(stream)
            \/ stream \notin twitch.videos
           THEN tick' = Idle /\ UNCHANGED rows
           ELSE /\ UpsertVod(stream)
                /\ IF LiveOnly THEN tick' = Idle ELSE Step("archive")
      /\ UNCHANGED <<twitch, queue, active, live, byHand, settings, absent, oddities>>

EnqueueArchive ==
  /\ tick.step = "archive"
  /\ Queued("archive", tick.seen, "monitor")
  /\ active' = active \cup {tick.seen}
  /\ tick' = Idle
  /\ UNCHANGED <<twitch, rows, live, byHand, settings, absent, oddities>>

\* Mutant: a stream whose chat job could not be queued is passed over.
PassedOver == IF tick.step = "bot" THEN [tick EXCEPT !.step = "ended", !.reading = 0] ELSE Idle
\* run_forever logs it, and begins again.
GivenUp == Idle

TickFails ==
  /\ tick.step # "idle"
  /\ tick' = GivenUp
  /\ Odd
  /\ UNCHANGED <<twitch, rows, queue, active, live, byHand, settings, absent>>

----------------------------------------------------------------------------
(* The live job, at the end of its stream, and archive jobs.                *)

Recorded(stream) ==
  /\ live[stream] = "recording" /\ twitch.on # stream
  /\ live' = [live EXCEPT ![stream] = "resolving"]
  /\ UNCHANGED <<twitch, rows, queue, active, tick, byHand, settings, absent, oddities>>

\* resolve_vod: the row the monitor made, or one from Twitch's answer.
ResolveVod(stream) ==
  /\ live[stream] = "resolving" /\ (HasVod(stream) \/ stream \in twitch.videos)
  /\ UpsertVod(stream)
  /\ live' = [live EXCEPT ![stream] = "done"]
  /\ UNCHANGED <<twitch, queue, active, tick, byHand, settings, absent, oddities>>

ArchiveEnds(stream) ==
  /\ stream \in active
  /\ active' = active \ {stream}
  /\ UNCHANGED <<twitch, rows, queue, tick, live, byHand, settings, absent, oddities>>

----------------------------------------------------------------------------
(* /admin/hls/download and /admin/twitch/import.                            *)

AskToArchive(stream) ==
  /\ byHand.step = "idle"
  /\ stream \in twitch.videos /\ stream \notin active
  /\ UpsertVod(stream)
  /\ byHand' = [step |-> "checked", stream |-> stream]
  /\ Odd
  /\ UNCHANGED <<twitch, queue, active, tick, live, settings, absent>>

EnqueueByHand ==
  /\ byHand.step = "checked"
  /\ Queued("archive", byHand.stream, "admin")
  /\ active' = active \cup {byHand.stream}
  /\ byHand' = NoRequest
  /\ UNCHANGED <<twitch, rows, tick, live, settings, absent, oddities>>

Toggle(setting) ==
  /\ settings' = [settings EXCEPT ![setting] = ~@]
  /\ Odd
  /\ UNCHANGED <<twitch, rows, queue, active, tick, live, byHand, absent>>

----------------------------------------------------------------------------

Init ==
  /\ twitch = [on |-> 0, last |-> 0, videos |-> {}]
  /\ rows = [live |-> {}, vods |-> {}]
  /\ queue = [j \in Kinds \X Streams \X {"monitor", "admin"} |-> 0]
  /\ active = {} /\ tick = Idle /\ byHand = NoRequest /\ absent = {}
  /\ live = [s \in Streams |-> "none"]
  /\ settings = [record |-> TRUE, tracks |-> TRUE, download |-> TRUE]
  /\ oddities = 0

Next ==
  \/ GoesOn \/ VideoAppears \/ GoesOff
  \/ Look \/ StreamEnded \/ EnqueueBotChat \/ SetLive \/ CheckLive \/ EnqueueLive
  \/ CheckArchive \/ EnqueueArchive \/ TickFails
  \/ \E s \in Streams : Recorded(s) \/ ResolveVod(s) \/ ArchiveEnds(s) \/ AskToArchive(s)
  \/ EnqueueByHand
  \/ \E setting \in DOMAIN settings : Toggle(setting)

Spec == Init /\ [][Next]_streamVars

----------------------------------------------------------------------------

TypeOK ==
  /\ rows.live \subseteq Streams /\ rows.vods \subseteq Streams /\ active \subseteq Streams
  /\ queue \in [Kinds \X Streams \X {"monitor", "admin"} -> Nat]
  /\ Cardinality(rows.live) <= 1

\* Whatever fails in a round, however late Twitch answers, and whatever admins queue and switch
\* meanwhile, the monitor queues one live, one archive and one bot_chat job for a stream at the most
\* (its exists_any, which counts ended jobs), and a stream is not marked offline before its chat was
\* asked for, unless Twitch had no VOD of it (tick, "Before they are marked offline").
StreamsHaveTheirJobs ==
  /\ \A kind \in Kinds, s \in Streams : queue[<<kind, s, "monitor">>] <= 1
  /\ \A s \in Streams : live[s] # "none" /\ s \notin rows.live /\ tick.step = "idle" =>
       ExistsAny("bot_chat", s) \/ s \in absent
=============================================================================
