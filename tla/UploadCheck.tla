----------------------------- MODULE UploadCheck -----------------------------
(****************************************************************************)
(* youtube_check.py: what the check of a VOD's uploads says, of the list it *)
(* read and of what YouTube answered afterwards, batch by batch, while jobs *)
(* and admins replace uploads and YouTube or its owner removes, refuses or  *)
(* trims them.                                                              *)
(*                                                                          *)
(* An upload is [type, part, gen]: gen says which upload of the part it is. *)
(****************************************************************************)
EXTENDS Integers, FiniteSets, FiniteSetsExt

CONSTANTS
  Copies,        \* what may have been uploaded: sets of entries [type, part, gen, duration, gaps]
  Planned,       \* seconds the uploads were meant to hold
  SHORT_BY, INCOMPLETE_BY, BATCH,
  Trimmed,       \* seconds that may be cut off an upload on YouTube
  None,
  MaxEvents      \* bound: things that happen to the uploads

VARIABLES
  listed,    \* vods.youtube
  channel,   \* upload -> [status, seconds], of those YouTube knows
  check,     \* [step, rows, asked, found]
  report,    \* the issues the last check ended with, or None while one runs or something happened since
  whole,     \* history: nothing was lost since the uploads were made
  stale,     \* history: something happened since the check read the list
  events     \* how much happened, for the bound

checkVars == <<listed, channel, check, report, whole, stale, events>>

NoCheck == [step |-> "idle", rows |-> {}, asked |-> {}, found |-> <<>>]
Id(e) == <<e.type, e.part, e.gen>>
Ids(rows) == {Id(e) : e \in rows}

----------------------------------------------------------------------------
(* What is wrong with one upload.                                           *)

Issue(kind, e) == [kind |-> kind, type |-> e.type, part |-> e.part]
Bad == {"removed", "rejected", "failed", "missingPart", "incomplete"}
HasBad(issues) == \E i \in issues : i.kind \in Bad

VideoIssues(e, video) ==
  IF video = None \/ video.status = "deleted" THEN {Issue("removed", e)}
  ELSE (IF video.status \in {"rejected", "failed"} THEN {Issue(video.status, e)} ELSE {})
       \cup (IF video.status = "uploaded" THEN {Issue("processing", e)} ELSE {})
       \cup (IF video.status = "processed" /\ video.seconds > 0 /\ video.seconds < e.duration - SHORT_BY
             THEN {Issue("shorter", e)} ELSE {})

\* Each gap's second number less its first.
GapSeconds(e) == MapThenSumSet(LAMBDA g : IF g[2] > g[1] THEN g[2] - g[1] ELSE 0, e.gaps)

----------------------------------------------------------------------------
(* vod_report.                                                              *)

Parts(rows, type) == {e \in rows : e.type = type}

Video(found, e) == IF Id(e) \in DOMAIN found THEN found[Id(e)] ELSE None

\* Mutant: the length the entry says, not the one YouTube has.
LengthListed(e, video) == e.duration
\* A video YouTube still works on has no length yet: the entry's counts.
LengthThere(e, video) == IF video.seconds > 0 THEN video.seconds ELSE e.duration

Holds(parts, found) == {e \in parts : ~HasBad(VideoIssues(e, Video(found, e)))}

Held(parts, found) ==
  MapThenSumSet(LAMBDA e : IF Video(found, e) = None THEN e.duration ELSE LengthThere(e, Video(found, e)),
                Holds(parts, found))
Gaps(parts, found) == MapThenSumSet(GapSeconds, Holds(parts, found))

MissingParts(parts) ==
  LET numbers == {e.part : e \in parts}
  IN  {[kind |-> "missingPart", type |-> e.type, part |-> n] :
        e \in parts, n \in (1..Max(numbers)) \ numbers}

\* The most that any copy holds, the ad breaks a recording missed counted.
Best(rows, found) ==
  Max({Held(Parts(rows, t), found) + Gaps(Parts(rows, t), found) : t \in {e.type : e \in rows}})

VodReport(rows, found) ==
  UNION {VideoIssues(e, Video(found, e)) : e \in rows}
  \cup UNION {MissingParts(Parts(rows, e.type)) : e \in rows}
  \cup IF rows # {} /\ Best(rows, found) < Planned - INCOMPLETE_BY
       THEN {[kind |-> "incomplete", type |-> None, part |-> None]} ELSE {}

----------------------------------------------------------------------------
(* check: the list is read, YouTube is asked, the result is kept.           *)

Begin ==
  /\ check.step = "idle"
  /\ check' = [step |-> "asking", rows |-> listed, asked |-> {}, found |-> <<>>]
  /\ stale' = FALSE /\ report' = None
  /\ UNCHANGED <<listed, channel, whole, events>>

AskBatch ==
  LET left == Ids(check.rows) \ check.asked
  IN  \E ids \in SUBSET left :
        /\ check.step = "asking" /\ left # {}
        /\ Cardinality(ids) = BATCH \/ (Cardinality(left) < BATCH /\ ids = left)
        /\ check' = [check EXCEPT !.asked = @ \cup ids,
                                  !.found = [id \in DOMAIN @ \cup (ids \cap DOMAIN channel) |->
                                              IF id \in ids THEN channel[id] ELSE @[id]]]
        /\ UNCHANGED <<listed, channel, report, whole, stale, events>>

Report ==
  /\ check.step = "asking" /\ Ids(check.rows) = check.asked
  /\ report' = VodReport(check.rows, check.found)
  /\ check' = NoCheck
  /\ UNCHANGED <<listed, channel, whole, stale, events>>

----------------------------------------------------------------------------
(* What happens to the uploads.                                             *)

Happens ==
  /\ events < MaxEvents
  /\ events' = events + 1
  /\ stale' = TRUE
  /\ report' = IF check.step = "idle" THEN None ELSE report
  /\ UNCHANGED check

\* The owner trims an upload; YouTube refuses it; it is deleted, and listed so for a while or not at all.
Changes(e, video) ==
  /\ Happens
  /\ Id(e) \in DOMAIN channel /\ channel[Id(e)].status \in {"processed", "uploaded"}
  /\ channel' = IF video = None THEN [id \in DOMAIN channel \ {Id(e)} |-> channel[id]]
                ELSE [channel EXCEPT ![Id(e)] = video]
  /\ whole' = FALSE
  /\ UNCHANGED listed

Processed(e) ==
  /\ Happens
  /\ Id(e) \in DOMAIN channel /\ channel[Id(e)].status = "uploaded"
  /\ channel' = [channel EXCEPT ![Id(e)] = [status |-> "processed", seconds |-> e.duration]]
  /\ UNCHANGED <<listed, whole>>

\* An admin takes an entry off the list.
Unlisted(e) ==
  /\ Happens
  /\ listed' = listed \ {e}
  /\ whole' = FALSE
  /\ UNCHANGED channel

\* A job uploads the part again: the list has the new upload, the old one is deleted.
Replaced(e) ==
  LET new == [e EXCEPT !.gen = @ + 1]
  IN  /\ Happens
      /\ whole
      /\ listed' = (listed \ {e}) \cup {new}
      /\ channel' = [id \in (DOMAIN channel \ {Id(e)}) \cup {Id(new)} |->
                      IF id = Id(new) THEN [status |-> "uploaded", seconds |-> 0] ELSE channel[id]]
      /\ UNCHANGED whole

----------------------------------------------------------------------------

Init ==
  /\ listed \in Copies
  /\ channel = [id \in Ids(listed) |->
      [status |-> "processed", seconds |-> (CHOOSE e \in listed : Id(e) = id).duration]]
  /\ check = NoCheck /\ report = None /\ whole = TRUE /\ stale = FALSE /\ events = 0

Next ==
  \/ Begin \/ AskBatch \/ Report
  \/ \E e \in listed :
       \/ Processed(e) \/ Unlisted(e) \/ Replaced(e)
       \/ \E status \in {"rejected", "failed", "deleted"} : Changes(e, [status |-> status, seconds |-> 0])
       \/ \E by \in Trimmed : Changes(e, [status |-> "processed", seconds |-> e.duration - by])
       \/ Changes(e, None)

Spec == Init /\ [][Next]_checkVars

----------------------------------------------------------------------------

TypeOK ==
  /\ check.step \in {"idle", "asking"} /\ check.asked \subseteq Ids(check.rows)
  /\ \A id \in DOMAIN channel : channel[id].status \in {"processed", "uploaded", "rejected", "failed", "deleted"}

\* What the channel shows of a copy, an upload it still works on in full.
Shows(e) ==
  LET video == channel[Id(e)]
  IN  IF Id(e) \notin DOMAIN channel THEN 0
      ELSE IF video.status = "processed" THEN video.seconds
      ELSE IF video.status = "uploaded" THEN e.duration
      ELSE 0
Playable(type) == MapThenSumSet(Shows, Parts(listed, type))

\* The seconds of ad breaks a copy is without: a gap is [seconds into the upload, length].
Missed(type) == MapThenSumSet(LAMBDA e : MapThenSumSet(LAMBDA g : g[2], e.gaps), Parts(listed, type))

\* When nothing happened between the check's look at the list and its end, a VOD none of whose copies
\* shows what was planned is reported as bad, and so is one that lost an upload (youtube_check.py).
LossIsReported ==
  report # None /\ ~stale =>
    /\ (\A e \in listed : Playable(e.type) + Missed(e.type) < Planned - INCOMPLETE_BY) /\ listed # {} => HasBad(report)
    /\ (\E e \in listed : Id(e) \notin DOMAIN channel) => HasBad(report)

\* A VOD of whose uploads nothing was lost is not reported as bad, the ad breaks its live recording
\* missed counted (youtube_check.py, "the ad breaks a live recording missed").
WholeIsNotBad == report # None /\ ~stale /\ whole => ~HasBad(report)
=============================================================================
