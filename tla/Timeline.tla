------------------------------ MODULE Timeline ------------------------------
(****************************************************************************)
(* timeline.py: how the site reads a VOD, and the plans of a merge and of a *)
(* split.  A side is what a plan needs of a VOD: its duration, its chapters *)
(* and its uploads.                                                         *)
(*                                                                          *)
(* Times are whole numbers of units, Second units to the second: a VOD's    *)
(* length and the offset of a merge are whole seconds, an upload's length   *)
(* is not.  Arithmetic is exact, so EPS is zero.                            *)
(****************************************************************************)
EXTENDS Integers, FiniteSetsExt, SequencesExt

CONSTANTS
  Second,     \* units in a second
  VideoTypes, \* the types of upload, a set
  PlayedFirst \* "live": the type the site plays when a VOD has any of it

ASSUME SecondAssumption == Second \in Nat \ {0}

Slack == Second \div 2                      \* SPLIT_SLACK
Least(a, b)    == IF a <= b THEN a ELSE b
Greatest(a, b) == IF a >= b THEN a ELSE b
Total(s)       == FoldSeq(+, 0, s)
Length(span)   == span[2] - span[1]

Ranked(S, Before(_, _)) ==
  [i \in 1..Cardinality(S) |-> CHOOSE x \in S : Cardinality({y \in S : Before(y, x)}) = i - 1]

\* Spans (start, end) in order.
Earlier(p, q) == p[1] < q[1] \/ (p[1] = q[1] /\ p[2] < q[2])
InOrder(S)    == Ranked(S, Earlier)

----------------------------------------------------------------------------
(* Chapters: [name, start, len, restricted], a set.                         *)

EndOf(ch) == ch.start + ch.len

Cuts(chapters) == {<<c.start, EndOf(c)>> : c \in {d \in chapters : d.restricted /\ d.len > 0}}

\* clip(chapters, -inf, hi) and clip(chapters, lo, inf).
Until(chapters, hi) ==
  {[c EXCEPT !.len = Least(@, hi - c.start)] : c \in {d \in chapters : EndOf(d) <= hi \/ d.start < hi}}
From(chapters, lo) ==
  {[c EXCEPT !.start = Greatest(@, lo), !.len = EndOf(c) - Greatest(c.start, lo)] :
     c \in {d \in chapters : d.start >= lo \/ EndOf(d) > lo}}

Shift(chapters, by) == {[c EXCEPT !.start = @ + by] : c \in chapters}

GapName == "Technical difficulties"
GapChapter(start, len) == [name |-> GapName, start |-> start, len |-> len, restricted |-> TRUE]

----------------------------------------------------------------------------
(* Uploads: [id, type, part, dur, gaps], a set; gaps is a sequence of       *)
(* <<time into the upload, length>>.                                        *)

UploadTypes(uploads) == {e.type : e \in uploads}

PlayedType(types) == IF PlayedFirst \in types THEN PlayedFirst ELSE CHOOSE t \in types : TRUE

Parts(uploads, typ) == Ranked({e \in uploads : e.type = typ}, LAMBDA d, e : d.part < e.part)

Renumber(lists) ==
  UNION {LET es == FlattenSeq([i \in DOMAIN lists |-> Parts(lists[i], typ)])
         IN  {[es[i] EXCEPT !.part = i] : i \in DOMAIN es} : typ \in VideoTypes}

----------------------------------------------------------------------------
(* One type's uploads laid over a VOD's timeline.                           *)

\* Footage missing at the start of the VOD.
Delay(duration, parts, cuts, gaps) ==
  duration - Total(parts) - Total([k \in DOMAIN gaps |-> gaps[k][2]]) - MapThenSumSet(Length, cuts)

\* Where a time lands that skips every span it reaches, and, unless it is an end, every span it meets.
Skipping(v, spans, ending) ==
  FoldLeft(LAMBDA w, span : IF span[1] < w \/ (~ending /\ span[1] = w) THEN w + Length(span) ELSE w, v, spans)

\* Mutant: a gap does not move the gaps after it.
HolesApart(delay, cuts, gaps) ==
  LET Lay(acc, gap) ==
        LET v == Skipping(gap[1] + acc.shift, InOrder(acc.cuts), FALSE)
        IN  [shift |-> v - gap[1], cuts |-> {c \in acc.cuts : c[1] > v},
             holes |-> acc.holes \cup {<<v, v + gap[2]>>}]
  IN  InOrder(FoldLeft(Lay, [shift |-> delay, cuts |-> cuts, holes |-> cuts], gaps).holes)

\* In VOD time, every cut and every gap: a gap lies after the cuts that begin before it.
Holes(delay, cuts, gaps) ==
  LET Lay(acc, gap) ==
        LET v == Skipping(gap[1] + acc.shift, InOrder(acc.cuts), FALSE)
        IN  [shift |-> v - gap[1] + gap[2], cuts |-> {c \in acc.cuts : c[1] > v},
             holes |-> acc.holes \cup {<<v, v + gap[2]>>}]
  IN  InOrder(FoldLeft(Lay, [shift |-> delay, cuts |-> cuts, holes |-> cuts], gaps).holes)

Laid(side, typ) ==
  LET es     == Parts(side.uploads, typ)
      durs   == [i \in DOMAIN es |-> es[i].dur]
      placed == [i \in DOMAIN es |->
                   LET gs == SelectSeq(es[i].gaps, LAMBDA g : g[2] > 0)
                   IN  [k \in DOMAIN gs |-> <<Total(SubSeq(durs, 1, i - 1)) + gs[k][1], gs[k][2]>>]]
      gaps   == FlattenSeq(placed)
      cuts   == Cuts(side.chapters)
      delay  == Delay(side.duration, durs, cuts, gaps)
  IN  [duration |-> side.duration, parts |-> durs, cuts |-> cuts, gaps |-> gaps, delay |-> delay,
       holes |-> Holes(delay, cuts, gaps)]

\* vod_time: where the frame at an upload time lands, or ends (EndTime).
VodTime(t, u) == Skipping(u + t.delay, t.holes, FALSE)
EndTime(t, u) == Skipping(u + t.delay, t.holes, TRUE)

\* Each part from its first frame to the end of its last, a gap at its end included.
PartSpans(t) ==
  [i \in DOMAIN t.parts |->
     LET u    == Total(SubSeq(t.parts, 1, i - 1))
         end  == u + t.parts[i]
         tail == SelectSeq(t.gaps, LAMBDA g : u < g[1] /\ g[1] = end)
     IN  <<VodTime(t, u), EndTime(t, end) + Total([k \in DOMAIN tail |-> tail[k][2]])>>]

Intersect(A, B) ==
  {s \in {<<Greatest(a[1], b[1]), Least(a[2], b[2])>> : a \in A, b \in B} : s[1] <= s[2]}

\* Where one of these uploads can end.
SplitIntervals(t) ==
  LET spans == PartSpans(t)
      n     == Len(spans)
  IN  IF n = 0 THEN {<<0, t.duration>>}
      ELSE {<<spans[i][2], spans[i + 1][1]>> : i \in 1..(n - 1)}
           \cup Intersect({<<0, spans[1][1]>>, <<spans[n][2], t.duration>>}, t.cuts)

----------------------------------------------------------------------------
(* plan_merge: b, the later VOD, appended to a at an offset.                *)

FirstFrame(b) ==
  IF b.uploads = {} THEN 0 ELSE VodTime(Laid(b, PlayedType(UploadTypes(b.uploads))), 0)

CanMerge(a, b, offset) ==
  /\ offset >= a.duration
  /\ UploadTypes(a.uploads) = UploadTypes(b.uploads)
  /\ offset + FirstFrame(b) >= a.duration

\* Mutant: the gap chapter ends where the source begins.
JoinOfOffset(a, b, offset) == <<a.duration, offset>>

\* The gap chapter's span, empty when there is none.
JoinOf(a, b, offset) == <<a.duration, offset + FirstFrame(b)>>

PlanMerge(a, b, offset) ==
  LET join == JoinOf(a, b, offset)
      gap  == IF Length(join) > 0 THEN {GapChapter(join[1], Length(join))} ELSE {}
  IN  [duration |-> offset + b.duration,
       chapters |-> Until(a.chapters, join[1]) \cup From(Shift(b.chapters, offset), join[2]) \cup gap,
       uploads  |-> Renumber(<<a.uploads, b.uploads>>)]

----------------------------------------------------------------------------
(* plan_split: the halves of a at a whole second.                           *)

SideIntervals(a) ==
  FoldSet(LAMBDA typ, acc : Intersect(acc, SplitIntervals(Laid(a, typ))), {<<0, a.duration>>},
          UploadTypes(a.uploads))

CanSplit(a, at) ==
  /\ 0 < at /\ at < a.duration
  /\ \E s \in SideIntervals(a) : s[1] - Slack <= at /\ at <= s[2] + Slack

\* Mutant: no slack at the end of a part.
FirstPartsExact(a, typ, at) ==
  LET spans == PartSpans(Laid(a, typ)) IN Cardinality({i \in DOMAIN spans : spans[i][2] < at})

\* How many parts of a type the first half keeps.
FirstParts(a, typ, at) ==
  LET spans == PartSpans(Laid(a, typ)) IN Cardinality({i \in DOMAIN spans : spans[i][2] <= at + Slack})

SecondUploads(a, at) ==
  UNION {LET es == Parts(a.uploads, typ)
         IN  {es[i] : i \in {k \in DOMAIN es : k > FirstParts(a, typ, at)}} : typ \in UploadTypes(a.uploads)}

PlanSplit(a, at) ==
  [first  |-> [duration |-> at, chapters |-> Until(a.chapters, at),
               uploads |-> a.uploads \ SecondUploads(a, at)],
   second |-> [duration |-> a.duration - at, chapters |-> Shift(From(a.chapters, at), -at),
               uploads |-> Renumber(<<SecondUploads(a, at)>>)]]

=============================================================================
