------------------------------ MODULE Planning ------------------------------
(****************************************************************************)
(* planning.py: the chapters of an archived VOD, the parts it is uploaded   *)
(* in, where a live recording lies on the VOD's timeline, and the ranges a  *)
(* censor or a claim covers.                                                *)
(*                                                                          *)
(* Times are units of Timeline; wall-clock time is counted from             *)
(* vods.created_at, so it is VOD time.  restricted_games is a set of names. *)
(****************************************************************************)
EXTENDS Timeline

Tolerance == Second                         \* GAP_TOLERANCE, TIMELINE_TOLERANCE
MinPart   == Second

\* Merged where they meet or overlap.
Joined(spans) ==
  LET Join(acc, s) ==
        LET n == Len(acc)
        IN  IF n > 0 /\ s[1] <= acc[n][2] THEN [acc EXCEPT ![n][2] = Greatest(@, s[2])] ELSE Append(acc, s)
  IN  FoldLeft(Join, <<>>, InOrder(spans))

----------------------------------------------------------------------------
(* Chapters.                                                                *)

NoCategory == "No category"

Chapter(name, start, len, restrictedGames) ==
  [name |-> name, start |-> start, len |-> len, restricted |-> name \in restrictedGames]

IsRestricted(ch, restrictedGames) == ch.restricted \/ ch.name \in restrictedGames

\* A "No category" chapter wherever none covers the VOD.
FillGaps(chapters, duration, restrictedGames) ==
  LET FillTo(n, t) == IF n - t > Tolerance THEN {Chapter(NoCategory, t, n - t, restrictedGames)} ELSE {}
      Step(acc, c) == [t |-> Greatest(acc.t, EndOf(c)), filled |-> acc.filled \cup {c} \cup FillTo(c.start, acc.t)]
      all == FoldLeft(Step, [t |-> 0, filled |-> {}], Ranked(chapters, LAMBDA c, d : c.start < d.start))
  IN  IF chapters = {} THEN {} ELSE all.filled \cup FillTo(duration, all.t)

\* Twitch's moments: [name, start, len], len 0 when it gives none.
ChaptersFromMoments(moments, duration, restrictedGames) ==
  FillGaps({Chapter(m.name, m.start, IF m.len > 0 THEN m.len ELSE duration - m.start, restrictedGames) : m \in moments},
           duration, restrictedGames)

SingleChapter(name, duration, restrictedGames) == {Chapter(name, 0, duration, restrictedGames)}

----------------------------------------------------------------------------
(* Live recordings: spans [rec, wall, len], each recorded without a gap.    *)

Untimed == -1

\* segments: <<duration, wall-clock start or Untimed>> of each recorded segment.
RecordingTimeline(segments) ==
  LET Lay(acc, seg) ==
        LET n == Len(acc.spans)
            end == IF n = 0 THEN 0 ELSE acc.spans[n].wall + acc.spans[n].len
            goesOn == n > 0 /\ (seg[2] = Untimed \/ (seg[2] - end <= Tolerance /\ end - seg[2] <= Tolerance))
        IN  [rec   |-> acc.rec + seg[1],
             spans |-> CASE goesOn             -> [acc.spans EXCEPT ![n].len = @ + seg[1]]
                         [] seg[2] = Untimed   -> acc.spans
                         [] OTHER              -> Append(acc.spans, [rec |-> acc.rec, wall |-> seg[2], len |-> seg[1]])]
  IN  FoldLeft(Lay, [rec |-> 0, spans |-> <<>>], segments).spans

\* Where a VOD time is in the recording: a moment not recorded is at the next one that was.
RecordingTime(t, spans) ==
  LET later == {i \in DOMAIN spans : t <= spans[i].wall + spans[i].len}
      i     == IF later = {} THEN Len(spans) ELSE Min(later)
  IN  IF later = {} THEN spans[i].rec + spans[i].len ELSE spans[i].rec + Greatest(0, t - spans[i].wall)

ChaptersOnRecording(chapters, spans) ==
  {[c EXCEPT !.start = RecordingTime(@, spans), !.len = RecordingTime(EndOf(c), spans) - RecordingTime(c.start, spans)] :
     c \in {d \in chapters : RecordingTime(EndOf(d), spans) > RecordingTime(d.start, spans)}}

\* Pieces of the spans outside the others, those that are not jitter.
Subtract(spans, minus) ==
  LET Without(pieces, m) == {p \in UNION {{<<q[1], Least(q[2], m[1])>>, <<Greatest(q[1], m[2]), q[2]>>} : q \in pieces} :
                               Length(p) > 0}
  IN  {p \in FoldSet(LAMBDA m, pieces : Without(pieces, m), spans, minus) : Length(p) > Tolerance}

\* The stretches of the VOD missed after the recording's first frame.
MissedAfterStart(duration, spans) ==
  LET ends == [i \in DOMAIN spans |-> Max({spans[k].wall + spans[k].len : k \in 1..i})]
      next == [i \in DOMAIN spans |-> IF i < Len(spans) THEN spans[i + 1].wall ELSE duration]
  IN  {<<ends[i], next[i]>> : i \in {k \in DOMAIN spans : next[k] - ends[k] > Tolerance}}

\* Mutant: footage missing before the first frame counts as upload time.
MissingSinceStart(spans, cuts, holes) == ToSet(Joined(cuts \cup holes))

Missing(spans, cuts, holes) ==
  ToSet(Joined({s \in {<<0, spans[1].wall>>} \cup cuts \cup holes : Length(s) > 0}))

\* Each part's gaps, from the lengths of all of them.
RecordingGaps(duration, spans, cuts, parts) ==
  LET holes   == Subtract(MissedAfterStart(duration, spans), cuts)
      missing == Missing(spans, cuts, holes)
      starts  == [i \in DOMAIN parts |-> Total(SubSeq(parts, 1, i - 1))]
      UploadAt(s) == s - MapThenSumSet(LAMBDA m : Greatest(0, Least(m[2], s) - m[1]), missing)
      PartOf(u) == LET reached == {i \in DOMAIN parts : u <= starts[i] + parts[i]}
                   IN  IF reached = {} THEN Len(parts) ELSE Min(reached)
      Gap(h) == LET i == PartOf(UploadAt(h[1]))
                IN  <<i, Least(Greatest(0, UploadAt(h[1]) - starts[i]), parts[i]), Length(h)>>
  IN  [i \in DOMAIN parts |->
         LET mine == SelectSeq(InOrder(holes), LAMBDA h : Gap(h)[1] = i)
         IN  [k \in DOMAIN mine |-> <<Gap(mine[k])[2], Gap(mine[k])[3]>>]]

----------------------------------------------------------------------------
(* Parts: <<start, end>>, numbered from 1.                                  *)

Restricted(chapters, restrictedGames) ==
  {<<c.start, EndOf(c)>> : c \in {d \in chapters : IsRestricted(d, restrictedGames)}}

\* The stretches between restricted chapters.
Allowed(duration, blocked) ==
  LET Step(acc, b) ==
        [cursor |-> Greatest(acc.cursor, b[2]),
         spans  |-> IF b[1] > acc.cursor THEN Append(acc.spans, <<acc.cursor, Least(b[1], duration)>>) ELSE acc.spans]
      all == FoldLeft(Step, [cursor |-> 0, spans |-> <<>>], InOrder(blocked))
  IN  IF all.cursor < duration THEN Append(all.spans, <<all.cursor, duration>>) ELSE all.spans

\* Mutant: a last piece of exactly min_part is dropped.
PiecesOver(span, split) ==
  LET starts == {i \in 0..Length(span) : span[2] - (span[1] + i * split) > MinPart}
  IN  [k \in 1..Cardinality(starts) |-> <<span[1] + (k - 1) * split, Least(span[1] + k * split, span[2])>>]

Pieces(span, split) ==
  LET starts == {i \in 0..Length(span) : span[2] - (span[1] + i * split) >= MinPart}
  IN  [k \in 1..Cardinality(starts) |-> <<span[1] + (k - 1) * split, Least(span[1] + k * split, span[2])>>]

PlanParts(duration, chapters, restrictedGames, split) ==
  LET allowed == Allowed(duration, Restricted(chapters, restrictedGames))
  IN  FlattenSeq([i \in DOMAIN allowed |-> Pieces(allowed[i], split)])

PartGaps(duration, chapters, restrictedGames, spans, parts) ==
  IF duration = 0 \/ spans = <<>> \/ parts = <<>> THEN [i \in DOMAIN parts |-> <<>>]
  ELSE RecordingGaps(duration, spans, Restricted(chapters, restrictedGames), [i \in DOMAIN parts |-> Length(parts[i])])

\* The chapters a part's description lists, with their times into the part.
ChapterLines(chapters, part, restrictedGames) ==
  {<<Greatest(0, c.start - part[1]), c.name>> :
     c \in {d \in chapters : ~IsRestricted(d, restrictedGames) /\ d.start < part[2] /\ EndOf(d) > part[1]}}

----------------------------------------------------------------------------
(* Claims [blocks, audio, video, start, len] and the censor's ranges        *)
(* [start, end, cover, mute], cover "none", "blur" or "black".              *)

ClaimSpans(claims) == {<<c.start, c.start + c.len>> : c \in {d \in claims : d.blocks /\ d.len > 0}}

PlanDmca(claims) == [mute     |-> Joined(ClaimSpans({c \in claims : c.audio})),
                     blackout |-> Joined(ClaimSpans({c \in claims : c.video}))]

Covers(ranges) == {r \in ranges : r.end > r.start /\ r.cover # "none"}

\* Mutant: where ranges overlap the one that began first wins.
CoverAtFirst(ranges, a, b) ==
  LET over == {r \in Covers(ranges) : r.start <= a /\ b <= r.end}
  IN  IF over = {} THEN "none" ELSE (CHOOSE r \in over : \A q \in over : r.start <= q.start).cover

\* Black wins.
CoverAt(ranges, a, b) ==
  LET over == {r.cover : r \in {q \in Covers(ranges) : q.start <= a /\ b <= q.end}}
  IN  IF "black" \in over THEN "black" ELSE IF over = {} THEN "none" ELSE "blur"

PlanCensor(ranges) ==
  LET points == InOrder({<<r.start, r.start>> : r \in Covers(ranges)} \cup {<<r.end, r.end>> : r \in Covers(ranges)})
      Step(acc, i) ==
        LET a == points[i][1]
            b == points[i + 1][1]
            how == CoverAt(ranges, a, b)
            n == Len(acc)
        IN  CASE how = "none" -> acc
              [] n > 0 /\ acc[n][2] = a /\ acc[n][3] = how -> [acc EXCEPT ![n][2] = b]
              [] OTHER -> Append(acc, <<a, b, how>>)
  IN  [cover |-> FoldLeft(Step, <<>>, [i \in 1..(Len(points) - 1) |-> i]),
       mute  |-> Joined({<<r.start, r.end>> : r \in {q \in ranges : q.end > q.start /\ q.mute}})]

CensorOnRecording(ranges, spans) ==
  {r \in {[q EXCEPT !.start = RecordingTime(@, spans), !.end = RecordingTime(@, spans)] : q \in ranges} : r.end > r.start}

=============================================================================
