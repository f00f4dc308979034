----------------------------- MODULE MCPlanning -----------------------------
(****************************************************************************)
(* Archives of small live recordings: what Twitch says of the VOD, what was *)
(* recorded of it, and the parts, gaps and censored ranges planned from     *)
(* both.                                                                    *)
(****************************************************************************)
EXTENDS Planning

CONSTANTS
  Lengths, Splits,  \* of VODs and of parts, in seconds
  Archives          \* archives, with what was planned of each as out

\* "cut" is a game in restricted_games; the VOD begins with a game, or with no category.
MomentSets ==
  {{}} \cup
  {{[name |-> "game", start |-> a, len |-> b - a], [name |-> "cut", start |-> b, len |-> n]} :
     a \in {0, 1, 3}, b \in {4, 5}, n \in {0, 3}} \cup
  {{[name |-> "cut", start |-> 0, len |-> n], [name |-> "game", start |-> b, len |-> 0]} : n \in {2, 4}, b \in {4, 7}}

\* Three recorded segments, the second and the third some units after the one before ended.
Recordings ==
  {LET second == w + 3 + Greatest(0, late)
   IN  <<<<3, w>>, <<n, IF late = Untimed THEN Untimed ELSE second>>, <<3, second + n + later>>>> :
     w \in {0, 2, 3}, n \in {1, 4}, late \in {Untimed, 0, 1, 4}, later \in {0, 3, 5}}

\* A blurred range and a black one, which may overlap it.
Censors ==
  {{[start |-> a, end |-> b, cover |-> "blur", mute |-> TRUE], [start |-> c, end |-> c + 4, cover |-> "black", mute |-> FALSE]} :
     a \in {1, 4}, b \in {5, 9}, c \in {0, 5, 8}}

EndOfRecording(spans) == spans[Len(spans)].wall + spans[Len(spans)].len

\* Bound: the recording ends with the VOD or before.
ToArchive ==
  {a \in {[kind |-> "archive", duration |-> Second * d, moments |-> ms, listed |-> names, segments |-> segs,
          split |-> Second * n, out |-> <<>>] :
          d \in Lengths, ms \in MomentSets, names \in {{"cut"}, {"cut", NoCategory}}, segs \in Recordings, n \in Splits} :
     EndOfRecording(RecordingTimeline(a.segments)) <= a.duration}

Censored == {[kind |-> "censor", segments |-> segs, ranges |-> rs] : segs \in Recordings, rs \in Censors}

In(x, span) == span[1] <= x /\ x < span[2]

\* Everything planned from one archive: its chapters, the recording's spans, the parts of the VOD's
\* file and of the recording, and the VOD with the recording's parts uploaded.
Plan(a) ==
  LET chapters == ChaptersFromMoments(a.moments, a.duration, a.listed)
      spans    == RecordingTimeline(a.segments)
      length   == Total([i \in DOMAIN a.segments |-> a.segments[i][1]])
      recorded == ChaptersOnRecording(chapters, spans)
      parts    == PlanParts(length, recorded, a.listed, a.split)
      gaps     == PartGaps(a.duration, chapters, a.listed, spans, parts)
  IN  [chapters |-> chapters, spans |-> spans, length |-> length, recorded |-> recorded, parts |-> parts,
       file |-> PlanParts(a.duration, chapters, a.listed, a.split),
       vod  |-> [duration |-> a.duration, chapters |-> chapters,
                 uploads |-> {[id |-> i, type |-> PlayedFirst, part |-> i, dur |-> Length(parts[i]), gaps |-> gaps[i]] :
                                i \in DOMAIN parts}]]

AllArchives == {[a EXCEPT !.out = Plan(a)] : a \in ToArchive}

\* In parts of at most split_duration, in order, exactly what is in no cut, but for a piece shorter
\* than min_part before a cut or the end.
PlaysAllOf(parts, length, blocked, split) ==
  /\ \A i \in DOMAIN parts : MinPart <= Length(parts[i]) /\ Length(parts[i]) <= split
  /\ \A i, k \in DOMAIN parts : i < k => parts[i][2] <= parts[k][1]
  /\ \A x \in 0..(length - 1) :
       LET inPart == \E p \in ToSet(parts) : In(x, p)
           from   == Max({0} \cup {s[2] : s \in {t \in blocked \cup ToSet(parts) : t[2] <= x}})
           to     == Min({length} \cup {s[1] : s \in {t \in blocked : t[1] > x}})
       IN  IF \E b \in blocked : In(x, b) THEN ~inPart ELSE inPart \/ to - from < MinPart

PartsOfArchive(a) ==
  LET p == a.out
  IN  /\ PlaysAllOf(p.file, a.duration, Restricted(p.chapters, a.listed), a.split)
      /\ PlaysAllOf(p.parts, p.length, Restricted(p.recorded, a.listed), a.split)
      \* With "No category" listed, nothing without a chapter is uploaded, but for a second's rounding.
      /\ NoCategory \in a.listed /\ a.moments # {} =>
           \A q \in ToSet(p.file) : \A x \in q[1]..(q[2] - Tolerance - 1) :
             \E c \in p.chapters : ~c.restricted /\ EndOf(c) > x /\ c.start <= x + Tolerance

\* The VOD time of the recording's frame r.
Truth(spans, r) == LET s == spans[Max({i \in DOMAIN spans : spans[i].rec <= r})] IN s.wall + r - s.rec

\* The members of S in runs no longer than the tolerance.
Slight(S) == {x \in S : Cardinality({y \in S : Least(x, y)..Greatest(x, y) \subseteq S}) <= Tolerance}

\* Each frame is played within what was left out for being short of where it was live: as much of
\* the uploaded footage lies between.
FramesOfArchive(a) ==
  LET p        == a.out
      t        == Laid(p.vod, PlayedFirst)
      recorded == {Truth(p.spans, r) : r \in 0..(p.length - 1)}
      sent     == {Truth(p.spans, r) : r \in UNION {q[1]..(q[2] - 1) : q \in ToSet(p.parts)}}
      uncut    == {x \in p.spans[1].wall..(a.duration - 1) : \A c \in t.cuts : ~In(x, c)}
      leftOut  == Slight(uncut \ recorded) \cup ((uncut \cap recorded) \ sent)
  IN  \A i \in DOMAIN p.parts : \A k \in 0..(Length(p.parts[i]) - 1) :
        LET v == VodTime(t, Total(SubSeq(t.parts, 1, i - 1)) + k)
            w == Truth(p.spans, p.parts[i][1] + k)
        IN  Cardinality({x \in sent : Least(v, w) <= x /\ x < Greatest(v, w)}) <= Cardinality(leftOut)

\* A frame of the recording is covered and muted as the VOD's ranges say of its VOD time.
CensoredFrames(a) ==
  LET spans  == RecordingTimeline(a.segments)
      length == Total([i \in DOMAIN a.segments |-> a.segments[i][1]])
      plan   == PlanCensor(CensorOnRecording(a.ranges, spans))
      At(x)  == {r \in a.ranges : r.start <= x /\ x < r.end}
  IN  /\ \A r \in 0..(length - 1) :
           LET over == {q.cover : q \in At(Truth(spans, r))}
               how  == {c[3] : c \in {d \in ToSet(plan.cover) : In(r, d)}}
           IN  /\ how = IF "black" \in over THEN {"black"} ELSE over \ {"none"}
               /\ (\E m \in ToSet(plan.mute) : In(r, m)) = (\E q \in At(Truth(spans, r)) : q.mute)
      /\ \A i \in 2..Len(plan.cover) :
           LET b == plan.cover[i - 1] IN b[2] < plan.cover[i][1] \/ (b[2] = plan.cover[i][1] /\ b[3] # plan.cover[i][3])
=============================================================================
