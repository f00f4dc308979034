------------------------------- MODULE Compose -------------------------------
(****************************************************************************)
(* compose.py and segments.py: a synthetic VOD composed from windows of     *)
(* other VODs, what its cached columns say, and the windows of real VODs    *)
(* that play it.                                                            *)
(*                                                                          *)
(* A segment is [src, start, end, at]; end may be ToTheEnd.  sources maps a *)
(* VOD to its [duration, chapters]; inner maps each synthetic VOD to its    *)
(* resolved segments.                                                       *)
(****************************************************************************)
EXTENDS Timeline

CONSTANTS ToTheEnd, MaxDepth

Clip(chapters, lo, hi) == From(Until(chapters, hi), lo)
LengthOf(seg) == Greatest(0, seg.end - seg.start)
Ceil(t) == ((t + Second - 1) \div Second) * Second

----------------------------------------------------------------------------
(* resolve, total, derive.                                                  *)

\* Mutant: a segment runs on past where the next one starts.
ResolveAlone(segments, durations) ==
  [i \in DOMAIN segments |->
     [segments[i] EXCEPT !.end = IF @ = ToTheEnd THEN durations[segments[i].src] ELSE @]]

\* Each segment with where it actually ends in its source.
Resolve(segments, durations) ==
  [i \in DOMAIN segments |->
     LET s == segments[i]
         limits == (IF s.end = ToTheEnd THEN {} ELSE {s.end})
                   \cup (IF durations[s.src] = 0 THEN {} ELSE {durations[s.src]})
                   \cup (IF i = Len(segments) THEN {} ELSE {s.start + segments[i + 1].at - s.at})
     IN  [s EXCEPT !.end = Greatest(s.start, IF limits = {} THEN s.start ELSE Min(limits))]]

TotalOf(resolved) == Max({0} \cup {s.at + LengthOf(s) : s \in ToSet(resolved)})

DurationsOf(sources) == [v \in DOMAIN sources |-> sources[v].duration]

\* The cached columns: what a segment shows, moved to where it is, and a gap chapter between two.
Derive(segments, sources) ==
  LET resolved == Resolve(segments, DurationsOf(sources))
      EndBefore(i) == Max({0} \cup {resolved[k].at + LengthOf(resolved[k]) : k \in 1..(i - 1)})
      Gap(i) == IF resolved[i].at > EndBefore(i) THEN {GapChapter(EndBefore(i), resolved[i].at - EndBefore(i))} ELSE {}
      Shows(s) == IF LengthOf(s) = 0 THEN {}
                  ELSE Shift(Clip(sources[s.src].chapters, s.start, s.end), s.at - s.start)
  IN  [duration |-> Ceil(TotalOf(resolved)),
       chapters |-> UNION {Gap(i) \cup Shows(resolved[i]) : i \in DOMAIN resolved}]

----------------------------------------------------------------------------
(* validate, check_nesting.                                                 *)

Valid(segments, sources) ==
  /\ segments # <<>> /\ segments[1].at = 0
  /\ \A i \in DOMAIN segments :
       LET s == segments[i]
           d == sources[s.src].duration
       IN  /\ s.src \in DOMAIN sources
           /\ d > 0 => s.start < d /\ (s.end # ToTheEnd => s.end <= d + Second)
  /\ \A i \in 2..Len(segments) :
       LET p   == segments[i - 1]
           end == IF p.end = ToTheEnd THEN sources[p.src].duration ELSE p.end
       IN  p.at <= segments[i].at /\ p.at + end - p.start <= segments[i].at

SourcesOf(segments) == {s.src : s \in ToSet(segments)}

\* The synthetic VODs at each level below the segments, level 0 the segments' own sources.
Levels(segments, inner) ==
  LET level[d \in 0..(MaxDepth + 1)] ==
        IF d = 0 THEN SourcesOf(segments) \cap DOMAIN inner
        ELSE UNION {SourcesOf(inner[v]) : v \in level[d - 1]} \cap DOMAIN inner
  IN  level

CheckNesting(vod, segments, inner) ==
  LET level == Levels(segments, inner)
  IN  level[MaxDepth] = {} /\ \A d \in 0..MaxDepth : vod \notin level[d]

----------------------------------------------------------------------------
(* flatten.                                                                 *)

\* A segment's share of the parts its source plays, with the stream's key.
Within(seg, part, run, oneBroadcast) ==
  LET a == Greatest(seg.start, part.at)
      b == Least(seg.start + LengthOf(seg), part.at + LengthOf(part))
  IN  [src |-> part.src, start |-> part.start + a - part.at, end |-> part.start + b - part.at,
       at |-> seg.at + a - seg.start,
       stream |-> IF oneBroadcast THEN <<run>> ELSE <<run, part.stream>>]

\* Streams are numbered by first appearance.
Numbered(parts) ==
  LET First(i) == Min({k \in DOMAIN parts : parts[k].stream = parts[i].stream})
      firsts   == {First(i) : i \in DOMAIN parts}
  IN  [i \in DOMAIN parts |-> [parts[i] EXCEPT !.stream = Cardinality({j \in firsts : j < First(i)})]]

\* A new stream wherever the source changes from the segment before.
RunOf(segments, i, oneStream) ==
  IF oneStream THEN 0 ELSE Cardinality({k \in 2..i : segments[k].src # segments[k - 1].src})

Spread(segments, deeper, supersedes, oneStream) ==
  Numbered(FlattenSeq([i \in DOMAIN segments |->
    LET s   == segments[i]
        run == RunOf(segments, i, oneStream)
    IN  IF s.src \notin DOMAIN deeper
        THEN <<[src |-> s.src, start |-> s.start, end |-> s.end, at |-> s.at, stream |-> <<run>>]>>
        ELSE SelectSeq([k \in DOMAIN deeper[s.src] |-> Within(s, deeper[s.src][k], run, s.src \in supersedes)],
                       LAMBDA p : p.end > p.start)]))

\* The windows of real VODs that play the segments; defined when they are nested at most MaxDepth deep.
Flatten(top, inner, supersedes, oneStream) ==
  LET level == Levels(top, inner)
      flat[d \in 0..MaxDepth] ==     \* every synthetic VOD d levels above the deepest
        [v \in (IF d = 0 THEN {} ELSE level[MaxDepth - d]) |-> Spread(inner[v], flat[d - 1], supersedes, FALSE)]
  IN  Spread(top, flat[MaxDepth], supersedes, oneStream)

----------------------------------------------------------------------------
(* The builders.                                                            *)

Segment(src, start, end, at) == [src |-> src, start |-> start, end |-> end, at |-> at]

\* b placed where it started against a; a stops there.
MergeSegments(a, b, lengthOfA, offset) ==
  <<Segment(a, 0, IF offset >= lengthOfA THEN ToTheEnd ELSE offset, 0), Segment(b, 0, ToTheEnd, offset)>>

SplitSegments(v, at) == <<<<Segment(v, 0, at, 0)>>, <<Segment(v, at, ToTheEnd, 0)>>>>

\* Where a VOD plays a game, chapters less than a second apart joined.
GameWindows(chapters, name) ==
  LET Step(out, c) ==
        LET n == Len(out)
        IN  IF n > 0 /\ c.start - out[n][2] < Second THEN [out EXCEPT ![n][2] = Greatest(@, EndOf(c))]
            ELSE Append(out, <<c.start, EndOf(c)>>)
  IN  FoldLeft(Step, <<>>, Ranked({c \in chapters : c.name = name /\ ~c.restricted /\ c.len > 0},
                                  LAMBDA c, d : c.start < d.start))

=============================================================================
