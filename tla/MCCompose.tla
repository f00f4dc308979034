------------------------------ MODULE MCCompose ------------------------------
(****************************************************************************)
(* Synthetic VODs of two real ones, and synthetic VODs made of those.       *)
(****************************************************************************)
EXTENDS Compose

r1 == "r1"
r2 == "r2"
s1 == "s1"

Named(name, start, end, cut) == [name |-> name, start |-> start, len |-> end - start, restricted |-> cut]

\* Units are half seconds: synthetic VODs may end anywhere, real ones at whole seconds.  r1 as it was
\* when the segments were checked, or as a capture finalized again left it since, longer or shorter.
RealOf(n) ==
  [v \in {r1, r2} |->
     IF v = r1 THEN [duration |-> n, chapters |-> {Named("a", 0, 2, FALSE), Named("b", 2, 3, FALSE),
                                                   Named("cut", 3, 4, TRUE), Named("b", 4, n, FALSE)}]
     ELSE [duration |-> 4, chapters |-> {Named("c", 1, 4, FALSE)}]]
AsChecked == RealOf(6)

\* A merge, both halves of a split, a playthrough, and windows with a space between them or none.
Inners ==
  {MergeSegments(r1, r2, 6, n) : n \in {3, 6, 8}} \cup UNION {ToSet(SplitSegments(r1, n)) : n \in {1, 3}} \cup
  {LET ws == GameWindows(AsChecked[r1].chapters, "b")
   IN  [i \in DOMAIN ws |-> Segment(r1, ws[i][1], ws[i][2], IF i = 1 THEN 0 ELSE Length(ws[1]))]} \cup
  {<<Segment(r1, a, b, 0), Segment(v, c, ToTheEnd, n)>> : v \in {r1, r2}, a \in {0, 2}, b \in {3, ToTheEnd}, c \in {0, 3}, n \in {3, 5, 7}}

Outers ==
  {<<Segment(s1, a, b, 0)>> : a \in {0, 2, 5}, b \in {3, 7, ToTheEnd}} \cup
  {<<Segment(v, a, b, 0), Segment(w, c, ToTheEnd, n)>> :
     v \in {s1, r2}, w \in {s1, r1}, a \in {0, 3}, b \in {2, 4, ToTheEnd}, c \in {0, 1, 4}, n \in {2, 9}}

Sources(inner, real) == (s1 :> Derive(inner, real)) @@ real

Composed ==
  {c \in {[kind |-> "compose", inner |-> i, outer |-> o, broadcast |-> n = 6, now |-> n] :
          i \in Inners, o \in Outers, n \in {4, 6, 8}} :
     Valid(c.inner, AsChecked) /\ Valid(c.outer, Sources(c.inner, AsChecked))}

\* What plays at x: the moment of a source, or nothing.
PlayedAt(resolved, x) ==
  {[src |-> s.src, at |-> x - s.at + s.start] : s \in {t \in ToSet(resolved) : t.at <= x /\ x < t.at + LengthOf(t)}}

NamesAt(chapters, x) == {c.name : c \in {d \in chapters : d.start <= x /\ x < EndOf(d)}}

\* A synthetic VOD of a synthetic VOD shows, at each moment, the chapter of the real VOD's moment that
\* plays there, and a gap chapter where nothing does; and the windows it is flattened to play that same
\* moment and no other, those of one broadcast as one stream.
ShowsWhatPlays(c) ==
  LET real     == RealOf(c.now)
      below    == Resolve(c.inner, DurationsOf(real))
      above    == Resolve(c.outer, DurationsOf(Sources(c.inner, real)))
      shown    == Derive(c.outer, Sources(c.inner, real))
      flat     == Flatten(above, s1 :> below, IF c.broadcast THEN {s1} ELSE {}, FALSE)
      RealAt(m) == IF m.src = s1 THEN PlayedAt(below, m.at) ELSE {m}
      Names(m) == IF m.src # s1 THEN NamesAt(real[m.src].chapters, m.at)
                  ELSE IF m.at >= TotalOf(below) THEN {}
                  ELSE LET ms == RealAt(m)
                       IN  IF ms = {} THEN {GapName} ELSE UNION {NamesAt(real[k.src].chapters, k.at) : k \in ms}
  IN  /\ \A x \in 0..(TotalOf(above) - 1) :
           LET playing == PlayedAt(above, x)
           IN  /\ Cardinality(playing) <= 1
               /\ NamesAt(shown.chapters, x) = IF playing = {} THEN {GapName} ELSE UNION {Names(m) : m \in playing}
               /\ PlayedAt(flat, x) = UNION {RealAt(m) : m \in playing}
      /\ shown.duration - TotalOf(above) \in 0..(Second - 1)
      /\ \A i, k \in DOMAIN flat : i < k => flat[i].at + LengthOf(flat[i]) <= flat[k].at
      /\ c.broadcast => \A s \in ToSet(above) :
           s.src = s1 => \A p, q \in {f \in ToSet(flat) : s.at <= f.at /\ f.at < s.at + LengthOf(s)} : p.stream = q.stream
=============================================================================
