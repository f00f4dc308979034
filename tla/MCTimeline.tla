----------------------------- MODULE MCTimeline -----------------------------
(****************************************************************************)
(* The plans of small VODs: every merge and every split of two sides and    *)
(* every split of a merge; every archive of a live recording; and every     *)
(* synthetic VOD made of another one.                                       *)
(****************************************************************************)
EXTENDS MCPlanning, MCCompose

CONSTANTS
  Durations,  \* lengths of VODs, in seconds
  PartLists,  \* durations of the uploads of a type, in play order
  CutSpans,   \* <<start, end>> a restricted chapter can have
  GapLengths, \* lengths of the gap an upload can have
  Gaps        \* seconds between the VODs of a merge

VARIABLE op    \* the operation just planned: [kind, a, b, at, out], or one of MCPlanning or MCCompose

MCPartLists  == {<<>>, <<3>>, <<3, 2>>}
MCCutSpans   == {<<0, 2>>, <<3, 4>>, <<7, 8>>}

\* A game chapter wherever there is no cut: chapters never overlap (vod_edits.py).
Games(d, cuts) ==
  LET ends == {<<0, 0>>, <<d, d>>} \cup cuts
  IN  {[name |-> "game", start |-> p[2], len |-> q[1] - p[2], restricted |-> FALSE] :
         <<p, q>> \in {x \in ends \X ends : /\ x[1][2] < x[2][1]
                                          /\ \A c \in ends : c[2] <= x[1][2] \/ c[1] >= x[2][1]}}
Cut(s)  == [name |-> "cut", start |-> s[1], len |-> Length(s), restricted |-> TRUE]

\* At most one gap per type, in the part p, after its first frame.
Uploads(typ, durs) ==
  LET Plain == {[id |-> <<typ, i>>, type |-> typ, part |-> i, dur |-> durs[i], gaps |-> <<>>] : i \in DOMAIN durs}
  IN  {Plain} \cup
      {{IF e.part = p[1] THEN [e EXCEPT !.gaps = <<<<p[2], n>>>>] ELSE e : e \in Plain} :
         p \in {q \in (DOMAIN durs) \X {1, 3} : q[2] <= durs[q[1]]}, n \in GapLengths}

Disjoint(spans) == \A p, q \in spans : p = q \/ p[2] <= q[1] \/ q[2] <= p[1]

\* Every frame has a place: nothing is longer than the VOD, and no cut or gap lies past its end.
Sound(s) ==
  \A typ \in UploadTypes(s.uploads) :
    /\ Laid(s, typ).delay >= 0
    /\ \A h \in ToSet(Laid(s, typ).holes) : h[2] <= s.duration

LiveSides ==
  {s \in {[duration |-> Second * d, chapters |-> Games(Second * d, cs) \cup {Cut(c) : c \in cs}, uploads |-> us] :
            d \in Durations,
            cs \in {x \in SUBSET CutSpans : Cardinality(x) <= 2 /\ Disjoint(x)},
            us \in UNION {Uploads(PlayedFirst, ps) : ps \in PartLists}} : Sound(s)}

\* With an upload of the type that is not played, which may be cut at other places.
BothSides ==
  {s \in {[l EXCEPT !.uploads = @ \cup {[id |-> <<typ, 1>>, type |-> typ, part |-> 1, dur |-> n, gaps |-> <<>>]}] :
            typ \in VideoTypes \ {PlayedFirst}, n \in {3},
            l \in {m \in LiveSides : m.uploads # {} /\ Cardinality(Cuts(m.chapters)) <= 1}} : Sound(s)}

Sides == LiveSides \cup BothSides
NoSide == [duration |-> 0, chapters |-> {}, uploads |-> {}]

Init == \/ \E a \in Sides : op = [kind |-> "none", a |-> a, b |-> NoSide, at |-> 0, out |-> <<a>>]
        \/ op \in Archives \cup Censored \cup Composed

Merge ==
  /\ op.kind = "none"
  /\ \E b \in Sides, gap \in Gaps :
       LET offset == op.a.duration + Second * gap
       IN  /\ CanMerge(op.a, b, offset)
           /\ op' = [kind |-> "merge", a |-> op.a, b |-> b, at |-> offset, out |-> <<PlanMerge(op.a, b, offset)>>]

Split ==
  /\ op.kind \in {"none", "merge"}
  /\ \E at \in 1..(op.out[1].duration \div Second) :
       /\ CanSplit(op.out[1], Second * at)
       /\ LET plan == PlanSplit(op.out[1], Second * at)
          IN  op' = [kind |-> "split", a |-> op.out[1], b |-> NoSide, at |-> Second * at,
                     out |-> <<plan.first, plan.second>>]

Next == Merge \/ Split
Spec == Init /\ [][Next]_op

Frames(t) == 0..(Total(t.parts) - 1)
Near(holes, x, y) ==
  Cardinality({c \in Least(x, y)..(Greatest(x, y) - 1) : \A h \in holes : ~(h[1] <= c /\ c < h[2])}) <= Slack

\* "The target keeps its timeline ... a comment or frame at source time x lands at offset + x"
\* (plan_merge), for the type the site plays.
MergeKeepsFrames ==
  op.kind = "merge" /\ op.a.uploads # {} =>
    LET typ == PlayedType(UploadTypes(op.a.uploads))
        ta  == Laid(op.a, typ)
        tb  == Laid(op.b, typ)
        tm  == Laid(op.out[1], typ)
    IN  /\ \A u \in Frames(ta) : VodTime(tm, u) = VodTime(ta, u)
        /\ \A u \in Frames(tb) : VodTime(tm, Total(ta.parts) + u) = op.at + VodTime(tb, u)

\* A split leaves every frame at its place, to the half second a split point may be off, and cuts
\* no upload.
SplitKeepsFrames ==
  op.kind = "split" =>
    \A typ \in UploadTypes(op.a.uploads) :
      LET t == Laid(op.a, typ)
          t1 == Laid(op.out[1], typ)
          t2 == Laid(op.out[2], typ)
          hs == ToSet(t.holes)
      IN  /\ t1.parts \o t2.parts = t.parts
          /\ \A u \in Frames(t1) : Near(hs, VodTime(t1, u), VodTime(t, u)) /\ VodTime(t, u) < op.at + Slack
          /\ \A u \in Frames(t2) : /\ Near(hs, op.at + VodTime(t2, u), VodTime(t, Total(t1.parts) + u))
                                   /\ VodTime(t, Total(t1.parts) + u) >= op.at - Slack

\* Merges and splits keep every frame's place.
FramesStay == MergeKeepsFrames /\ SplitKeepsFrames

\* A VOD's file and its live recording are uploaded whole but for what is restricted (plan_parts,
\* fill_gaps): each moment outside it in exactly one part, none inside it in any.
PartsPlayAll == op.kind = "archive" => PartsOfArchive(op)

\* "Each part's gaps" (recording_gaps) put every frame of a live recording back where it was live, as
\* the site reads them (timeline.vod_time): parts cut around restricted chapters and split, ad breaks
\* and reconnects missed before, inside and after those chapters.
RecordingPlaysInPlace == op.kind = "archive" => FramesOfArchive(op)

\* The censor covers and mutes, on a live recording, the frames its ranges on the VOD's time are
\* about, and where ranges overlap black wins (censor_on_recording, plan_censor).
CensorCovers == op.kind = "censor" => CensoredFrames(op)

\* What a synthetic VOD's cached chapters say and what the windows it is flattened to play agree, at
\* every moment, one level of nesting deep and after a source grew or shrank (derive, flatten).
ComposedShows == op.kind = "compose" => ShowsWhatPlays(op)
=============================================================================
