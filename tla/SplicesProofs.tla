---------------------------- MODULE SplicesProofs ----------------------------
(****************************************************************************)
(* Proofs about Splices: an edit is only lost to an undo that was forced,   *)
(* and an undo leaves no trace, whatever the VODs, comments and callers.    *)
(*                                                                          *)
(* The place of a comment, a game or a VOD is followed along the splices,   *)
(* its trail.  A splice that is not undone recorded what its step of those  *)
(* trails moved; while no later one touches its VODs, the trails stay where *)
(* it put them, and undoing it takes them one step back.                    *)
(****************************************************************************)
EXTENDS Splices, FiniteSetTheorems, NaturalsInduction, WellFoundedInduction, TLAPS

----------------------------------------------------------------------------
(* Rows, splices and requests.                                              *)

IsSide(s)   == s = [duration |-> s.duration, chapters |-> s.chapters, uploads |-> s.uploads] /\ s.duration \in Nat
IsFields(f) == f = [title |-> f.title, side |-> f.side, locked |-> f.locked] /\ IsSide(f.side)
IsRow(r) ==
  /\ r = [start |-> r.start, title |-> r.title, side |-> r.side, locked |-> r.locked, emotes |-> r.emotes,
          merged |-> r.merged]
  /\ r.start \in Int /\ IsSide(r.side)

\* The titles a splice found are those it left, and an undo would restore.
IsSplice(sp) ==
  /\ sp = [kind |-> sp.kind, vod |-> sp.vod, other |-> sp.other, offset |-> sp.offset, undone |-> sp.undone,
           join |-> sp.join, members |-> sp.members, games |-> sp.games, target |-> sp.target, source |-> sp.source,
           emotes |-> sp.emotes, repointed |-> sp.repointed, result |-> sp.result]
  /\ sp.kind \in {"merge", "split"} /\ sp.vod # sp.other /\ sp.vod \in Seq(Int) /\ sp.other \in Seq(Int)
  /\ sp.undone \in BOOLEAN /\ sp.offset \in Nat /\ (sp.kind = "split" => sp.offset > 0)
  /\ IsFields(sp.target) /\ IsFields(sp.source)
  /\ sp.result[sp.vod][1] = sp.target.title
  /\ sp.kind = "merge" => sp.result[sp.other][1] = sp.source.title

\* A sequence of splices, and those of it that are not undone.
AreSplices(sps) == (\E S : sps \in Seq(S)) /\ \A k \in 1..Len(sps) : IsSplice(sps[k])
Live(sps)       == {k \in 1..Len(sps) : ~sps[k].undone}
Ends(sp)        == {sp.vod, sp.other}

RowsOK ==
  /\ vods = [v \in Ids |-> vods[v]] /\ Ids \subseteq Seq(Int) /\ IsFiniteSet(Ids)
  /\ \A v \in Ids : IsRow(vods[v])
  /\ AreSplices(splices)

\* What a request has made sure of, and its locks keep so.
MergeOK(r) ==
  /\ r.pc = "locked" /\ r.ids = {r.a, r.b} /\ r.ids \subseteq Ids /\ r.a # r.b /\ r.offset \in Nat
  /\ vods[r.a].merged = NoVod /\ vods[r.b].merged = NoVod
SplitOK(r) ==
  /\ r.pc = "locked" /\ r.ids = {r.a} /\ r.a \in Ids /\ vods[r.a].merged = NoVod
  /\ r.at \in Nat /\ 0 < r.at /\ r.at < vods[r.a].side.duration
UndoOK(r) ==
  /\ r.pc \in {"picked", "locked"} /\ r.splice \in DOMAIN splices /\ r.ids = Touched(r.splice)
  /\ r = [op |-> r.op, pc |-> r.pc, ids |-> r.ids, splice |-> r.splice, force |-> r.force]
  /\ r.pc = "locked" => /\ r.ids \subseteq Ids /\ ~Blocked(r.splice)
                        /\ r.force \/ \A v \in r.ids : vods[v].title = splices[r.splice].result[v][1]

CallOK(r) ==
  /\ r.op \in {"merge", "split", "undo"}
  /\ r.op = "merge" => MergeOK(r)
  /\ r.op = "split" => SplitOK(r)
  /\ r.op = "undo"  => UndoOK(r)

Exclusive == \A c, d \in Callers : c # d => Holds(c) \cap Holds(d) = {}

\* No two requests hold the same row, and what each has made sure of is still so.
LockInv ==
  /\ RowsOK /\ Exclusive
  /\ call = [c \in Callers |-> call[c]]
  /\ \A c \in Callers : call[c] # NoCall => CallOK(call[c])

----------------------------------------------------------------------------
(* The trails, and what the splices recorded of them.                       *)

IsPlace(p)  == p = [vod |-> p.vod, at |-> p.at] /\ p.vod \in Seq(Int) /\ p.at \in Nat
At(vod)     == [vod |-> vod, at |-> 0]
FirstAt(c)     == [vod |-> CommentAt[c].vod, at |-> CommentAt[c].at]
Played(g)   == [vod |-> GameAt[g].vod, at |-> GameAt[g].start]
Before(k, place) == Trail(splices, place)[k - 1]
Now(place)       == Trail(splices, place)[Len(splices)]
Firsts      == {<<v>> : v \in Originals}

\* The VODs of a splice were there as their own, the half of a split new.
Rooted(k) ==
  /\ Touched(k) \subseteq Ids
  /\ \A v \in Touched(k) : Before(k, At(v)) = At(v)
  /\ splices[k].kind = "split" => /\ splices[k].other \notin Firsts
                                  /\ \A m \in Active : m < k => splices[k].other \notin Touched(m)

\* It recorded what it moved.
Recorded(k) ==
  LET sp == splices[k]
  IN  /\ sp.repointed = [v \in {w \in Ids \ Touched(k) : Moves(sp, Before(k, At(w)))} |->
                           [id |-> Before(k, At(v)).vod, offset |-> Before(k, At(v)).at]]
      /\ sp.kind = "merge" => /\ sp.members = {c \in Comments : Moves(sp, Before(k, FirstAt(c)))}
                              /\ sp.games = {g \in Games : Moves(sp, Before(k, Played(g)))}

Placed ==
  /\ \A c \in Comments : chat[c] = Now(FirstAt(c))
  /\ \A g \in Games : games[g] = [vod |-> Now(Played(g)).vod, start |-> Now(Played(g)).at,
                                  end |-> Now(Played(g)).at + GameAt[g].end - GameAt[g].start]
  /\ \A v \in Ids : vods[v].merged = IF Now(At(v)).vod = v THEN NoVod
                                     ELSE [id |-> Now(At(v)).vod, offset |-> Now(At(v)).at]
  /\ \A v \in Ids : Now(At(v)).vod = v => Now(At(v)) = At(v)
  /\ Ids = Firsts \cup {splices[k].other : k \in {m \in Active : splices[m].kind = "split"}}

\* Length and uploads: of a row, as a splice found them, as it left them, as they were archived.
Content(side)  == <<side.duration, side.uploads>>
Found(k, v)    == Content(IF v = splices[k].vod THEN splices[k].target.side ELSE splices[k].source.side)
Left(k, v)     == Content(splices[k].result[v][2])
Restores(k)    == IF splices[k].kind = "merge" THEN Touched(k) ELSE {splices[k].vod}
LastOn(k, v, n) == k \in Active /\ k < n /\ v \in Touched(k) /\ \A m \in Active : k < m /\ m < n => v \notin Touched(m)
NoneOn(v, n)    == \A k \in Active : k < n => v \notin Touched(k)

\* A splice found a VOD as the one before on it had left it, or as it was archived.
Chained ==
  /\ \A v \in Ids : \A k \in Active : LastOn(k, v, Len(splices) + 1) => Content(vods[v].side) = Left(k, v)
  /\ \A v \in Originals : NoneOn(<<v>>, Len(splices) + 1) => Content(vods[<<v>>].side) = Content(SideOf[v])
  /\ \A k \in Active : \A v \in Restores(k) : \A j \in Active : LastOn(j, v, k) => Found(k, v) = Left(j, v)
  /\ \A k \in Active : \A v \in Originals : <<v>> \in Restores(k) /\ NoneOn(<<v>>, k) => Found(k, <<v>>) = Content(SideOf[v])

\* An archived VOD that nothing was merged into has its own emotes, and the first merge into it recorded them.
MergedInto(v, n) == \E k \in Active : k < n /\ splices[k].kind = "merge" /\ splices[k].vod = v
Emotes ==
  /\ \A v \in Originals : ~MergedInto(<<v>>, Len(splices) + 1) => vods[<<v>>].emotes = {v}
  /\ \A k \in Active : \A v \in Originals :
       splices[k].kind = "merge" /\ splices[k].vod = <<v>> /\ ~MergedInto(<<v>>, k) => splices[k].emotes = {v}

\* The history: what the splices that are not undone moved, recorded and left is where and as they say.
HistInv ==
  /\ \A k \in Active : Rooted(k) /\ Recorded(k)
  /\ Placed /\ Chained /\ Emotes

\* An undo that has its locks is of a splice nobody has undone.
UndoesOnce ==
  \A c \in Callers : call[c] # NoCall /\ call[c].op = "undo" /\ call[c].pc = "locked" => ~splices[call[c].splice].undone

----------------------------------------------------------------------------
(* Trails.                                                                  *)

LEMMA FirstNat == ASSUME NEW S \in SUBSET Nat, S # {} PROVE \E x \in S : \A y \in S : x <= y
<1>1. IsWellFoundedOn(OpToRel(<, Nat), Nat)
  BY NatLessThanWellFounded
<1>2. PICK x \in S : \A y \in S : ~(<<y, x>> \in OpToRel(<, Nat))
  BY <1>1, WFMin
<1>3. ASSUME NEW y \in S, y < x PROVE FALSE
  <2>1. <<y, x>> \in OpToRel(<, Nat)
    BY <1>3, Zenon DEF OpToRel
  <2>2. QED BY <2>1, <1>2
<1>4. \A y \in S : x <= y
  BY <1>3
<1>5. QED BY <1>4

\* A step of a trail.
Step(sp, place) == IF sp.undone \/ ~Moves(sp, place) THEN place ELSE Landing(sp, place)

LEMMA TrailSteps ==
  ASSUME NEW sps, Len(sps) \in Nat, NEW place
  PROVE  /\ Trail(sps, place)[0] = place
         /\ \A k \in 1..Len(sps) : Trail(sps, place)[k] = Step(sps[k], Trail(sps, place)[k - 1])
<1> DEFINE IsTrail(f, n) == f[0] = place /\ \A k \in 1..n : f[k] = Step(sps[k], f[k - 1])
           Bad  == {n \in Nat : n <= Len(sps) /\ ~\E f : IsTrail(f, n)}
           Is(f) == f = [k \in 0..Len(sps) |->
                           IF k = 0 THEN place
                           ELSE IF sps[k].undone \/ ~Moves(sps[k], f[k - 1]) THEN f[k - 1]
                                ELSE Landing(sps[k], f[k - 1])]
<1>1. ASSUME Bad # {} PROVE FALSE
  <2>1. PICK n \in Bad : \A m \in Bad : n <= m
    BY <1>1, FirstNat
  <2>2. CASE n = 0
    <3>1. IsTrail([k \in 0..0 |-> place], 0)
      OBVIOUS
    <3>2. QED BY <2>1, <2>2, <3>1
  <2>3. CASE n # 0
    <3>1. n \in Nat /\ n - 1 \in Nat /\ n - 1 \notin Bad /\ n <= Len(sps)
      <4>1. n \in Nat /\ n - 1 \in Nat /\ n <= Len(sps)
        BY <2>1, <2>3
      <4> HIDE DEF Bad
      <4>2. QED BY <2>1, <4>1
    <3>2. PICK f : IsTrail(f, n - 1)
      BY <3>1
    <3> DEFINE g == [k \in 0..n |-> IF k = n THEN Step(sps[n], f[n - 1]) ELSE f[k]]
    <3>3. g[0] = place
      BY <2>3, <3>1, <3>2
    <3>4. ASSUME NEW k \in 1..n PROVE g[k] = Step(sps[k], g[k - 1])
      <4>1. k - 1 \in 0..n /\ k - 1 # n /\ k \in 0..n
        BY <3>1
      <4>2. g[k - 1] = f[k - 1]
        BY <4>1
      <4>3. CASE k = n
        BY <4>1, <4>2, <4>3
      <4>4. CASE k # n
        <5>1. k \in 1..n - 1
          BY <3>1, <4>4
        <5>2. QED BY <3>2, <4>1, <4>2, <4>4, <5>1
      <4>5. QED BY <4>3, <4>4
    <3>5. IsTrail(g, n)
      BY <3>3, <3>4
    <3>6. QED BY <2>1, <3>5
  <2>4. QED BY <2>2, <2>3
<1>2. PICK f : IsTrail(f, Len(sps))
  BY <1>1
<1> DEFINE h == [k \in 0..Len(sps) |-> f[k]]
<1>3. Is(h)
  <2>1. ASSUME NEW k \in 0..Len(sps)
        PROVE  h[k] = IF k = 0 THEN place
                      ELSE IF sps[k].undone \/ ~Moves(sps[k], h[k - 1]) THEN h[k - 1] ELSE Landing(sps[k], h[k - 1])
    <3>1. CASE k = 0
      BY <1>2, <3>1
    <3>2. CASE k # 0
      <4>1. k \in 1..Len(sps) /\ k - 1 \in 0..Len(sps)
        BY <3>2
      <4>2. h[k - 1] = f[k - 1] /\ h[k] = Step(sps[k], f[k - 1])
        BY <1>2, <4>1
      <4>3. QED BY <3>2, <4>2 DEF Step
    <3>3. QED BY <3>1, <3>2
  <2> HIDE DEF h
  <2>2. h = [k \in 0..Len(sps) |-> h[k]]
    BY DEF h
  <2>3. QED BY <2>1, <2>2
<1>4. Is(Trail(sps, place))
  <2> DEFINE t == CHOOSE t : Is(t)
  <2>1. Is(t)
    <3> HIDE DEF Is, h
    <3>1. QED BY <1>3
  <2>2. Trail(sps, place) = t
    BY DEF Trail
  <2> HIDE DEF Is, t
  <2>3. QED BY <2>1, <2>2
<1> HIDE DEF h
<1>5. Trail(sps, place)[0] = place
  BY <1>4
<1>6. ASSUME NEW k \in 1..Len(sps) PROVE Trail(sps, place)[k] = Step(sps[k], Trail(sps, place)[k - 1])
  <2> DEFINE t == Trail(sps, place)
  <2>1. Is(t)
    BY <1>4
  <2> HIDE DEF t
  <2>2. k \in 0..Len(sps) /\ k # 0
    OBVIOUS
  <2>3. t[k] = IF sps[k].undone \/ ~Moves(sps[k], t[k - 1]) THEN t[k - 1] ELSE Landing(sps[k], t[k - 1])
    BY <2>1, <2>2
  <2>4. t[k] = Step(sps[k], t[k - 1])
    BY <2>3 DEF Step
  <2>5. QED BY <2>4 DEF t
<1>7. QED BY <1>5, <1>6

\* Induction from i up to h.
LEMMA Upwards ==
  ASSUME NEW i \in Nat, NEW h \in Nat, NEW S, i \in S, \A k \in i..h : k \in S /\ k < h => k + 1 \in S
  PROVE  i..h \subseteq S
<1> DEFINE Bad == {k \in Nat : k \in i..h /\ k \notin S}
<1>1. ASSUME Bad # {} PROVE FALSE
  <2>1. PICK k \in Bad : \A m \in Bad : k <= m
    BY <1>1, FirstNat
  <2>2. k \in Nat /\ k \in i..h /\ k \notin S /\ k # i
    BY <2>1
  <2>3. k - 1 \in Nat /\ k - 1 \in i..h /\ k - 1 < h /\ ~(k <= k - 1)
    BY <2>2
  <2> HIDE DEF Bad
  <2>4. k - 1 \in S
    BY <2>1, <2>3 DEF Bad
  <2>5. (k - 1) + 1 \in S /\ (k - 1) + 1 = k
    BY <2>2, <2>3, <2>4
  <2>6. QED BY <2>2, <2>5
<1>2. QED BY <1>1

LEMMA AreSplicesFacts ==
  ASSUME NEW sps, AreSplices(sps)
  PROVE  /\ Len(sps) \in Nat /\ DOMAIN sps = 1..Len(sps)
         /\ \A k \in 1..Len(sps) : IsSplice(sps[k])
<1>1. PICK S : sps \in Seq(S)
  BY DEF AreSplices
<1>2. QED BY <1>1 DEF AreSplices

LEMMA StepPlace ==
  ASSUME NEW sp, IsSplice(sp), NEW p, IsPlace(p)
  PROVE  /\ IsPlace(Step(sp, p)) /\ Step(sp, p).vod \in {p.vod} \cup Ends(sp)
         /\ sp.undone \/ p.vod \notin Ends(sp) => Step(sp, p) = p
         /\ ~sp.undone /\ Moves(sp, p) => Step(sp, p) = Landing(sp, p)
         /\ Moves(sp, p) => p.vod \in Ends(sp) /\ Landing(sp, p).vod \in Ends(sp) /\ Landing(sp, p).vod # p.vod
<1>1. /\ sp.kind \in {"merge", "split"} /\ sp.vod # sp.other /\ sp.vod \in Seq(Int) /\ sp.other \in Seq(Int)
      /\ sp.offset \in Nat
  BY DEF IsSplice
<1>2. p.vod \in Seq(Int) /\ p.at \in Nat
  BY DEF IsPlace
<1>3. Moves(sp, p) => IsPlace(Landing(sp, p))
  BY <1>1, <1>2 DEF Moves, Landing, IsPlace
<1>4. Moves(sp, p) => p.vod \in Ends(sp) /\ Landing(sp, p).vod \in Ends(sp) /\ Landing(sp, p).vod # p.vod
  BY <1>1, <1>2 DEF Moves, Landing, Ends
<1>5. sp.undone \/ p.vod \notin Ends(sp) => Step(sp, p) = p
  BY <1>4 DEF Step
<1>6. ~sp.undone /\ Moves(sp, p) => Step(sp, p) = Landing(sp, p)
  BY DEF Step
<1>7. IsPlace(Step(sp, p)) /\ Step(sp, p).vod \in {p.vod} \cup Ends(sp)
  BY <1>3, <1>4 DEF Step
<1>8. QED BY <1>4, <1>5, <1>6, <1>7

LEMMA TrailPlaces ==
  ASSUME NEW sps, AreSplices(sps), NEW place, IsPlace(place)
  PROVE  \A k \in 0..Len(sps) : IsPlace(Trail(sps, place)[k])
<1> DEFINE T == Trail(sps, place)
           S == {k \in Nat : IsPlace(T[k])}
<1>1. Len(sps) \in Nat /\ \A k \in 1..Len(sps) : IsSplice(sps[k])
  BY AreSplicesFacts
<1>2. T[0] = place /\ \A k \in 1..Len(sps) : T[k] = Step(sps[k], T[k - 1])
  BY <1>1, TrailSteps
<1> HIDE DEF T
<1>3. 0 \in S
  BY <1>2
<1>4. ASSUME NEW k \in 0..Len(sps), k \in S, k < Len(sps) PROVE k + 1 \in S
  <2>1. k + 1 \in 1..Len(sps) /\ (k + 1) - 1 = k /\ k \in Nat
    BY <1>1, <1>4
  <2>2. T[k + 1] = Step(sps[k + 1], T[k])
    BY <1>2, <2>1
  <2>3. IsPlace(T[k + 1])
    BY <1>1, <1>4, <2>1, <2>2, StepPlace
  <2>4. QED BY <2>1, <2>3
<1> HIDE DEF S
<1>5. 0..Len(sps) \subseteq S
  BY <1>1, <1>3, <1>4, Upwards
<1>6. QED BY <1>5 DEF S, T

\* A trail stays among the VODs it is on and those of the splices it meets.
LEMMA TrailWithin ==
  ASSUME NEW sps, AreSplices(sps), NEW place, IsPlace(place), NEW i \in Nat, NEW h \in Nat, i <= h, h <= Len(sps),
         NEW D, Trail(sps, place)[i].vod \in D, \A k \in Live(sps) : i < k /\ k <= h => Ends(sps[k]) \subseteq D
  PROVE  Trail(sps, place)[h].vod \in D
<1> DEFINE T == Trail(sps, place)
           S == {k \in Nat : T[k].vod \in D}
<1>1. Len(sps) \in Nat /\ \A k \in 1..Len(sps) : IsSplice(sps[k])
  BY AreSplicesFacts
<1>2. \A k \in 1..Len(sps) : T[k] = Step(sps[k], T[k - 1])
  BY <1>1, TrailSteps
<1>3. \A k \in 0..Len(sps) : IsPlace(T[k])
  BY TrailPlaces
<1>4. T[i].vod \in D
  OBVIOUS
<1> HIDE DEF T
<1>5. i \in S
  BY <1>4
<1>6. ASSUME NEW k \in i..h, k \in S, k < h PROVE k + 1 \in S
  <2>1. k + 1 \in 1..Len(sps) /\ (k + 1) - 1 = k /\ k \in Nat /\ k \in 0..Len(sps) /\ i < k + 1 /\ k + 1 <= h
    BY <1>1, <1>6
  <2>2. T[k + 1] = Step(sps[k + 1], T[k]) /\ IsPlace(T[k]) /\ IsSplice(sps[k + 1]) /\ T[k].vod \in D
    BY <1>1, <1>2, <1>3, <1>6, <2>1
  <2>3. CASE sps[k + 1].undone
    BY <2>1, <2>2, <2>3, StepPlace
  <2>4. CASE ~sps[k + 1].undone
    <3>1. Ends(sps[k + 1]) \subseteq D
      BY <2>1, <2>4 DEF Live
    <3>2. QED BY <2>1, <2>2, <3>1, StepPlace
  <2>5. QED BY <2>3, <2>4
<1> HIDE DEF S
<1>7. i..h \subseteq S
  BY <1>5, <1>6, Upwards
<1>8. QED BY <1>7 DEF S, T

\* ... and where it is while no splice it meets has that VOD.
LEMMA TrailStays ==
  ASSUME NEW sps, AreSplices(sps), NEW place, IsPlace(place), NEW i \in Nat, NEW h \in Nat, i <= h, h <= Len(sps),
         \A k \in Live(sps) : i < k /\ k <= h => Trail(sps, place)[i].vod \notin Ends(sps[k])
  PROVE  Trail(sps, place)[h] = Trail(sps, place)[i]
<1> DEFINE T == Trail(sps, place)
           S == {k \in Nat : T[k] = T[i]}
<1>1. Len(sps) \in Nat /\ \A k \in 1..Len(sps) : IsSplice(sps[k])
  BY AreSplicesFacts
<1>2. \A k \in 1..Len(sps) : T[k] = Step(sps[k], T[k - 1])
  BY <1>1, TrailSteps
<1>3. \A k \in 0..Len(sps) : IsPlace(T[k])
  BY TrailPlaces
<1>4. \A k \in Live(sps) : i < k /\ k <= h => T[i].vod \notin Ends(sps[k])
  OBVIOUS
<1> HIDE DEF T
<1>5. i \in S
  OBVIOUS
<1>6. ASSUME NEW k \in i..h, k \in S, k < h PROVE k + 1 \in S
  <2>1. k + 1 \in 1..Len(sps) /\ (k + 1) - 1 = k /\ k \in Nat /\ k \in 0..Len(sps) /\ i < k + 1 /\ k + 1 <= h
    BY <1>1, <1>6
  <2>2. T[k + 1] = Step(sps[k + 1], T[k]) /\ IsPlace(T[k]) /\ IsSplice(sps[k + 1]) /\ T[k] = T[i]
    BY <1>1, <1>2, <1>3, <1>6, <2>1
  <2>3. sps[k + 1].undone \/ T[k].vod \notin Ends(sps[k + 1])
    BY <1>4, <2>1, <2>2 DEF Live
  <2>4. QED BY <2>1, <2>2, <2>3, StepPlace
<1> HIDE DEF S
<1>7. i..h \subseteq S
  BY <1>5, <1>6, Upwards
<1>8. QED BY <1>7 DEF S, T

\* Two trails that meet at `i`, whose splices take them alike from there to `h`.
TakenAlike(s, t, place, i, h) ==
  /\ Len(s) \in Nat /\ Len(t) \in Nat /\ i \in Nat /\ h \in Nat
  /\ i <= h /\ h <= Len(s) /\ h <= Len(t)
  /\ Trail(s, place)[i] = Trail(t, place)[i]
  /\ \A k \in i + 1..h : Step(s[k], Trail(s, place)[k - 1]) = Step(t[k], Trail(s, place)[k - 1])

\* Two trails that meet go on together while their splices take them alike.
LEMMA TrailsAgree ==
  ASSUME NEW s, NEW t, NEW place, NEW i, NEW h, TakenAlike(s, t, place, i, h)
  PROVE  Trail(t, place)[h] = Trail(s, place)[h]
<1>1. /\ Len(s) \in Nat /\ Len(t) \in Nat /\ i \in Nat /\ h \in Nat /\ i <= h /\ h <= Len(s) /\ h <= Len(t)
      /\ Trail(s, place)[i] = Trail(t, place)[i]
      /\ \A k \in i + 1..h : Step(s[k], Trail(s, place)[k - 1]) = Step(t[k], Trail(s, place)[k - 1])
  BY DEF TakenAlike
<1> DEFINE T == Trail(s, place)
           U == Trail(t, place)
           S == {k \in Nat : U[k] = T[k]}
<1>2. /\ \A k \in 1..Len(s) : T[k] = Step(s[k], T[k - 1])
      /\ \A k \in 1..Len(t) : U[k] = Step(t[k], U[k - 1])
  BY <1>1, TrailSteps
<1>3. T[i] = U[i] /\ \A k \in i + 1..h : Step(s[k], T[k - 1]) = Step(t[k], T[k - 1])
  BY <1>1
<1> HIDE DEF T, U
<1>4. i \in S
  BY <1>1, <1>3
<1>5. ASSUME NEW k \in i..h, k \in S, k < h PROVE k + 1 \in S
  <2>1. k + 1 \in 1..Len(s) /\ k + 1 \in 1..Len(t) /\ k + 1 \in i + 1..h /\ (k + 1) - 1 = k /\ k \in Nat
    BY <1>1, <1>5
  <2>2. T[k + 1] = Step(s[k + 1], T[k]) /\ U[k + 1] = Step(t[k + 1], U[k]) /\ U[k] = T[k]
    BY <1>2, <1>5, <2>1
  <2>3. Step(s[k + 1], T[k]) = Step(t[k + 1], T[k])
    BY <1>3, <2>1
  <2>4. QED BY <2>1, <2>2, <2>3
<1> HIDE DEF S
<1>6. i..h \subseteq S
  BY <1>1, <1>4, <1>5, Upwards
<1>7. QED BY <1>1, <1>6 DEF S, T, U

IsAppend(t, sps, sp) == t = Append(sps, sp)

LEMMA AppendedSplices ==
  ASSUME NEW sps, AreSplices(sps), NEW sp, IsSplice(sp), ~sp.undone, NEW t, IsAppend(t, sps, sp)
  PROVE  /\ AreSplices(t) /\ Len(t) = Len(sps) + 1 /\ Len(sps) \in Nat
         /\ t[Len(sps) + 1] = sp /\ \A k \in 1..Len(sps) : t[k] = sps[k]
         /\ Live(t) = Live(sps) \cup {Len(t)}
<1>1. PICK S : sps \in Seq(S)
  BY DEF AreSplices
<1>2. t \in Seq(S \cup {sp}) /\ Len(t) = Len(sps) + 1 /\ Len(sps) \in Nat
  BY <1>1 DEF IsAppend
<1>3. t[Len(sps) + 1] = sp /\ \A k \in 1..Len(sps) : t[k] = sps[k]
  BY <1>1 DEF IsAppend
<1>4. \A k \in 1..Len(t) : k \in 1..Len(sps) \/ k = Len(sps) + 1
  BY <1>2
<1>5. \A k \in 1..Len(t) : IsSplice(t[k])
  BY <1>3, <1>4 DEF AreSplices
<1>6. 1..Len(sps) \subseteq 1..Len(t) /\ Len(t) \in 1..Len(t)
  BY <1>2
<1>7. Live(t) = Live(sps) \cup {Len(t)}
  BY <1>2, <1>3, <1>4, <1>6 DEF Live
<1>8. QED BY <1>2, <1>3, <1>5, <1>7 DEF AreSplices

LEMMA TrailOfPrefix ==
  ASSUME NEW s, Len(s) \in Nat, NEW t, Len(t) \in Nat, Len(s) <= Len(t), \A k \in 1..Len(s) : t[k] = s[k],
         NEW place, NEW j \in 0..Len(s)
  PROVE  Trail(t, place)[j] = Trail(s, place)[j]
<1>1. 0 \in Nat /\ j \in Nat /\ 0 <= j /\ j <= Len(s) /\ j <= Len(t)
  OBVIOUS
<1>2. \A k \in 0 + 1..j : Step(s[k], Trail(s, place)[k - 1]) = Step(t[k], Trail(s, place)[k - 1])
  OBVIOUS
<1>3. Trail(s, place)[0] = Trail(t, place)[0]
  BY TrailSteps
<1>4. TakenAlike(s, t, place, 0, j)
  BY <1>1, <1>2, <1>3 DEF TakenAlike
<1>5. QED BY <1>4, TrailsAgree

\* A new splice takes every trail one step further.
LEMMA TrailAppended ==
  ASSUME NEW sps, Len(sps) \in Nat, NEW sp, NEW t, Len(t) = Len(sps) + 1, t[Len(sps) + 1] = sp,
         \A k \in 1..Len(sps) : t[k] = sps[k], NEW place
  PROVE  /\ \A j \in 0..Len(sps) : Trail(t, place)[j] = Trail(sps, place)[j]
         /\ Trail(t, place)[Len(t)] = Step(sp, Trail(sps, place)[Len(sps)])
<1>1. Len(t) \in Nat /\ Len(sps) <= Len(t) /\ Len(t) \in 1..Len(t) /\ Len(t) - 1 = Len(sps) /\ Len(sps) \in 0..Len(sps)
  OBVIOUS
<1>2. \A j \in 0..Len(sps) : Trail(t, place)[j] = Trail(sps, place)[j]
  BY <1>1, TrailOfPrefix
<1>3. Trail(t, place)[Len(t)] = Step(t[Len(t)], Trail(t, place)[Len(t) - 1])
  BY <1>1, TrailSteps
<1>4. QED BY <1>1, <1>2, <1>3

\* `t` is `sps` with splice `k` undone, which nothing was built on.
UndoneAt(sps, k, t) ==
  /\ AreSplices(sps) /\ k \in Live(sps) /\ AreSplices(t) /\ Len(t) = Len(sps) /\ t[k].undone
  /\ \A j \in 1..Len(sps) : j # k => t[j] = sps[j]
  /\ \A m \in Live(sps) : m > k => Ends(sps[m]) \cap Ends(sps[k]) = {}

\* Undoing a splice nothing was built on takes the trails it moved one step back, and no other.
LEMMA TrailUndone ==
  ASSUME NEW sps, NEW k, NEW t, UndoneAt(sps, k, t), NEW place, IsPlace(place)
  PROVE  /\ \A j \in 0..k - 1 : Trail(t, place)[j] = Trail(sps, place)[j]
         /\ ~Moves(sps[k], Trail(sps, place)[k - 1]) =>
              \A j \in 0..Len(sps) : Trail(t, place)[j] = Trail(sps, place)[j]
         /\ Moves(sps[k], Trail(sps, place)[k - 1]) =>
              \A j \in k..Len(sps) : /\ Trail(sps, place)[j] = Landing(sps[k], Trail(sps, place)[k - 1])
                                     /\ Trail(t, place)[j] = Trail(sps, place)[k - 1]
<1> DEFINE T == Trail(sps, place)
           U == Trail(t, place)
           p == T[k - 1]
           n == Len(sps)
<1>1. /\ AreSplices(sps) /\ k \in Live(sps) /\ AreSplices(t) /\ Len(t) = n /\ t[k].undone
      /\ \A j \in 1..n : j # k => t[j] = sps[j]
      /\ \A m \in Live(sps) : m > k => Ends(sps[m]) \cap Ends(sps[k]) = {}
  BY DEF UndoneAt
<1>2. n \in Nat /\ k \in 1..n /\ ~sps[k].undone /\ IsSplice(sps[k]) /\ k - 1 \in Nat /\ k - 1 \in 0..n /\ k \in Nat
  BY <1>1, AreSplicesFacts DEF Live
<1>3. /\ T[0] = place /\ \A j \in 1..n : T[j] = Step(sps[j], T[j - 1])
      /\ U[0] = place /\ \A j \in 1..n : U[j] = Step(t[j], U[j - 1])
  BY <1>1, <1>2, TrailSteps
<1>4. IsPlace(p)
  BY <1>1, <1>2, TrailPlaces
<1>5. ASSUME NEW j \in 0..k - 1 PROVE U[j] = T[j]
  <2>1. \A m \in 0 + 1..j : Step(sps[m], Trail(sps, place)[m - 1]) = Step(t[m], Trail(sps, place)[m - 1])
    BY <1>1, <1>2
  <2>2. /\ Len(sps) \in Nat /\ Len(t) \in Nat /\ 0 \in Nat /\ j \in Nat /\ 0 <= j /\ j <= Len(sps) /\ j <= Len(t)
        /\ Trail(sps, place)[0] = Trail(t, place)[0]
    BY <1>1, <1>2, <1>3
  <2>3. TakenAlike(sps, t, place, 0, j)
    BY <2>1, <2>2 DEF TakenAlike
  <2>4. QED BY <2>3, TrailsAgree
<1>6. T[k] = Step(sps[k], p) /\ U[k] = p
  <2>1. U[k] = Step(t[k], U[k - 1]) /\ U[k - 1] = p /\ T[k] = Step(sps[k], p)
    BY <1>2, <1>3, <1>5
  <2>2. QED BY <1>1, <2>1 DEF Step
<1>7. ASSUME ~Moves(sps[k], p) PROVE \A j \in 0..n : U[j] = T[j]
  <2>1. T[k] = U[k]
    BY <1>6, <1>7 DEF Step
  <2>2. \A j \in k + 1..n : Step(sps[j], T[j - 1]) = Step(t[j], T[j - 1])
    BY <1>1, <1>2
  <2>3. ASSUME NEW j \in k..n PROVE U[j] = T[j]
    <3>1. j \in Nat /\ k <= j /\ j <= n /\ j <= Len(t) /\ Len(t) \in Nat
      BY <1>1, <1>2
    <3>2. \A m \in k + 1..j : Step(sps[m], T[m - 1]) = Step(t[m], T[m - 1])
      BY <1>2, <2>2, <3>1
    <3>3. TakenAlike(sps, t, place, k, j)
      BY <1>2, <2>1, <3>1, <3>2 DEF TakenAlike
    <3>4. QED BY <3>3, TrailsAgree
  <2>4. \A j \in 0..n : j \in 0..k - 1 \/ j \in k..n
    BY <1>2
  <2>5. QED BY <1>5, <2>3, <2>4
<1>8. ASSUME Moves(sps[k], p) PROVE \A j \in k..n : T[j] = Landing(sps[k], p) /\ U[j] = p
  <2>1. T[k] = Landing(sps[k], p) /\ p.vod \in Ends(sps[k]) /\ T[k].vod \in Ends(sps[k])
    BY <1>2, <1>4, <1>6, <1>8, StepPlace
  <2>2. \A j \in Live(sps) : k < j /\ j <= n => T[k].vod \notin Ends(sps[j])
    <3>1. \A j \in Live(sps) : k < j => j > k
      BY <1>2 DEF Live
    <3>2. QED BY <1>1, <2>1, <3>1
  <2>3. ASSUME NEW j \in k..n PROVE T[j] = T[k]
    <3>1. k \in Nat /\ j \in Nat /\ k <= j /\ j <= Len(sps)
      BY <1>2
    <3>2. \A m \in Live(sps) : k < m /\ m <= j => T[k].vod \notin Ends(sps[m])
      BY <1>2, <2>2, <3>1 DEF Live
    <3>3. QED BY <1>1, <3>1, <3>2, TrailStays
  <2>4. \A j \in Live(t) : k < j /\ j <= Len(t) => U[k].vod \notin Ends(t[j])
    <3>1. ASSUME NEW j \in Live(t), k < j PROVE j \in Live(sps) /\ t[j] = sps[j] /\ j > k
      <4>1. j \in 1..n /\ j # k /\ ~t[j].undone
        BY <1>1, <1>2, <3>1 DEF Live
      <4>2. QED BY <1>1, <1>2, <3>1, <4>1 DEF Live
    <3>2. QED BY <1>1, <1>6, <2>1, <3>1
  <2>5. ASSUME NEW j \in k..n PROVE U[j] = U[k]
    <3>1. k \in Nat /\ j \in Nat /\ k <= j /\ j <= Len(t) /\ Len(t) \in Nat
      BY <1>1, <1>2
    <3>2. \A m \in Live(t) : k < m /\ m <= j => U[k].vod \notin Ends(t[m])
      BY <2>4, <3>1 DEF Live
    <3>3. QED BY <1>1, <3>1, <3>2, TrailStays
  <2>6. QED BY <1>6, <2>1, <2>3, <2>5
<1>9. QED BY <1>5, <1>7, <1>8

----------------------------------------------------------------------------
(* Requests keep their locks.                                               *)

LEMMA HoldsIs ==
  ASSUME NEW c \in Callers, call[c] # NoCall
  PROVE  Holds(c) = IF call[c].pc = "locked" THEN call[c].ids ELSE {}
BY DEF Holds

\* What another request has locked is as it was.
LEMMA OthersKept ==
  ASSUME LockInv, NEW d \in Callers, call[d] # NoCall, call'[d] = call[d],
         \A v \in Holds(d) \cap Ids : /\ v \in Ids' /\ vods'[v].title = vods[v].title
                                      /\ vods'[v].side.duration = vods[v].side.duration
                                      /\ vods'[v].merged = vods[v].merged,
         DOMAIN splices \subseteq DOMAIN splices',
         \A k \in DOMAIN splices : /\ splices'[k].vod = splices[k].vod /\ splices'[k].other = splices[k].other
                                   /\ splices'[k].result = splices[k].result,
         \A m \in Active' : m \in Active \/ Touched(m)' \cap Holds(d) = {}
  PROVE  CallOK(call[d])'
<1> PICK r : r = call[d]
  OBVIOUS
<1>1. CallOK(r) /\ call'[d] = r /\ Holds(d) = IF r.pc = "locked" THEN r.ids ELSE {}
  BY HoldsIs DEF LockInv
<1>2. \A k \in DOMAIN splices : Touched(k)' = Touched(k)
  BY DEF Touched
<1>3. ASSUME r.op = "merge" PROVE MergeOK(r)'
  BY <1>1, <1>3 DEF CallOK, MergeOK
<1>4. ASSUME r.op = "split" PROVE SplitOK(r)'
  BY <1>1, <1>4 DEF CallOK, SplitOK
<1>5. ASSUME r.op = "undo" PROVE UndoOK(r)'
  <2>1. UndoOK(r)
    BY <1>1, <1>5 DEF CallOK
  <2>2. /\ r.pc \in {"picked", "locked"} /\ r.splice \in DOMAIN splices' /\ r.ids = Touched(r.splice)'
        /\ r = [op |-> r.op, pc |-> r.pc, ids |-> r.ids, splice |-> r.splice, force |-> r.force]
    BY <1>2, <2>1 DEF UndoOK
  <2>3. ASSUME r.pc = "locked"
        PROVE  /\ r.ids \subseteq Ids' /\ ~Blocked(r.splice)'
               /\ r.force \/ \A v \in r.ids : vods'[v].title = splices'[r.splice].result[v][1]
    <3>1. /\ r.ids \subseteq Ids /\ ~Blocked(r.splice) /\ Holds(d) = r.ids /\ r.splice \in DOMAIN splices
          /\ r.force \/ \A v \in r.ids : vods[v].title = splices[r.splice].result[v][1]
      BY <1>1, <2>1, <2>3 DEF UndoOK
    <3>2. r.ids \subseteq Ids' /\ \A v \in r.ids : vods'[v].title = vods[v].title
      BY <3>1
    <3>3. ASSUME NEW m \in Active', m > r.splice PROVE Touched(m)' \cap r.ids = {}
      <4>1. CASE m \in Active
        <5>1. Touched(m) \cap r.ids = {} /\ m \in DOMAIN splices
          BY <2>1, <3>1, <3>3, <4>1 DEF Blocked, Active, UndoOK
        <5>2. QED BY <1>2, <5>1
      <4>2. CASE m \notin Active
        BY <3>1, <4>2
      <4>3. QED BY <4>1, <4>2
    <3>4. ~Blocked(r.splice)'
      BY <2>2, <3>3 DEF Blocked
    <3>5. splices'[r.splice].result = splices[r.splice].result
      BY <3>1
    <3>6. QED BY <3>1, <3>2, <3>4, <3>5
  <2>4. QED BY <1>1, <2>2, <2>3 DEF UndoOK
<1>6. QED BY <1>1, <1>3, <1>4, <1>5 DEF CallOK

\* A request that asks, waits or ends, and writes nothing.
LEMMA AskKeeps ==
  ASSUME LockInv, NEW c \in Callers, NEW r, call' = [call EXCEPT ![c] = r], UNCHANGED <<vods, splices>>,
         r # NoCall => CallOK(r) /\ (r.pc = "locked" => \A d \in Callers \ {c} : Holds(d) \cap r.ids = {})
  PROVE  LockInv'
<1>1. call' = [d \in Callers |-> call'[d]] /\ call'[c] = r /\ \A d \in Callers \ {c} : call'[d] = call[d]
  BY DEF LockInv
<1>2. RowsOK'
  BY DEF LockInv, RowsOK, Ids
<1>3. /\ \A d \in Callers \ {c} : Holds(d)' = Holds(d)
      /\ Holds(c)' = IF r # NoCall /\ r.pc = "locked" THEN r.ids ELSE {}
  BY <1>1 DEF Holds
<1>4. Exclusive'
  <2>1. ASSUME NEW d \in Callers \ {c} PROVE Holds(d)' \cap Holds(c)' = {}
    BY <1>3
  <2>2. ASSUME NEW d \in Callers \ {c}, NEW e \in Callers \ {c}, d # e PROVE Holds(d)' \cap Holds(e)' = {}
    BY <1>3, <2>2 DEF LockInv, Exclusive
  <2>3. QED BY <2>1, <2>2 DEF Exclusive
<1>5. \A x : CallOK(x) => CallOK(x)'
  BY DEF CallOK, MergeOK, SplitOK, UndoOK, Blocked, Active, Touched, Ids
<1>6. ASSUME NEW d \in Callers, call'[d] # NoCall PROVE CallOK(call[d])'
  <2>1. CASE d = c
    BY <1>1, <1>5, <1>6, <2>1
  <2>2. CASE d # c
    BY <1>1, <1>5, <1>6, <2>2 DEF LockInv
  <2>3. QED BY <2>1, <2>2
<1>7. QED BY <1>1, <1>2, <1>4, <1>6 DEF LockInv

\* A step that writes: what is locked by requests that go on stays.
LEMMA WriteKeeps ==
  ASSUME LockInv, RowsOK', call' = [d \in Callers |-> call'[d]],
         \A d \in Callers : call'[d] = call[d] \/ call'[d] = NoCall,
         DOMAIN splices \subseteq DOMAIN splices',
         \A k \in DOMAIN splices : /\ splices'[k].vod = splices[k].vod /\ splices'[k].other = splices[k].other
                                   /\ splices'[k].result = splices[k].result,
         \A d \in Callers : call'[d] # NoCall =>
           /\ \A v \in Holds(d) \cap Ids : /\ v \in Ids' /\ vods'[v].title = vods[v].title
                                           /\ vods'[v].side.duration = vods[v].side.duration
                                           /\ vods'[v].merged = vods[v].merged
           /\ \A m \in Active' : m \in Active \/ Touched(m)' \cap Holds(d) = {}
  PROVE  LockInv'
<1>1. ASSUME NEW d \in Callers, call'[d] # NoCall PROVE CallOK(call[d])'
  BY <1>1, OthersKept
<1>2. Exclusive'
  <2>1. ASSUME NEW d \in Callers PROVE Holds(d)' \subseteq Holds(d)
    BY DEF Holds
  <2>2. QED BY <2>1 DEF LockInv, Exclusive
<1>3. QED BY <1>1, <1>2 DEF LockInv

LEMMA MaxIsIn ==
  ASSUME NEW S \in SUBSET Nat, S # {}, NEW n \in Nat, \A x \in S : x <= n
  PROVE  Max(S) \in S /\ \A x \in S : x <= Max(S)
<1> DEFINE D == {m \in Nat : \E x \in S : m = n - x}
<1>1. D # {}
  <2>1. PICK x \in S : TRUE
    OBVIOUS
  <2>2. n - x \in D
    BY <2>1
  <2>3. QED BY <2>2
<1>2. PICK m \in D : \A d \in D : m <= d
  BY <1>1, FirstNat
<1>3. PICK x \in S : m = n - x
  BY <1>2
<1>4. ASSUME NEW y \in S PROVE x >= y
  <2>1. n - y \in D
    OBVIOUS
  <2>2. m <= n - y
    BY <1>2, <2>1
  <2>3. x \in Nat /\ y \in Nat
    OBVIOUS
  <2>4. QED BY <1>3, <2>2, <2>3
<1>5. \E z \in S : \A y \in S : z >= y
  BY <1>4
<1>6. Max(S) \in S /\ \A y \in S : Max(S) >= y
  BY <1>5 DEF Max
<1>7. QED BY <1>6

LEMMA RowFacts ==
  ASSUME LockInv, NEW v \in Ids
  PROVE  IsRow(vods[v]) /\ IsSide(vods[v].side) /\ vods[v].start \in Int /\ vods[v].side.duration \in Nat
BY DEF LockInv, RowsOK, IsRow, IsSide

LEMMA SplicesFacts ==
  ASSUME LockInv
  PROVE  /\ AreSplices(splices) /\ Len(splices) \in Nat /\ DOMAIN splices = 1..Len(splices)
         /\ \A k \in 1..Len(splices) : IsSplice(splices[k]) /\ Touched(k) = Ends(splices[k])
         /\ Active = Live(splices)
<1>1. AreSplices(splices)
  BY DEF LockInv, RowsOK
<1>2. Len(splices) \in Nat /\ DOMAIN splices = 1..Len(splices) /\ \A k \in 1..Len(splices) : IsSplice(splices[k])
  BY <1>1, AreSplicesFacts
<1>3. Active = Live(splices)
  BY <1>2 DEF Active, Live
<1>4. QED BY <1>1, <1>2, <1>3 DEF Touched, Ends

LEMMA MergeChecksLocks ==
  ASSUME SplicesAssumption, LockInv, NEW c \in Callers, NEW a \in Ids, NEW b \in Ids,
         NEW gap \in GapOverrides \cup {Computed}, MergeChecks(c, a, b, gap)
  PROVE  LockInv'
<1> DEFINE offset == OffsetOf(a, b, gap)
           r == [op |-> "merge", pc |-> "locked", ids |-> {a, b}, a |-> a, b |-> b, offset |-> offset]
<1>1. /\ a # b /\ \A d \in Callers : Holds(d) \cap {a, b} = {}
      /\ vods[a].merged = NoVod /\ vods[b].merged = NoVod /\ offset >= vods[a].side.duration
      /\ call' = [call EXCEPT ![c] = r] /\ UNCHANGED <<vods, splices>>
  BY DEF MergeChecks, Unlocked, Unheld, CanMerge, Ask, Rows
<1>2. offset \in Int
  <2>1. vods[a].start \in Int /\ vods[b].start \in Int /\ vods[a].side.duration \in Nat
    BY RowFacts
  <2>2. gap # Computed => gap \in Int
    BY DEF SplicesAssumption
  <2>3. QED BY <2>1, <2>2 DEF OffsetOf
<1> HIDE DEF offset
<1>3. offset \in Nat
  BY <1>1, <1>2, RowFacts
<1>4. MergeOK(r)
  BY <1>1, <1>3 DEF MergeOK
<1>5. CallOK(r) /\ r.ids = {a, b}
  BY <1>4 DEF CallOK
<1> HIDE DEF r
<1>6. QED BY <1>1, <1>5, AskKeeps

LEMMA SplitChecksLocks ==
  ASSUME LockInv, NEW c \in Callers, NEW a \in Ids, NEW at \in Points(a), SplitChecks(c, a, at)
  PROVE  LockInv'
<1> DEFINE r == [op |-> "split", pc |-> "locked", ids |-> {a}, a |-> a, at |-> at]
<1>1. /\ \A d \in Callers : Holds(d) \cap {a} = {}
      /\ vods[a].merged = NoVod /\ call' = [call EXCEPT ![c] = r] /\ UNCHANGED <<vods, splices>>
  BY DEF SplitChecks, Unlocked, Unheld, Ask, Rows
<1>2. at \in Nat /\ 0 < at /\ at < vods[a].side.duration
  BY RowFacts DEF Points
<1>3. CallOK(r) /\ r.ids = {a}
  BY <1>1, <1>2 DEF CallOK, SplitOK
<1> HIDE DEF r
<1>4. QED BY <1>1, <1>3, AskKeeps

\* With its VODs locked, an undo that may go on.
LEMMA CanUndoLocks ==
  ASSUME LockInv, NEW c \in Callers, NEW k \in DOMAIN splices, NEW force, CanUndo(k, force), Unlocked(Touched(k)),
         NEW r, r = [op |-> "undo", pc |-> "locked", ids |-> Touched(k), splice |-> k, force |-> force],
         call' = [call EXCEPT ![c] = r], UNCHANGED <<vods, splices>>
  PROVE  LockInv'
<1>1. Touched(k) \subseteq Ids /\ ~Blocked(k) /\ (force \/ Unedited(k))
  BY DEF CanUndo
<1>2. Unedited(k) => \A v \in Touched(k) : vods[v].title = splices[k].result[v][1]
  <2>1. ASSUME Unedited(k), NEW v \in Touched(k) PROVE vods[v].title = splices[k].result[v][1]
    <3>1. Editable(vods[v]) = splices[k].result[v]
      BY <2>1 DEF Unedited
    <3>2. Editable(vods[v])[1] = vods[v].title
      BY DEF Editable
    <3>3. QED BY <3>1, <3>2
  <2>2. QED BY <2>1
<1>3. r.op = "undo" /\ r.pc = "locked" /\ r.ids = Touched(k) /\ r.splice = k /\ r.force = force
  OBVIOUS
<1>4. UndoOK(r)
  BY <1>1, <1>2, <1>3 DEF UndoOK
<1>5. CallOK(r)
  BY <1>3, <1>4 DEF CallOK
<1>6. \A d \in Callers : Holds(d) \cap r.ids = {}
  BY <1>3 DEF Unlocked, Unheld
<1>7. QED BY <1>5, <1>6, AskKeeps

LEMMA SplitAtJoinLocks ==
  ASSUME LockInv, NEW c \in Callers, NEW a, NEW at, NEW force, SplitAtJoin(c, a, at, force)
  PROVE  LockInv'
<1> DEFINE k == Max(Joins(a, at))
<1>1. k \in DOMAIN splices
  <2>1. Joins(a, at) # {} /\ Joins(a, at) \subseteq Active
    BY DEF SplitAtJoin, Joins
  <2>2. Active \subseteq 1..Len(splices) /\ Len(splices) \in Nat
    BY SplicesFacts DEF Active
  <2>3. ASSUME NEW x \in Joins(a, at) PROVE x \in Nat /\ x <= Len(splices)
    <3>1. x \in 1..Len(splices)
      BY <2>1, <2>2
    <3>2. QED BY <2>2, <3>1
  <2>4. k \in Joins(a, at)
    BY <2>1, <2>2, <2>3, MaxIsIn
  <2>5. QED BY <2>4 DEF Joins, Active
<1>2. /\ Unlocked(Touched(k)) /\ CanUndo(k, force) /\ UNCHANGED <<vods, splices>>
      /\ call' = [call EXCEPT ![c] = [op |-> "undo", pc |-> "locked", ids |-> Touched(k), splice |-> k, force |-> force]]
  BY DEF SplitAtJoin, Ask, Rows
<1> HIDE DEF k
<1>3. QED BY <1>1, <1>2, CanUndoLocks

LEMMA PickUndoLocks ==
  ASSUME LockInv, NEW c \in Callers, NEW k \in DOMAIN splices, NEW force, PickUndo(c, k, force)
  PROVE  LockInv'
<1> DEFINE r == [op |-> "undo", pc |-> "picked", ids |-> Touched(k), splice |-> k, force |-> force]
<1>1. call' = [call EXCEPT ![c] = r] /\ UNCHANGED <<vods, splices>>
  BY DEF PickUndo, Ask, Rows
<1>2. CallOK(r) /\ r.pc = "picked"
  BY DEF CallOK, UndoOK
<1> HIDE DEF r
<1>3. QED BY <1>1, <1>2, AskKeeps

LEMMA UndoChecksLocks ==
  ASSUME LockInv, NEW c \in Callers, UndoChecks(c)
  PROVE  LockInv'
<1> PICK r : r = call[c]
  OBVIOUS
<1>1. /\ r # NoCall /\ r.pc = "picked" /\ Unlocked(r.ids) /\ UNCHANGED <<vods, splices>>
      /\ call' = [call EXCEPT ![c] = IF CanUndo(r.splice, r.force) THEN [r EXCEPT !.pc = "locked"] ELSE NoCall]
  BY DEF UndoChecks, Rows, LockInv
<1>2. CallOK(r) /\ r.op = "undo" /\ UndoOK(r)
  BY <1>1 DEF LockInv, CallOK, MergeOK, SplitOK
<1>3. CASE CanUndo(r.splice, r.force)
  <2>1. [r EXCEPT !.pc = "locked"] =
          [op |-> "undo", pc |-> "locked", ids |-> Touched(r.splice), splice |-> r.splice, force |-> r.force]
    BY <1>2 DEF UndoOK
  <2>2. r.splice \in DOMAIN splices /\ Unlocked(Touched(r.splice))
    BY <1>1, <1>2 DEF UndoOK
  <2>3. PICK q : q = [op |-> "undo", pc |-> "locked", ids |-> Touched(r.splice), splice |-> r.splice, force |-> r.force]
    OBVIOUS
  <2>4. call' = [call EXCEPT ![c] = q]
    BY <1>1, <1>3, <2>1, <2>3
  <2>5. PICK k \in DOMAIN splices : k = r.splice
    BY <2>2
  <2>6. PICK force : force = r.force
    OBVIOUS
  <2>7. CanUndo(k, force) /\ Unlocked(Touched(k))
    BY <1>3, <2>2, <2>5, <2>6
  <2>8. q = [op |-> "undo", pc |-> "locked", ids |-> Touched(k), splice |-> k, force |-> force]
    BY <2>3, <2>5, <2>6
  <2>9. UNCHANGED <<vods, splices>>
    BY <1>1
  <2>10. QED BY <2>4, <2>7, <2>8, <2>9, CanUndoLocks
<1>4. CASE ~CanUndo(r.splice, r.force)
  <2>1. call' = [call EXCEPT ![c] = NoCall]
    BY <1>1, <1>4
  <2>2. QED BY <1>1, <2>1, AskKeeps
<1>5. QED BY <1>3, <1>4

----------------------------------------------------------------------------
(* What a commit writes, row by row.                                        *)

LEMMA FieldsOf ==
  ASSUME NEW r, IsRow(r)
  PROVE  IsFields(Fields(r)) /\ Fields(r).title = r.title /\ Fields(r).side = r.side
BY DEF IsRow, Fields, IsFields

\* A row by its columns, and a row with some of them written.
Made(start, title, side, locked, emotes, merged) ==
  [start |-> start, title |-> title, side |-> side, locked |-> locked, emotes |-> emotes, merged |-> merged]

LEMMA RowMade ==
  ASSUME NEW start \in Int, NEW title, NEW side, IsSide(side), NEW locked, NEW emotes, NEW merged, NEW q,
         q = Made(start, title, side, locked, emotes, merged)
  PROVE  /\ IsRow(q) /\ q.start = start /\ q.title = title /\ q.side = side /\ q.locked = locked
         /\ q.emotes = emotes /\ q.merged = merged
BY DEF IsRow, Made

\* The rows the steps write.
Pointed(r, x)              == [r EXCEPT !.merged = x]
Titled(r, x)               == [r EXCEPT !.title = x]
WithEmotes(r, x)           == [r EXCEPT !.emotes = x]
SourceRow(r, s, x)         == [r EXCEPT !.side = s, !.merged = x]
KeptRow(r, s, l)           == [r EXCEPT !.side = s, !.locked = l]
TargetRow(r, s, l, e)      == [r EXCEPT !.side = s, !.locked = l, !.emotes = e]
HalfRow(r, st, s, l)       == [r EXCEPT !.start = st, !.side = s, !.locked = l]
RestoredRow(r, ti, s, l)   == [r EXCEPT !.title = ti, !.side = s, !.locked = l]

LEMMA RowWritten ==
  ASSUME NEW r, IsRow(r), NEW title, NEW side, NEW locked, NEW emotes, NEW merged, NEW start
  PROVE  /\ Pointed(r, merged) = Made(r.start, r.title, r.side, r.locked, r.emotes, merged)
         /\ Titled(r, title) = Made(r.start, title, r.side, r.locked, r.emotes, r.merged)
         /\ WithEmotes(r, emotes) = Made(r.start, r.title, r.side, r.locked, emotes, r.merged)
         /\ SourceRow(r, side, merged) = Made(r.start, r.title, side, r.locked, r.emotes, merged)
         /\ KeptRow(r, side, locked) = Made(r.start, r.title, side, locked, r.emotes, r.merged)
         /\ TargetRow(r, side, locked, emotes) = Made(r.start, r.title, side, locked, emotes, r.merged)
         /\ HalfRow(r, start, side, locked) = Made(start, r.title, side, locked, r.emotes, r.merged)
         /\ RestoredRow(r, title, side, locked) = Made(r.start, title, side, locked, r.emotes, r.merged)
<1>1. PICK st, ti, si, lo, em, me :
        st = r.start /\ ti = r.title /\ si = r.side /\ lo = r.locked /\ em = r.emotes /\ me = r.merged
  OBVIOUS
<1>2. r = [start |-> st, title |-> ti, side |-> si, locked |-> lo, emotes |-> em, merged |-> me]
  BY <1>1 DEF IsRow
<1> DEFINE q == [r EXCEPT !.side = side]
           p == [q EXCEPT !.locked = locked]
           s == [r EXCEPT !.start = start]
           u == [s EXCEPT !.side = side]
           t == [r EXCEPT !.title = title]
           w == [t EXCEPT !.side = side]
<1>3. /\ q = [start |-> st, title |-> ti, side |-> side, locked |-> lo, emotes |-> em, merged |-> me]
      /\ s = [start |-> start, title |-> ti, side |-> si, locked |-> lo, emotes |-> em, merged |-> me]
      /\ t = [start |-> st, title |-> title, side |-> si, locked |-> lo, emotes |-> em, merged |-> me]
  BY <1>2
<1> HIDE DEF q, s, t
<1>4. p = [start |-> st, title |-> ti, side |-> side, locked |-> locked, emotes |-> em, merged |-> me]
  BY <1>3
<1>5. u = [start |-> start, title |-> ti, side |-> side, locked |-> lo, emotes |-> em, merged |-> me]
  BY <1>3
<1>6. w = [start |-> st, title |-> title, side |-> side, locked |-> lo, emotes |-> em, merged |-> me]
  BY <1>3
<1> HIDE DEF p, u, w
<1>7. [q EXCEPT !.merged = merged] = Made(st, ti, side, lo, em, merged)
  BY <1>3 DEF Made
<1>8. p = Made(st, ti, side, locked, em, me)
  BY <1>4 DEF Made
<1>9. [p EXCEPT !.emotes = emotes] = Made(st, ti, side, locked, emotes, me)
  BY <1>4 DEF Made
<1>10. [u EXCEPT !.locked = locked] = Made(start, ti, side, locked, em, me)
  BY <1>5 DEF Made
<1>11. [w EXCEPT !.locked = locked] = Made(st, title, side, locked, em, me)
  BY <1>6 DEF Made
<1>12. SourceRow(r, side, merged) = Made(st, ti, side, lo, em, merged)
  BY <1>7, Zenon DEF q, SourceRow
<1>13. KeptRow(r, side, locked) = Made(st, ti, side, locked, em, me)
  BY <1>8, Zenon DEF p, q, KeptRow
<1>14. TargetRow(r, side, locked, emotes) = Made(st, ti, side, locked, emotes, me)
  BY <1>9, Zenon DEF p, q, TargetRow
<1>15. HalfRow(r, start, side, locked) = Made(start, ti, side, locked, em, me)
  BY <1>10, Zenon DEF s, u, HalfRow
<1>16. RestoredRow(r, title, side, locked) = Made(st, title, side, locked, em, me)
  BY <1>11, Zenon DEF t, w, RestoredRow
<1>17. Pointed(r, merged) = Made(st, ti, si, lo, em, merged)
  BY <1>2 DEF Made, Pointed
<1>18. Titled(r, title) = Made(st, title, si, lo, em, me)
  BY <1>2 DEF Made, Titled
<1>19. WithEmotes(r, emotes) = Made(st, ti, si, lo, emotes, me)
  BY <1>2 DEF Made, WithEmotes
<1>20. QED BY <1>1, <1>12, <1>13, <1>14, <1>15, <1>16, <1>17, <1>18, <1>19

LEMMA PointedIs ==
  ASSUME NEW r, IsRow(r), NEW x, NEW q, q = Pointed(r, x)
  PROVE  /\ IsRow(q) /\ q.start = r.start /\ q.title = r.title /\ q.side = r.side /\ q.locked = r.locked
         /\ q.emotes = r.emotes /\ q.merged = x
<1>1. r.start \in Int /\ IsSide(r.side)
  BY DEF IsRow
<1>2. q = Made(r.start, r.title, r.side, r.locked, r.emotes, x)
  BY RowWritten
<1>3. QED BY <1>1, <1>2, RowMade

LEMMA TitledIs ==
  ASSUME NEW r, IsRow(r), NEW x, NEW q, q = Titled(r, x)
  PROVE  /\ IsRow(q) /\ q.start = r.start /\ q.title = x /\ q.side = r.side /\ q.locked = r.locked
         /\ q.emotes = r.emotes /\ q.merged = r.merged
<1>1. r.start \in Int /\ IsSide(r.side)
  BY DEF IsRow
<1>2. q = Made(r.start, x, r.side, r.locked, r.emotes, r.merged)
  BY RowWritten
<1>3. QED BY <1>1, <1>2, RowMade

LEMMA WithEmotesIs ==
  ASSUME NEW r, IsRow(r), NEW x, NEW q, q = WithEmotes(r, x)
  PROVE  /\ IsRow(q) /\ q.start = r.start /\ q.title = r.title /\ q.side = r.side /\ q.locked = r.locked
         /\ q.emotes = x /\ q.merged = r.merged
<1>1. r.start \in Int /\ IsSide(r.side)
  BY DEF IsRow
<1>2. q = Made(r.start, r.title, r.side, r.locked, x, r.merged)
  BY RowWritten
<1>3. QED BY <1>1, <1>2, RowMade

LEMMA SourceRowIs ==
  ASSUME NEW r, IsRow(r), NEW s, IsSide(s), NEW x, NEW q, q = SourceRow(r, s, x)
  PROVE  /\ IsRow(q) /\ q.start = r.start /\ q.title = r.title /\ q.side = s /\ q.locked = r.locked
         /\ q.emotes = r.emotes /\ q.merged = x
<1>1. r.start \in Int /\ IsSide(r.side)
  BY DEF IsRow
<1>2. q = Made(r.start, r.title, s, r.locked, r.emotes, x)
  BY RowWritten
<1>3. QED BY <1>1, <1>2, RowMade

LEMMA KeptRowIs ==
  ASSUME NEW r, IsRow(r), NEW s, IsSide(s), NEW l, NEW q, q = KeptRow(r, s, l)
  PROVE  /\ IsRow(q) /\ q.start = r.start /\ q.title = r.title /\ q.side = s /\ q.locked = l
         /\ q.emotes = r.emotes /\ q.merged = r.merged
<1>1. r.start \in Int /\ IsSide(r.side)
  BY DEF IsRow
<1>2. q = Made(r.start, r.title, s, l, r.emotes, r.merged)
  BY RowWritten
<1>3. QED BY <1>1, <1>2, RowMade

LEMMA TargetRowIs ==
  ASSUME NEW r, IsRow(r), NEW s, IsSide(s), NEW l, NEW e, NEW q, q = TargetRow(r, s, l, e)
  PROVE  /\ IsRow(q) /\ q.start = r.start /\ q.title = r.title /\ q.side = s /\ q.locked = l
         /\ q.emotes = e /\ q.merged = r.merged
<1>1. r.start \in Int /\ IsSide(r.side)
  BY DEF IsRow
<1>2. q = Made(r.start, r.title, s, l, e, r.merged)
  BY RowWritten
<1>3. QED BY <1>1, <1>2, RowMade

LEMMA HalfRowIs ==
  ASSUME NEW r, IsRow(r), NEW st \in Int, NEW s, IsSide(s), NEW l, NEW q, q = HalfRow(r, st, s, l)
  PROVE  /\ IsRow(q) /\ q.start = st /\ q.title = r.title /\ q.side = s /\ q.locked = l
         /\ q.emotes = r.emotes /\ q.merged = r.merged
<1>1. r.start \in Int /\ IsSide(r.side)
  BY DEF IsRow
<1>2. q = Made(st, r.title, s, l, r.emotes, r.merged)
  BY RowWritten
<1>3. QED BY <1>1, <1>2, RowMade

LEMMA RestoredRowIs ==
  ASSUME NEW r, IsRow(r), NEW ti, NEW s, IsSide(s), NEW l, NEW q, q = RestoredRow(r, ti, s, l)
  PROVE  /\ IsRow(q) /\ q.start = r.start /\ q.title = ti /\ q.side = s /\ q.locked = l
         /\ q.emotes = r.emotes /\ q.merged = r.merged
<1>1. r.start \in Int /\ IsSide(r.side)
  BY DEF IsRow
<1>2. q = Made(r.start, ti, s, l, r.emotes, r.merged)
  BY RowWritten
<1>3. QED BY <1>1, <1>2, RowMade

LEMMA SideBared ==
  ASSUME NEW s, IsSide(s)
  PROVE  IsSide([s EXCEPT !.chapters = {}, !.uploads = {}])
<1>1. PICK d, h, u : s = [duration |-> d, chapters |-> h, uploads |-> u] /\ d \in Nat
  BY DEF IsSide
<1> DEFINE q == [s EXCEPT !.chapters = {}]
<1>2. q = [duration |-> d, chapters |-> {}, uploads |-> u]
  BY <1>1
<1> HIDE DEF q
<1>3. [q EXCEPT !.uploads = {}] = [duration |-> d, chapters |-> {}, uploads |-> {}]
  BY <1>2
<1>4. [s EXCEPT !.chapters = {}, !.uploads = {}] = [duration |-> d, chapters |-> {}, uploads |-> {}]
  BY <1>3 DEF q
<1>5. QED BY <1>1, <1>4 DEF IsSide

\* A merge writes the rows of its VODs and of those merged into the source, and records what it moved.
MergeWrites(c, a, b, offset) ==
  /\ a \in Ids /\ b \in Ids /\ a # b /\ offset \in Nat /\ Ids' = Ids /\ Holds(c) = {a, b}
  /\ call' = [call EXCEPT ![c] = NoCall] /\ Unheld(Callers \ {c}, Pointing(b, 0))
  /\ vods[a].merged = NoVod /\ vods[b].merged = NoVod /\ vods' = [v \in Ids |-> vods'[v]]
  /\ \A v \in Ids : /\ IsRow(vods'[v]) /\ vods'[v].title = vods[v].title
                    /\ v # a => vods'[v].emotes = vods[v].emotes
                    /\ v \notin {a, b} => vods'[v].side = vods[v].side
                    /\ v = b => vods'[v].merged = [id |-> a, offset |-> offset]
                    /\ v \in Pointing(b, 0) =>
                         vods'[v].merged = [id |-> a, offset |-> vods[v].merged.offset + offset]
                    /\ v # b /\ v \notin Pointing(b, 0) => vods'[v].merged = vods[v].merged
  /\ chat' = MovedChat(a, offset, CommentsOf(b))
  /\ games' = MovedGames(a, offset, GamesOf(b))
  /\ \E sp : /\ IsSplice(sp) /\ ~sp.undone /\ sp.kind = "merge" /\ sp.vod = a /\ sp.other = b /\ sp.offset = offset
             /\ sp.members = CommentsOf(b) /\ sp.games = GamesOf(b)
             /\ sp.target = Fields(vods[a]) /\ sp.source = Fields(vods[b]) /\ sp.emotes = vods[a].emotes
             /\ sp.repointed = OldPoints(Pointing(b, 0))
             /\ \A v \in {a, b} : sp.result[v] = Editable(vods'[v])
             /\ splices' = Append(splices, sp)

LEMMA MergeDoes ==
  ASSUME LockInv, NEW c \in Callers, MergeCommits(c), NEW a, NEW b, NEW offset,
         a = call[c].a, b = call[c].b, offset = call[c].offset
  PROVE  MergeWrites(c, a, b, offset)
<1>1. PICK yes, both : yes = TRUE /\ both = vods[a].emotes \cup vods[b].emotes
  OBVIOUS
<1> DEFINE moved  == Pointing(b, 0)
           moves  == Repointed(moved, a, offset)
           plan   == PlanMerge(vods[a].side, vods[b].side, offset)
           bare   == [vods[b].side EXCEPT !.chapters = {}, !.uploads = {}]
           rowA   == TargetRow(vods[a], plan, yes, both)
           rowB   == SourceRow(vods[b], bare, [id |-> a, offset |-> offset])
           after  == [moves EXCEPT ![a] = rowA, ![b] = rowB]
           sp     == MergeRecord(a, b, offset)
<1>2. /\ call[c] # NoCall /\ call[c].op = "merge" /\ Unheld(Callers \ {c}, moved)
      /\ vods' = after /\ chat' = MovedChat(a, offset, CommentsOf(b)) /\ games' = MovedGames(a, offset, GamesOf(b))
      /\ splices' = Append(splices, sp) /\ call' = [call EXCEPT ![c] = NoCall] /\ after = MergedRows(a, b, offset)
  <2>1. /\ call[c] # NoCall /\ call[c].op = "merge" /\ Unheld(Callers \ {c}, moved)
        /\ vods' = MergedRows(a, b, offset) /\ chat' = MovedChat(a, offset, CommentsOf(b))
        /\ games' = MovedGames(a, offset, GamesOf(b))
        /\ splices' = Append(splices, sp) /\ call' = [call EXCEPT ![c] = NoCall]
    <3> HIDE DEF sp
    <3>1. QED BY Zenon DEF MergeCommits, sp
  <2>2. after = MergedRows(a, b, offset)
    BY <1>1, Zenon DEF MergedRows, TargetRow, SourceRow
  <2> HIDE DEF after, sp, moved
  <2>3. QED BY <2>1, <2>2
<1>3. /\ a \in Ids /\ b \in Ids /\ a # b /\ offset \in Nat /\ Holds(c) = {a, b}
      /\ vods[a].merged = NoVod /\ vods[b].merged = NoVod
  <2>1. MergeOK(call[c])
    BY <1>2 DEF LockInv, CallOK
  <2>2. QED BY <1>2, <2>1, HoldsIs DEF MergeOK
<1>4. a \notin moved /\ b \notin moved /\ moved \subseteq Ids
  BY <1>3 DEF Pointing
<1>5. Ids \subseteq Seq(Int) /\ \A v \in Ids : IsRow(vods[v])
  BY DEF LockInv, RowsOK
<1>6. IsSide(plan)
  <2>1. plan.duration = offset + vods[b].side.duration /\ vods[b].side.duration \in Nat
    BY <1>3, RowFacts DEF PlanMerge
  <2>2. plan = [duration |-> plan.duration, chapters |-> plan.chapters, uploads |-> plan.uploads]
    BY DEF PlanMerge
  <2> HIDE DEF plan
  <2>3. QED BY <1>3, <2>1, <2>2 DEF IsSide
<1>7. IsSide(bare)
  BY <1>3, RowFacts, SideBared
<1> HIDE DEF plan, bare
<1>8. /\ IsRow(rowA) /\ rowA.title = vods[a].title /\ rowA.merged = vods[a].merged
      /\ IsRow(rowB) /\ rowB.title = vods[b].title /\ rowB.merged = [id |-> a, offset |-> offset]
      /\ rowB.emotes = vods[b].emotes
  <2>1. PICK point : point = [id |-> a, offset |-> offset]
    OBVIOUS
  <2>2. IsRow(vods[a]) /\ IsRow(vods[b]) /\ rowB = SourceRow(vods[b], bare, point)
    BY <1>3, <1>5, <2>1
  <2>3. rowA = TargetRow(vods[a], plan, yes, both)
    OBVIOUS
  <2> HIDE DEF rowA, rowB
  <2>4. IsRow(rowA) /\ rowA.title = vods[a].title /\ rowA.merged = vods[a].merged
    BY <1>6, <2>2, <2>3, TargetRowIs
  <2>5. IsRow(rowB) /\ rowB.title = vods[b].title /\ rowB.merged = point /\ rowB.emotes = vods[b].emotes
    BY <1>7, <2>2, SourceRowIs
  <2>6. QED BY <2>1, <2>4, <2>5
<1> HIDE DEF moved
<1>9. /\ \A v \in moved : moves[v] = Pointed(vods[v], [id |-> a, offset |-> vods[v].merged.offset + offset])
      /\ \A v \in Ids \ moved : moves[v] = vods[v]
      /\ moves = [v \in Ids |-> moves[v]]
  BY <1>4 DEF Repointed, Pointed
<1> HIDE DEF moves, rowA, rowB
<1>10. /\ after[a] = rowA /\ after[b] = rowB /\ \A v \in Ids \ {a, b} : after[v] = moves[v]
      /\ after = [v \in Ids |-> after[v]]
  BY <1>3, <1>9
<1> HIDE DEF after
<1>11. ASSUME NEW v \in Ids
       PROVE  /\ IsRow(after[v]) /\ after[v].title = vods[v].title
              /\ v # a => after[v].emotes = vods[v].emotes
              /\ v \notin {a, b} => after[v].side = vods[v].side
              /\ v = b => after[v].merged = [id |-> a, offset |-> offset]
              /\ v \in moved => after[v].merged = [id |-> a, offset |-> vods[v].merged.offset + offset]
              /\ v # b /\ v \notin moved => after[v].merged = vods[v].merged
  <2>1. CASE v \in {a, b}
    BY <1>3, <1>4, <1>8, <1>10, <2>1
  <2>2. CASE v \notin {a, b} /\ v \in moved
    <3>1. PICK r, q : r = vods[v] /\ q = [id |-> a, offset |-> r.merged.offset + offset]
      OBVIOUS
    <3>2. after[v] = Pointed(r, q) /\ IsRow(r)
      BY <1>5, <1>9, <1>10, <2>2, <3>1
    <3>3. PICK s : s = after[v]
      OBVIOUS
    <3>4. IsRow(s) /\ s.title = r.title /\ s.emotes = r.emotes /\ s.side = r.side /\ s.merged = q
      BY <3>2, <3>3, PointedIs
    <3>5. QED BY <2>2, <3>1, <3>3, <3>4
  <2>3. CASE v \notin {a, b} /\ v \notin moved
    BY <1>5, <1>9, <1>10, <2>3
  <2>4. QED BY <2>1, <2>2, <2>3
<1>12. /\ sp.kind = "merge" /\ sp.vod = a /\ sp.other = b /\ sp.offset = offset /\ sp.undone = FALSE
       /\ sp.members = CommentsOf(b) /\ sp.games = GamesOf(b) /\ sp.target = Fields(vods[a]) /\ sp.source = Fields(vods[b])
       /\ sp.emotes = vods[a].emotes /\ sp.repointed = OldPoints(moved)
       /\ \A v \in {a, b} : sp.result[v] = Editable(after[v])
       /\ sp = [kind |-> sp.kind, vod |-> sp.vod, other |-> sp.other, offset |-> sp.offset, undone |-> sp.undone,
                join |-> sp.join, members |-> sp.members, games |-> sp.games, target |-> sp.target,
                source |-> sp.source, emotes |-> sp.emotes, repointed |-> sp.repointed, result |-> sp.result]
  BY <1>2 DEF MergeRecord, moved
<1> HIDE DEF sp
<1>13. IsSplice(sp)
  <2>1. IsFields(sp.target) /\ IsFields(sp.source) /\ sp.target.title = vods[a].title /\ sp.source.title = vods[b].title
    BY <1>3, <1>5, <1>12, FieldsOf
  <2>2. sp.result[a][1] = after[a].title /\ sp.result[b][1] = after[b].title
    BY <1>12 DEF Editable
  <2>3. sp.result[a][1] = sp.target.title /\ sp.result[b][1] = sp.source.title
    BY <1>3, <1>11, <2>1, <2>2
  <2>4. QED BY <1>3, <1>5, <1>12, <2>1, <2>3 DEF IsSplice
<1>14. \E s : /\ IsSplice(s) /\ ~s.undone /\ s.kind = "merge" /\ s.vod = a /\ s.other = b /\ s.offset = offset
              /\ s.members = CommentsOf(b) /\ s.games = GamesOf(b)
              /\ s.target = Fields(vods[a]) /\ s.source = Fields(vods[b]) /\ s.emotes = vods[a].emotes
              /\ s.repointed = OldPoints(Pointing(b, 0))
              /\ \A v \in {a, b} : s.result[v] = Editable(vods'[v])
              /\ splices' = Append(splices, s)
  <2>1. WITNESS sp
  <2>2. QED BY <1>2, <1>12, <1>13 DEF moved
<1>15. Ids' = Ids /\ vods' = [v \in Ids |-> vods'[v]]
  BY <1>2, <1>10 DEF Ids
<1>16. \A v \in Ids : /\ IsRow(vods'[v]) /\ vods'[v].title = vods[v].title
                      /\ v # a => vods'[v].emotes = vods[v].emotes
                      /\ v \notin {a, b} => vods'[v].side = vods[v].side
                      /\ v = b => vods'[v].merged = [id |-> a, offset |-> offset]
                      /\ v \in Pointing(b, 0) => vods'[v].merged = [id |-> a, offset |-> vods[v].merged.offset + offset]
                      /\ v # b /\ v \notin Pointing(b, 0) => vods'[v].merged = vods[v].merged
  BY <1>2, <1>11, Zenon DEF moved
<1>17. Unheld(Callers \ {c}, Pointing(b, 0)) /\ games' = MovedGames(a, offset, GamesOf(b))
  BY <1>2 DEF moved
<1>18. QED BY <1>2, <1>3, <1>14, <1>15, <1>16, <1>17 DEF MergeWrites
\* The number of a half is free: there are more numbers to try than VODs.
LEMMA FreeIdIs ==
  ASSUME RowsOK, NEW v \in Ids
  PROVE  FreeId(v) \notin Ids /\ FreeId(v) \in Seq(Int) /\ FreeId(v) # v
<1> DEFINE D == 2..(Cardinality(Ids) + 2)
           f == [n \in D |-> Append(v, n)]
           S == {n \in D : Append(v, n) \notin Ids}
<1>1. Ids \subseteq Seq(Int) /\ IsFiniteSet(Ids) /\ v \in Seq(Int)
  BY DEF RowsOK
<1>2. Cardinality(Ids) \in Nat
  BY <1>1, FS_CardinalityType
<1>3. S # {}
  <2>1. SUFFICES ASSUME S = {} PROVE FALSE
    OBVIOUS
  <2>2. f \in [D -> Ids]
    BY <2>1
  <2>3. IsFiniteSet(D) /\ Cardinality(D) = Cardinality(Ids) + 1
    BY <1>2, FS_Interval
  <2> HIDE DEF D, f
  <2>4. IsFiniteSet(D) /\ IsFiniteSet(Ids) /\ Cardinality(Ids) < Cardinality(D)
    BY <1>1, <1>2, <2>3
  <2>5. \E x, y \in D : x # y /\ f[x] = f[y]
    BY <2>2, <2>4, FS_PigeonHole
  <2>6. PICK x \in D, y \in D : x # y /\ f[x] = f[y]
    BY <2>5
  <2>7. Append(v, x) = Append(v, y) /\ x \in Int /\ y \in Int
    BY <1>2, <2>6 DEF D, f
  <2>8. Append(v, x)[Len(v) + 1] = x /\ Append(v, y)[Len(v) + 1] = y
    BY <1>1, <2>7
  <2>9. QED BY <2>6, <2>7, <2>8
<1>4. S \in SUBSET Nat /\ S \subseteq D
  BY <1>2
<1>5. PICK n \in S : \A m \in S : n <= m
  BY <1>3, <1>4, FirstNat
<1>6. n \in D /\ Append(v, n) \notin Ids /\ \A m \in 2..(n - 1) : Append(v, m) \in Ids
  <2>1. n \in D /\ Append(v, n) \notin Ids /\ n \in Nat
    BY <1>4, <1>5
  <2>2. ASSUME NEW m \in 2..(n - 1) PROVE Append(v, m) \in Ids
    <3>1. m \in D /\ ~(n <= m)
      BY <1>2, <2>1
    <3>2. QED BY <1>5, <3>1
  <2>3. QED BY <2>1, <2>2
<1> DEFINE P(m) == Append(v, m) \notin Ids /\ \A i \in 2..(m - 1) : Append(v, i) \in Ids
           x == CHOOSE m \in D : P(m)
<1>7. x \in D /\ P(x)
  <2> HIDE DEF P, D
  <2>1. \E m \in D : P(m)
    BY <1>6 DEF P
  <2>2. QED BY <2>1
<1>8. FreeId(v) = Append(v, x)
  BY DEF FreeId
<1>9. x \in Int
  BY <1>2, <1>7
<1> HIDE DEF x
<1>10. FreeId(v) \notin Ids
  BY <1>7, <1>8
<1>11. QED BY <1>1, <1>8, <1>9, <1>10

\* A split writes the rows of its VOD, of the half and of those merged in past the cut.
SplitWrites(c, a, at, new) ==
  /\ a \in Ids /\ at \in Nat /\ 0 < at /\ new \notin Ids /\ new \in Seq(Int) /\ new # a
  /\ Ids' = Ids \cup {new} /\ Holds(c) = {a}
  /\ call' = [call EXCEPT ![c] = NoCall] /\ Unheld(Callers \ {c}, Pointing(a, at))
  /\ vods[a].merged = NoVod /\ vods' = [v \in Ids' |-> vods'[v]]
  /\ \A v \in Ids : /\ IsRow(vods'[v]) /\ vods'[v].title = vods[v].title /\ vods'[v].emotes = vods[v].emotes
                    /\ v # a => vods'[v].side = vods[v].side
                    /\ v \in Pointing(a, at) =>
                         vods'[v].merged = [id |-> new, offset |-> vods[v].merged.offset + -at]
                    /\ v \notin Pointing(a, at) => vods'[v].merged = vods[v].merged
  /\ IsRow(vods'[new]) /\ vods'[new].merged = NoVod
  /\ chat' = MovedChat(new, -at, {m \in CommentsOf(a) : chat[m].at >= at})
  /\ games' = MovedGames(new, -at, GamesFrom(a, at))
  /\ \E sp : /\ IsSplice(sp) /\ ~sp.undone /\ sp.kind = "split" /\ sp.vod = a /\ sp.other = new /\ sp.offset = at
             /\ sp.target = Fields(vods[a]) /\ sp.repointed = OldPoints(Pointing(a, at))
             /\ \A v \in {a, new} : sp.result[v] = Editable(vods'[v])
             /\ splices' = Append(splices, sp)

LEMMA SplitDoes ==
  ASSUME LockInv, NEW c \in Callers, SplitCommits(c), NEW a, NEW at, NEW new,
         a = call[c].a, at = call[c].at, new = FreeId(a)
  PROVE  SplitWrites(c, a, at, new)
<1>1. PICK yes, start : yes = TRUE /\ start = vods[a].start + at
  OBVIOUS
<1> DEFINE n      == FreeId(a)
           moved  == Pointing(a, at)
           moves  == Repointed(moved, n, -at)
           first  == PlanSplit(vods[a].side, at).first
           second == PlanSplit(vods[a].side, at).second
           rowA   == KeptRow(vods[a], first, TRUE)
           half   == HalfRow(vods[a], vods[a].start + at, second, TRUE)
           kept   == [moves EXCEPT ![a] = rowA]
           after  == [v \in Ids \cup {n} |-> IF v = n THEN half ELSE kept[v]]
           sp     == SplitRecord(a, at)
<1>2. /\ call[c] # NoCall /\ call[c].op = "split" /\ Unheld(Callers \ {c}, moved)
      /\ vods' = after /\ chat' = MovedChat(n, -at, {m \in CommentsOf(a) : chat[m].at >= at})
      /\ games' = MovedGames(n, -at, GamesFrom(a, at))
      /\ splices' = Append(splices, sp) /\ call' = [call EXCEPT ![c] = NoCall] /\ after = SplitRows(a, at)
  <2>1. /\ call[c] # NoCall /\ call[c].op = "split" /\ Unheld(Callers \ {c}, moved)
        /\ vods' = SplitRows(a, at) /\ chat' = MovedChat(n, -at, {m \in CommentsOf(a) : chat[m].at >= at})
        /\ games' = MovedGames(n, -at, GamesFrom(a, at))
        /\ splices' = Append(splices, sp) /\ call' = [call EXCEPT ![c] = NoCall]
    <3> HIDE DEF sp
    <3>1. QED BY Zenon DEF SplitCommits, sp
  <2>2. after = SplitRows(a, at)
    BY Zenon DEF SplitRows, KeptRow, HalfRow
  <2> HIDE DEF after, sp, moved
  <2>3. QED BY <2>1, <2>2
<1>3. /\ a \in Ids /\ at \in Nat /\ 0 < at /\ at < vods[a].side.duration /\ Holds(c) = {a} /\ vods[a].merged = NoVod
  <2>1. SplitOK(call[c])
    BY <1>2 DEF LockInv, CallOK
  <2>2. QED BY <1>2, <2>1, HoldsIs DEF SplitOK
<1>4. n \notin Ids /\ n \in Seq(Int) /\ n # a /\ n = new
  BY <1>3, FreeIdIs DEF LockInv
<1> HIDE DEF n
<1>5. a \notin moved /\ n \notin moved /\ moved \subseteq Ids
  BY <1>3, <1>4 DEF Pointing
<1>6. Ids \subseteq Seq(Int) /\ \A v \in Ids : IsRow(vods[v])
  BY DEF LockInv, RowsOK
<1>7. IsSide(first) /\ IsSide(second)
  <2>1. first.duration = at /\ second.duration = vods[a].side.duration - at /\ vods[a].side.duration \in Nat
    BY <1>3, RowFacts DEF PlanSplit
  <2>2. /\ first = [duration |-> first.duration, chapters |-> first.chapters, uploads |-> first.uploads]
        /\ second = [duration |-> second.duration, chapters |-> second.chapters, uploads |-> second.uploads]
    BY DEF PlanSplit
  <2> HIDE DEF first, second
  <2>3. QED BY <1>3, <2>1, <2>2 DEF IsSide
<1> HIDE DEF first, second
<1>8. /\ IsRow(rowA) /\ rowA.title = vods[a].title /\ rowA.merged = vods[a].merged /\ rowA.emotes = vods[a].emotes
      /\ IsRow(half) /\ half.merged = vods[a].merged /\ half.title = vods[a].title
  <2>1. IsRow(vods[a]) /\ start \in Int
    BY <1>1, <1>3, RowFacts
  <2>2. rowA = KeptRow(vods[a], first, yes) /\ half = HalfRow(vods[a], start, second, yes)
    BY <1>1, Zenon
  <2> HIDE DEF rowA, half
  <2>3. IsRow(rowA) /\ rowA.title = vods[a].title /\ rowA.merged = vods[a].merged /\ rowA.emotes = vods[a].emotes
    BY <1>7, <2>1, <2>2, KeptRowIs
  <2>4. IsRow(half) /\ half.merged = vods[a].merged /\ half.title = vods[a].title
    BY <1>7, <2>1, <2>2, HalfRowIs
  <2>5. QED BY <2>3, <2>4
<1> HIDE DEF moved
<1>9. /\ \A v \in moved : moves[v] = Pointed(vods[v], [id |-> n, offset |-> vods[v].merged.offset + -at])
      /\ \A v \in Ids \ moved : moves[v] = vods[v]
      /\ moves = [v \in Ids |-> moves[v]]
  BY <1>5 DEF Repointed, Pointed
<1> HIDE DEF moves, rowA, half
<1>10. kept[a] = rowA /\ \A v \in Ids \ {a} : kept[v] = moves[v]
  BY <1>3, <1>9
<1> HIDE DEF kept
<1>11. /\ after[n] = half /\ after[a] = rowA /\ \A v \in Ids \ {a} : after[v] = moves[v]
       /\ after = [v \in Ids \cup {n} |-> after[v]] /\ DOMAIN after = Ids \cup {n}
  BY <1>3, <1>4, <1>10
<1> HIDE DEF after
<1>12. ASSUME NEW v \in Ids
       PROVE  /\ IsRow(after[v]) /\ after[v].title = vods[v].title /\ after[v].emotes = vods[v].emotes
              /\ v # a => after[v].side = vods[v].side
              /\ v \in moved => after[v].merged = [id |-> n, offset |-> vods[v].merged.offset + -at]
              /\ v \notin moved => after[v].merged = vods[v].merged
  <2>1. CASE v = a
    BY <1>3, <1>5, <1>8, <1>11, <2>1
  <2>2. CASE v # a /\ v \in moved
    <3>1. PICK r, q : r = vods[v] /\ q = [id |-> n, offset |-> r.merged.offset + -at]
      OBVIOUS
    <3>2. after[v] = Pointed(r, q) /\ IsRow(r)
      BY <1>6, <1>9, <1>11, <2>2, <3>1
    <3>3. PICK s : s = after[v]
      OBVIOUS
    <3>4. IsRow(s) /\ s.title = r.title /\ s.emotes = r.emotes /\ s.side = r.side /\ s.merged = q
      BY <3>2, <3>3, PointedIs
    <3>5. QED BY <2>2, <3>1, <3>3, <3>4
  <2>3. CASE v # a /\ v \notin moved
    BY <1>6, <1>9, <1>11, <2>3
  <2>4. QED BY <2>1, <2>2, <2>3
<1>13. /\ sp.kind = "split" /\ sp.vod = a /\ sp.other = n /\ sp.offset = at /\ sp.undone = FALSE
       /\ sp.target = Fields(vods[a]) /\ sp.source = Fields(vods[a])
       /\ sp.repointed = OldPoints(moved)
       /\ \A v \in {a, n} : sp.result[v] = Editable(after[v])
       /\ sp = [kind |-> sp.kind, vod |-> sp.vod, other |-> sp.other, offset |-> sp.offset, undone |-> sp.undone,
                join |-> sp.join, members |-> sp.members, games |-> sp.games, target |-> sp.target,
                source |-> sp.source, emotes |-> sp.emotes, repointed |-> sp.repointed, result |-> sp.result]
  BY <1>2 DEF SplitRecord, moved, n
<1> HIDE DEF sp
<1>14. IsSplice(sp)
  <2>1. IsFields(sp.target) /\ IsFields(sp.source) /\ sp.target.title = vods[a].title
    BY <1>3, <1>6, <1>13, FieldsOf
  <2>2. sp.result[a][1] = after[a].title
    BY <1>13 DEF Editable
  <2>3. sp.result[a][1] = sp.target.title
    BY <1>3, <1>12, <2>1, <2>2
  <2>4. QED BY <1>3, <1>4, <1>6, <1>13, <2>1, <2>3 DEF IsSplice
<1>15. \E s : /\ IsSplice(s) /\ ~s.undone /\ s.kind = "split" /\ s.vod = a /\ s.other = n /\ s.offset = at
              /\ s.target = Fields(vods[a]) /\ s.repointed = OldPoints(Pointing(a, at))
              /\ \A v \in {a, n} : s.result[v] = Editable(vods'[v])
              /\ splices' = Append(splices, s)
  <2>1. WITNESS sp
  <2>2. QED BY <1>2, <1>13, <1>14 DEF moved
<1>16. Ids' = Ids \cup {n} /\ vods' = [v \in Ids' |-> vods'[v]]
  BY <1>2, <1>11 DEF Ids
<1>17. \A v \in Ids : /\ IsRow(vods'[v]) /\ vods'[v].title = vods[v].title /\ vods'[v].emotes = vods[v].emotes
                      /\ v # a => vods'[v].side = vods[v].side
                      /\ v \in Pointing(a, at) => vods'[v].merged = [id |-> n, offset |-> vods[v].merged.offset + -at]
                      /\ v \notin Pointing(a, at) => vods'[v].merged = vods[v].merged
  BY <1>2, <1>12, Zenon DEF moved
<1>18. Unheld(Callers \ {c}, Pointing(a, at)) /\ IsRow(vods'[n]) /\ vods'[n].merged = NoVod
  BY <1>2, <1>3, <1>8, <1>11 DEF moved
<1>19. QED BY <1>2, <1>3, <1>4, <1>15, <1>16, <1>17, <1>18 DEF SplitWrites
\* A splice that was undone, for all but what it recorded of the chat.
Undone(sp) == [sp EXCEPT !.undone = TRUE, !.members = {}]

IsReplaced(t, sps, k, x) == t = [sps EXCEPT ![k] = x]

LEMMA SplicesReplaced ==
  ASSUME NEW sps, AreSplices(sps), NEW k \in 1..Len(sps), NEW x, NEW t, IsReplaced(t, sps, k, x)
  PROVE  /\ \E S : t \in Seq(S)
         /\ Len(t) = Len(sps) /\ t[k] = x /\ \A j \in 1..Len(sps) : j # k => t[j] = sps[j]
<1>1. PICK S : sps \in Seq(S)
  BY DEF AreSplices
<1>2. PICK n : n = Len(sps)
  OBVIOUS
<1>3. sps \in [1..n -> S] /\ n \in Nat /\ k \in 1..n
  BY <1>1, <1>2
<1>4. t \in [1..n -> S \cup {x}] /\ t[k] = x /\ \A j \in 1..n : j # k => t[j] = sps[j]
  BY <1>3 DEF IsReplaced
<1>5. t \in Seq(S \cup {x})
  BY <1>3, <1>4
<1>6. Len(t) = n
  BY <1>3, <1>4, <1>5
<1>7. QED BY <1>2, <1>4, <1>5, <1>6

LEMMA UndoneIs ==
  ASSUME NEW sp, IsSplice(sp), NEW q, q = Undone(sp)
  PROVE  /\ IsSplice(q) /\ q.undone /\ q.kind = sp.kind /\ q.vod = sp.vod /\ q.other = sp.other /\ q.offset = sp.offset
         /\ q.target = sp.target /\ q.source = sp.source /\ q.result = sp.result
<1>1. PICK ki, vo, ot, of, un, jo, me, ga, ta, so, em, re, rs, yes, none :
        /\ yes = TRUE /\ none = {} /\ ki = sp.kind /\ vo = sp.vod /\ ot = sp.other /\ of = sp.offset /\ un = sp.undone /\ jo = sp.join
        /\ me = sp.members /\ ga = sp.games /\ ta = sp.target /\ so = sp.source /\ em = sp.emotes
        /\ re = sp.repointed /\ rs = sp.result
  OBVIOUS
<1>2. sp = [kind |-> ki, vod |-> vo, other |-> ot, offset |-> of, undone |-> un, join |-> jo, members |-> me,
            games |-> ga, target |-> ta, source |-> so, emotes |-> em, repointed |-> re, result |-> rs]
  BY <1>1 DEF IsSplice
<1> DEFINE p == [sp EXCEPT !.undone = yes]
<1>3. p = [kind |-> ki, vod |-> vo, other |-> ot, offset |-> of, undone |-> yes, join |-> jo, members |-> me,
           games |-> ga, target |-> ta, source |-> so, emotes |-> em, repointed |-> re, result |-> rs]
  BY <1>2
<1> HIDE DEF p
<1>4. [p EXCEPT !.members = none]
        = [kind |-> ki, vod |-> vo, other |-> ot, offset |-> of, undone |-> yes, join |-> jo, members |-> none,
           games |-> ga, target |-> ta, source |-> so, emotes |-> em, repointed |-> re, result |-> rs]
  BY <1>3
<1>5. Undone(sp) = [kind |-> ki, vod |-> vo, other |-> ot, offset |-> of, undone |-> yes, join |-> jo, members |-> none,
                    games |-> ga, target |-> ta, source |-> so, emotes |-> em, repointed |-> re, result |-> rs]
  BY <1>1, <1>4, Zenon DEF p, Undone
<1>6. /\ q.undone = yes /\ q.kind = ki /\ q.vod = vo /\ q.other = ot /\ q.offset = of
      /\ q.target = ta /\ q.source = so /\ q.result = rs
      /\ q = [kind |-> q.kind, vod |-> q.vod, other |-> q.other, offset |-> q.offset, undone |-> q.undone,
              join |-> q.join, members |-> q.members, games |-> q.games, target |-> q.target, source |-> q.source,
              emotes |-> q.emotes, repointed |-> q.repointed, result |-> q.result]
  BY <1>5
<1>7. q.kind = sp.kind /\ q.vod = sp.vod /\ q.other = sp.other /\ q.offset = sp.offset
      /\ q.target = sp.target /\ q.source = sp.source /\ q.result = sp.result
  BY <1>1, <1>6
<1>8. /\ sp.kind \in {"merge", "split"} /\ sp.vod # sp.other /\ sp.vod \in Seq(Int) /\ sp.other \in Seq(Int)
      /\ sp.offset \in Nat /\ (sp.kind = "split" => sp.offset > 0)
      /\ IsFields(sp.target) /\ IsFields(sp.source)
      /\ sp.result[sp.vod][1] = sp.target.title
      /\ sp.kind = "merge" => sp.result[sp.other][1] = sp.source.title
  BY DEF IsSplice
<1>9. q.undone = TRUE
  BY <1>1, <1>6
<1>10. IsSplice(q)
  BY <1>6, <1>7, <1>8, <1>9 DEF IsSplice
<1>11. QED BY <1>7, <1>9, <1>10

\* An undo writes back what the splice recorded.
UndoWrites(c, k, sp, force) ==
  /\ k \in 1..Len(splices) /\ IsSplice(sp) /\ Touched(k) = {sp.vod, sp.other} /\ Touched(k) \subseteq Ids
  /\ ~Blocked(k) /\ Holds(c) = {sp.vod, sp.other} /\ call[c] # NoCall /\ call[c].op = "undo" /\ call[c].pc = "locked"
  /\ force \/ \A v \in Touched(k) : vods[v].title = sp.result[v][1]
  /\ call' = [call EXCEPT ![c] = NoCall] /\ Unheld(Callers \ {c}, DOMAIN sp.repointed)
  /\ AreSplices(splices') /\ Len(splices') = Len(splices)
  /\ \A j \in 1..Len(splices) : j # k => splices'[j] = splices[j]
  /\ splices'[k].undone /\ splices'[k].vod = sp.vod /\ splices'[k].other = sp.other
  /\ splices'[k].result = sp.result /\ splices'[k].kind = sp.kind
  /\ Ids' = IF sp.kind = "merge" THEN Ids ELSE Ids \ {sp.other}
  /\ vods' = [v \in Ids' |-> vods'[v]]
  /\ \A v \in Ids' :
       /\ IsRow(vods'[v])
       /\ v = sp.vod => vods'[v].title = sp.target.title /\ vods'[v].side = sp.target.side
       /\ v = sp.other => vods'[v].title = sp.source.title /\ vods'[v].side = sp.source.side
       /\ v \notin {sp.vod, sp.other} => vods'[v].title = vods[v].title /\ vods'[v].side = vods[v].side
       /\ v = sp.vod /\ sp.kind = "merge" => vods'[v].emotes = sp.emotes
       /\ v # sp.vod \/ sp.kind = "split" => vods'[v].emotes = vods[v].emotes
       /\ v \in DOMAIN sp.repointed => vods'[v].merged = sp.repointed[v]
       /\ v \notin DOMAIN sp.repointed => vods'[v].merged = IF v = sp.other THEN NoVod ELSE vods[v].merged
  /\ chat' = IF sp.kind = "merge" THEN MovedChat(sp.other, -sp.offset, sp.members)
             ELSE MovedChat(sp.vod, sp.offset, CommentsOf(sp.other))
  /\ games' = IF sp.kind = "merge" THEN MovedGames(sp.other, -sp.offset, sp.games)
              ELSE MovedGames(sp.vod, sp.offset, GamesOf(sp.other))

LEMMA UndoDoes ==
  ASSUME LockInv, NEW c \in Callers, UndoCommits(c), NEW k, NEW sp, NEW force,
         k = call[c].splice, sp = splices[k], force = call[c].force
  PROVE  UndoWrites(c, k, sp, force)
<1> DEFINE undone == IF sp.kind = "merge" THEN Unmerged(sp) ELSE Unsplit(sp)
           rows   == undone.vods
           back   == Unpointed(rows, sp.repointed)
<1>1. /\ call[c] # NoCall /\ call[c].op = "undo" /\ call[c].pc = "locked"
      /\ Unheld(Callers \ {c}, DOMAIN sp.repointed) /\ call' = [call EXCEPT ![c] = NoCall]
      /\ vods' = [back EXCEPT ![sp.vod] = Restored(back[sp.vod], sp.target)]
      /\ splices' = [splices EXCEPT ![k] = Undone(sp)]
      /\ chat' = undone.chat /\ games' = undone.games
  BY Zenon DEF UndoCommits, Undone
<1>2. UndoOK(call[c])
  BY <1>1 DEF LockInv, CallOK
<1>3. k \in 1..Len(splices) /\ IsSplice(sp) /\ Touched(k) = {sp.vod, sp.other} /\ Len(splices) \in Nat
  BY <1>2, SplicesFacts DEF UndoOK, Ends
<1>4. /\ Touched(k) \subseteq Ids /\ ~Blocked(k) /\ Holds(c) = {sp.vod, sp.other}
      /\ force \/ \A v \in Touched(k) : vods[v].title = sp.result[v][1]
  BY <1>1, <1>2, <1>3, HoldsIs DEF UndoOK
<1>5. sp.vod # sp.other /\ sp.kind \in {"merge", "split"} /\ IsFields(sp.target) /\ IsFields(sp.source)
  BY <1>3 DEF IsSplice
<1>6. \A v \in Ids : IsRow(vods[v])
  BY DEF LockInv, RowsOK
<1>7. /\ AreSplices(splices') /\ Len(splices') = Len(splices)
      /\ \A j \in 1..Len(splices) : j # k => splices'[j] = splices[j]
      /\ splices'[k] = Undone(sp)
  <2>1. AreSplices(splices) /\ k \in 1..Len(splices) /\ IsReplaced(splices', splices, k, Undone(sp))
    BY <1>1, <1>3, SplicesFacts DEF IsReplaced
  <2>2. (\E S : splices' \in Seq(S)) /\ Len(splices') = Len(splices)
    BY <2>1, SplicesReplaced
  <2>3. splices'[k] = Undone(sp) /\ \A j \in 1..Len(splices) : j # k => splices'[j] = splices[j]
    BY <2>1, SplicesReplaced
  <2>4. IsSplice(splices'[k])
    BY <1>3, <2>3, UndoneIs
  <2>5. \A j \in 1..Len(splices) : IsSplice(splices'[j])
    BY <2>3, <2>4, SplicesFacts
  <2>6. QED BY <2>2, <2>3, <2>5 DEF AreSplices
<1>8. /\ splices'[k].undone /\ splices'[k].vod = sp.vod /\ splices'[k].other = sp.other
      /\ splices'[k].result = sp.result /\ splices'[k].kind = sp.kind
  BY <1>3, <1>7, UndoneIs
<1> HIDE DEF undone
<1>9. /\ rows = [v \in DOMAIN rows |-> rows[v]]
      /\ DOMAIN rows = IF sp.kind = "merge" THEN Ids ELSE Ids \ {sp.other}
      /\ \A v \in DOMAIN rows :
           /\ IsRow(rows[v])
           /\ v = sp.other => rows[v].title = sp.source.title /\ rows[v].side = sp.source.side /\ rows[v].merged = NoVod
           /\ v # sp.other => rows[v].title = vods[v].title /\ rows[v].side = vods[v].side /\ rows[v].merged = vods[v].merged
           /\ v = sp.vod /\ sp.kind = "merge" => rows[v].emotes = sp.emotes
           /\ v # sp.vod \/ sp.kind = "split" => rows[v].emotes = vods[v].emotes
  <2>1. CASE sp.kind = "split"
    <3>1. rows = [v \in Ids \ {sp.other} |-> vods[v]]
      BY <2>1 DEF undone, Unsplit
    <3>2. QED BY <1>5, <1>6, <2>1, <3>1
  <2>2. CASE sp.kind = "merge"
    <3>1. PICK e, l, ti, s : e = sp.emotes /\ l = sp.source.locked /\ ti = sp.source.title /\ s = sp.source.side
      OBVIOUS
    <3> DEFINE rowA == WithEmotes(vods[sp.vod], e)
               rowB == RestoredRow(vods[sp.other], ti, s, l)
               rowC == Pointed(rowB, NoVod)
    <3>2. rows = [vods EXCEPT ![sp.vod] = rowA, ![sp.other] = rowC]
      <4>1. rows = Unmerged(sp).vods
        BY <2>2 DEF undone
      <4>2. Unmerged(sp).vods = [vods EXCEPT ![sp.vod] = [vods[sp.vod] EXCEPT !.emotes = sp.emotes],
                                             ![sp.other] = [Restored(vods[sp.other], sp.source) EXCEPT !.merged = NoVod]]
        BY DEF Unmerged
      <4>3. rowA = [vods[sp.vod] EXCEPT !.emotes = sp.emotes]
        BY <3>1, Zenon DEF WithEmotes
      <4>4. rowC = [Restored(vods[sp.other], sp.source) EXCEPT !.merged = NoVod]
        BY <3>1, Zenon DEF RestoredRow, Restored, Pointed
      <4> HIDE DEF rowA, rowC
      <4>5. QED BY <4>1, <4>2, <4>3, <4>4, Zenon
    <3>3. IsRow(vods[sp.vod]) /\ IsRow(vods[sp.other]) /\ IsSide(s)
      BY <1>3, <1>4, <1>5, <1>6, <3>1 DEF IsFields
    <3> HIDE DEF rowA, rowB, rowC
    <3>4. IsRow(rowA) /\ rowA.title = vods[sp.vod].title /\ rowA.side = vods[sp.vod].side
          /\ rowA.emotes = e /\ rowA.merged = vods[sp.vod].merged
      <4>1. PICK r, q : r = vods[sp.vod] /\ q = rowA
        OBVIOUS
      <4>2. IsRow(r) /\ q = WithEmotes(r, e)
        BY <3>3, <4>1 DEF rowA
      <4>3. IsRow(q) /\ q.title = r.title /\ q.side = r.side /\ q.emotes = e /\ q.merged = r.merged
        BY <4>2, WithEmotesIs
      <4>4. QED BY <4>1, <4>3
    <3>5. IsRow(rowB) /\ rowB.title = ti /\ rowB.side = s /\ rowB.emotes = vods[sp.other].emotes
      <4>1. PICK r, q : r = vods[sp.other] /\ q = rowB
        OBVIOUS
      <4>2. IsRow(r) /\ IsSide(s) /\ q = RestoredRow(r, ti, s, l)
        BY <3>3, <4>1 DEF rowB
      <4>3. IsRow(q) /\ q.title = ti /\ q.side = s /\ q.emotes = r.emotes
        BY <4>2, RestoredRowIs
      <4>4. QED BY <4>1, <4>3
    <3>6. IsRow(rowC) /\ rowC.title = ti /\ rowC.side = s /\ rowC.emotes = vods[sp.other].emotes /\ rowC.merged = NoVod
      BY <3>5, PointedIs DEF rowC
    <3>7. vods = [v \in Ids |-> vods[v]]
      BY DEF LockInv, RowsOK
    <3>8. /\ rows = [v \in Ids |-> rows[v]] /\ rows[sp.vod] = rowA /\ rows[sp.other] = rowC
          /\ \A v \in Ids \ {sp.vod, sp.other} : rows[v] = vods[v]
      BY <1>3, <1>4, <1>5, <3>2, <3>7
    <3> HIDE DEF rows
    <3>9. \A v \in Ids :
            /\ IsRow(rows[v])
            /\ v = sp.other => rows[v].title = ti /\ rows[v].side = s /\ rows[v].merged = NoVod
            /\ v # sp.other => rows[v].title = vods[v].title /\ rows[v].side = vods[v].side /\ rows[v].merged = vods[v].merged
            /\ v = sp.vod => rows[v].emotes = e
            /\ v # sp.vod => rows[v].emotes = vods[v].emotes
      BY <1>5, <1>6, <3>4, <3>6, <3>8
    <3>10. QED BY <2>2, <3>1, <3>8, <3>9
  <2>3. QED BY <1>5, <2>1, <2>2
<1> HIDE DEF rows
<1>10. /\ DOMAIN back = DOMAIN rows /\ back = [v \in DOMAIN rows |-> back[v]]
       /\ \A v \in DOMAIN rows : back[v] = IF v \in DOMAIN sp.repointed THEN Pointed(rows[v], sp.repointed[v]) ELSE rows[v]
  BY DEF Unpointed, Pointed
<1> HIDE DEF back
<1>11. ASSUME NEW v \in DOMAIN rows
       PROVE  /\ IsRow(back[v]) /\ back[v].title = rows[v].title /\ back[v].side = rows[v].side
              /\ back[v].emotes = rows[v].emotes
              /\ back[v].merged = IF v \in DOMAIN sp.repointed THEN sp.repointed[v] ELSE rows[v].merged
  <2>1. CASE v \in DOMAIN sp.repointed
    <3>1. PICK q, x : q = back[v] /\ x = sp.repointed[v]
      OBVIOUS
    <3>2. IsRow(rows[v]) /\ q = Pointed(rows[v], x)
      BY <1>9, <1>10, <2>1, <3>1
    <3>3. IsRow(q) /\ q.title = rows[v].title /\ q.side = rows[v].side /\ q.emotes = rows[v].emotes /\ q.merged = x
      BY <3>2, PointedIs
    <3>4. QED BY <2>1, <3>1, <3>3
  <2>2. CASE v \notin DOMAIN sp.repointed
    BY <1>9, <1>10, <2>2
  <2>3. QED BY <2>1, <2>2
<1>12. PICK ti, s, l : ti = sp.target.title /\ s = sp.target.side /\ l = sp.target.locked
  OBVIOUS
<1> DEFINE rowA == RestoredRow(back[sp.vod], ti, s, l)
<1>13. rowA = Restored(back[sp.vod], sp.target)
  BY <1>12, Zenon DEF RestoredRow, Restored
<1>14. sp.vod \in DOMAIN rows /\ IsSide(s)
  BY <1>3, <1>4, <1>5, <1>9, <1>12 DEF IsFields
<1> HIDE DEF rowA
<1>15. /\ IsRow(rowA) /\ rowA.title = ti /\ rowA.side = s /\ rowA.emotes = rows[sp.vod].emotes
       /\ rowA.merged = IF sp.vod \in DOMAIN sp.repointed THEN sp.repointed[sp.vod] ELSE rows[sp.vod].merged
  <2>1. rowA = RestoredRow(back[sp.vod], ti, s, l) /\ IsRow(back[sp.vod])
    BY <1>11, <1>14 DEF rowA
  <2>2. IsRow(rowA) /\ rowA.title = ti /\ rowA.side = s /\ rowA.emotes = back[sp.vod].emotes /\ rowA.merged = back[sp.vod].merged
    <3>1. PICK r, q : r = back[sp.vod] /\ q = rowA
      OBVIOUS
    <3>2. IsRow(r) /\ IsSide(s) /\ q = RestoredRow(r, ti, s, l)
      BY <1>14, <2>1, <3>1
    <3>3. IsRow(q) /\ q.title = ti /\ q.side = s /\ q.emotes = r.emotes /\ q.merged = r.merged
      BY <3>2, RestoredRowIs
    <3>4. QED BY <3>1, <3>3
  <2>3. QED BY <1>11, <1>14, <2>2
<1>16. vods' = [back EXCEPT ![sp.vod] = rowA]
  BY <1>1, <1>13, Zenon
<1>17. /\ vods' = [v \in DOMAIN rows |-> vods'[v]] /\ Ids' = DOMAIN rows
       /\ vods'[sp.vod] = rowA /\ \A v \in DOMAIN rows \ {sp.vod} : vods'[v] = back[v]
  BY <1>10, <1>14, <1>16 DEF Ids
<1>18. ASSUME NEW v \in Ids'
       PROVE  /\ IsRow(vods'[v])
              /\ v = sp.vod => vods'[v].title = sp.target.title /\ vods'[v].side = sp.target.side
              /\ v = sp.other => vods'[v].title = sp.source.title /\ vods'[v].side = sp.source.side
              /\ v \notin {sp.vod, sp.other} => vods'[v].title = vods[v].title /\ vods'[v].side = vods[v].side
              /\ v = sp.vod /\ sp.kind = "merge" => vods'[v].emotes = sp.emotes
              /\ v # sp.vod \/ sp.kind = "split" => vods'[v].emotes = vods[v].emotes
              /\ v \in DOMAIN sp.repointed => vods'[v].merged = sp.repointed[v]
              /\ v \notin DOMAIN sp.repointed => vods'[v].merged = IF v = sp.other THEN NoVod ELSE vods[v].merged
  <2>1. CASE v = sp.vod
    BY <1>5, <1>9, <1>12, <1>15, <1>17, <2>1
  <2>2. CASE v # sp.vod
    <3>1. vods'[v] = back[v] /\ v \in DOMAIN rows
      BY <1>17, <2>2
    <3>2. IsRow(vods'[v]) /\ vods'[v].title = rows[v].title /\ vods'[v].side = rows[v].side /\ vods'[v].emotes = rows[v].emotes
      BY <1>11, <3>1
    <3>3. vods'[v].merged = IF v \in DOMAIN sp.repointed THEN sp.repointed[v] ELSE rows[v].merged
      BY <1>11, <3>1
    <3>4. /\ v = sp.other => rows[v].title = sp.source.title /\ rows[v].side = sp.source.side /\ rows[v].merged = NoVod
          /\ v # sp.other => rows[v].title = vods[v].title /\ rows[v].side = vods[v].side /\ rows[v].merged = vods[v].merged
          /\ rows[v].emotes = vods[v].emotes
      BY <1>9, <2>2, <3>1
    <3>5. QED BY <2>2, <3>2, <3>3, <3>4
  <2>3. QED BY <2>1, <2>2
<1>19. /\ chat' = IF sp.kind = "merge" THEN MovedChat(sp.other, -sp.offset, sp.members)
                  ELSE MovedChat(sp.vod, sp.offset, CommentsOf(sp.other))
       /\ games' = IF sp.kind = "merge" THEN MovedGames(sp.other, -sp.offset, sp.games)
                   ELSE MovedGames(sp.vod, sp.offset, GamesOf(sp.other))
  BY <1>1 DEF undone, Unmerged, Unsplit
<1>20. Ids' = (IF sp.kind = "merge" THEN Ids ELSE Ids \ {sp.other}) /\ vods' = [v \in Ids' |-> vods'[v]]
  BY <1>9, <1>17
<1>21. QED BY <1>1, <1>3, <1>4, <1>7, <1>8, <1>18, <1>19, <1>20 DEF UndoWrites

----------------------------------------------------------------------------
(* Commits keep the locks.                                                  *)

LEMMA HeldAreThere ==
  ASSUME LockInv, NEW d \in Callers
  PROVE  Holds(d) \subseteq Ids
<1>1. CASE call[d] # NoCall /\ call[d].pc = "locked"
  <2>1. CallOK(call[d]) /\ Holds(d) = call[d].ids
    BY <1>1, HoldsIs DEF LockInv
  <2>2. QED BY <1>1, <2>1 DEF CallOK, MergeOK, SplitOK, UndoOK
<1>2. CASE ~(call[d] # NoCall /\ call[d].pc = "locked")
  BY <1>2 DEF Holds
<1>3. QED BY <1>1, <1>2

\* A commit that records a splice.
Records(sp) == splices' = Append(splices, sp)

LEMMA RecordKeeps ==
  ASSUME LockInv, NEW c \in Callers, call' = [call EXCEPT ![c] = NoCall],
         vods' = [v \in Ids' |-> vods'[v]], Ids' \subseteq Seq(Int), IsFiniteSet(Ids'), \A v \in Ids' : IsRow(vods'[v]),
         NEW sp, IsSplice(sp), ~sp.undone, Records(sp),
         \A d \in Callers \ {c} : /\ Ends(sp) \cap Holds(d) = {}
                                  /\ \A v \in Holds(d) : /\ v \in Ids' /\ vods'[v].title = vods[v].title
                                                         /\ vods'[v].side.duration = vods[v].side.duration
                                                         /\ vods'[v].merged = vods[v].merged
  PROVE  LockInv'
<1>1. /\ AreSplices(splices) /\ Len(splices) \in Nat /\ DOMAIN splices = 1..Len(splices)
      /\ \A k \in 1..Len(splices) : IsSplice(splices[k])
      /\ Active = Live(splices)
  BY SplicesFacts
<1>2. PICK t : t = splices'
  OBVIOUS
<1>3. /\ AreSplices(t) /\ Len(t) = Len(splices) + 1
      /\ t[Len(splices) + 1] = sp /\ \A k \in 1..Len(splices) : t[k] = splices[k]
      /\ Live(t) = Live(splices) \cup {Len(t)}
  <2>1. IsAppend(t, splices, sp)
    BY <1>2 DEF Records, IsAppend
  <2>2. QED BY <1>1, <2>1, AppendedSplices
<1>4. DOMAIN t = 1..Len(t) /\ Len(t) \in Nat
  BY <1>3, AreSplicesFacts
<1>5. Active' = Active \cup {Len(t)}
  <2>1. Active' = {k \in DOMAIN t : ~t[k].undone}
    BY <1>2 DEF Active
  <2>2. QED BY <1>1, <1>3, <1>4, <2>1 DEF Live
<1>6. RowsOK'
  BY <1>2, <1>3 DEF RowsOK
<1>7. call' = [d \in Callers |-> call'[d]] /\ \A d \in Callers : call'[d] = call[d] \/ call'[d] = NoCall
  BY DEF LockInv
<1>8. DOMAIN splices \subseteq DOMAIN splices'
  BY <1>1, <1>2, <1>3, <1>4
<1>9. \A k \in DOMAIN splices : /\ splices'[k].vod = splices[k].vod /\ splices'[k].other = splices[k].other
                                /\ splices'[k].result = splices[k].result
  BY <1>1, <1>2, <1>3
<1>10. ASSUME NEW d \in Callers, call'[d] # NoCall
       PROVE  /\ \A v \in Holds(d) \cap Ids : /\ v \in Ids' /\ vods'[v].title = vods[v].title
                                              /\ vods'[v].side.duration = vods[v].side.duration
                                              /\ vods'[v].merged = vods[v].merged
              /\ \A m \in Active' : m \in Active \/ Touched(m)' \cap Holds(d) = {}
  <2>1. d # c
    BY <1>10 DEF LockInv
  <2>2. Touched(Len(t))' = Ends(sp)
    BY <1>2, <1>3 DEF Touched, Ends
  <2>3. QED BY <1>5, <2>1, <2>2
<1>11. QED BY <1>6, <1>7, <1>8, <1>9, <1>10, WriteKeeps

LEMMA MergeCommitsLocks ==
  ASSUME LockInv, NEW c \in Callers, MergeCommits(c)
  PROVE  LockInv'
<1>1. PICK a, b, offset : a = call[c].a /\ b = call[c].b /\ offset = call[c].offset
  OBVIOUS
<1>2. MergeWrites(c, a, b, offset)
  BY <1>1, MergeDoes
<1>3. /\ a \in Ids /\ b \in Ids /\ Ids' = Ids /\ Holds(c) = {a, b}
      /\ call' = [call EXCEPT ![c] = NoCall] /\ Unheld(Callers \ {c}, Pointing(b, 0))
      /\ vods' = [v \in Ids |-> vods'[v]]
  BY <1>2 DEF MergeWrites
<1>4. \A v \in Ids : /\ IsRow(vods'[v]) /\ vods'[v].title = vods[v].title
                     /\ v \notin {a, b} => vods'[v].side = vods[v].side
                     /\ v # b /\ v \notin Pointing(b, 0) => vods'[v].merged = vods[v].merged
  BY <1>2 DEF MergeWrites
<1>5. \E s : IsSplice(s) /\ ~s.undone /\ s.vod = a /\ s.other = b /\ splices' = Append(splices, s)
  <2>1. \E s : /\ IsSplice(s) /\ ~s.undone /\ s.kind = "merge" /\ s.vod = a /\ s.other = b /\ s.offset = offset
               /\ s.members = CommentsOf(b) /\ s.games = GamesOf(b)
               /\ s.target = Fields(vods[a]) /\ s.source = Fields(vods[b]) /\ s.emotes = vods[a].emotes
               /\ s.repointed = OldPoints(Pointing(b, 0))
               /\ \A v \in {a, b} : s.result[v] = Editable(vods'[v])
               /\ splices' = Append(splices, s)
    BY <1>2 DEF MergeWrites
  <2>2. QED BY <2>1
<1>6. PICK sp : IsSplice(sp) /\ ~sp.undone /\ sp.vod = a /\ sp.other = b /\ splices' = Append(splices, sp)
  BY <1>5
<1>7. ASSUME NEW d \in Callers \ {c}
      PROVE  /\ Ends(sp) \cap Holds(d) = {}
             /\ \A v \in Holds(d) : /\ v \in Ids' /\ vods'[v].title = vods[v].title
                                    /\ vods'[v].side.duration = vods[v].side.duration
                                    /\ vods'[v].merged = vods[v].merged
  <2>1. Holds(d) \cap {a, b} = {} /\ Holds(d) \cap Pointing(b, 0) = {} /\ Holds(d) \subseteq Ids
    BY <1>3, HeldAreThere DEF LockInv, Exclusive, Unheld
  <2>2. QED BY <1>3, <1>4, <1>6, <2>1 DEF Ends
<1>8. Ids' \subseteq Seq(Int) /\ IsFiniteSet(Ids') /\ vods' = [v \in Ids' |-> vods'[v]] /\ \A v \in Ids' : IsRow(vods'[v])
  BY <1>3, <1>4 DEF LockInv, RowsOK
<1>9. QED BY <1>3, <1>6, <1>7, <1>8, RecordKeeps DEF Records

LEMMA SplitCommitsLocks ==
  ASSUME LockInv, NEW c \in Callers, SplitCommits(c)
  PROVE  LockInv'
<1>1. PICK a, at, new : a = call[c].a /\ at = call[c].at /\ new = FreeId(a)
  OBVIOUS
<1>2. SplitWrites(c, a, at, new)
  BY <1>1, SplitDoes
<1>3. /\ a \in Ids /\ new \notin Ids /\ new \in Seq(Int) /\ Ids' = Ids \cup {new} /\ Holds(c) = {a}
      /\ call' = [call EXCEPT ![c] = NoCall] /\ Unheld(Callers \ {c}, Pointing(a, at))
      /\ vods' = [v \in Ids' |-> vods'[v]] /\ IsRow(vods'[new])
  BY <1>2 DEF SplitWrites
<1>4. \A v \in Ids : /\ IsRow(vods'[v]) /\ vods'[v].title = vods[v].title
                     /\ v # a => vods'[v].side = vods[v].side
                     /\ v \notin Pointing(a, at) => vods'[v].merged = vods[v].merged
  BY <1>2 DEF SplitWrites
<1>5. \E s : IsSplice(s) /\ ~s.undone /\ s.vod = a /\ s.other = new /\ splices' = Append(splices, s)
  <2>1. \E s : /\ IsSplice(s) /\ ~s.undone /\ s.kind = "split" /\ s.vod = a /\ s.other = new /\ s.offset = at
               /\ s.target = Fields(vods[a]) /\ s.repointed = OldPoints(Pointing(a, at))
               /\ \A v \in {a, new} : s.result[v] = Editable(vods'[v])
               /\ splices' = Append(splices, s)
    BY <1>2 DEF SplitWrites
  <2>2. QED BY <2>1
<1>6. PICK sp : IsSplice(sp) /\ ~sp.undone /\ sp.vod = a /\ sp.other = new /\ splices' = Append(splices, sp)
  BY <1>5
<1>7. ASSUME NEW d \in Callers \ {c}
      PROVE  /\ Ends(sp) \cap Holds(d) = {}
             /\ \A v \in Holds(d) : /\ v \in Ids' /\ vods'[v].title = vods[v].title
                                    /\ vods'[v].side.duration = vods[v].side.duration
                                    /\ vods'[v].merged = vods[v].merged
  <2>1. Holds(d) \cap {a} = {} /\ Holds(d) \cap Pointing(a, at) = {} /\ Holds(d) \subseteq Ids
    BY <1>3, HeldAreThere DEF LockInv, Exclusive, Unheld
  <2>2. QED BY <1>3, <1>4, <1>6, <2>1 DEF Ends
<1>8. Ids' \subseteq Seq(Int) /\ IsFiniteSet(Ids') /\ \A v \in Ids' : IsRow(vods'[v])
  <2>1. Ids \subseteq Seq(Int) /\ IsFiniteSet(Ids)
    BY DEF LockInv, RowsOK
  <2>2. IsFiniteSet(Ids \cup {new})
    BY <2>1, FS_AddElement
  <2>3. QED BY <1>3, <1>4, <2>1, <2>2
<1>9. vods' = [v \in Ids' |-> vods'[v]] /\ call' = [call EXCEPT ![c] = NoCall]
  BY <1>3
<1>10. QED BY <1>6, <1>7, <1>8, <1>9, RecordKeeps DEF Records

LEMMA UndoCommitsLocks ==
  ASSUME LockInv, NEW c \in Callers, UndoCommits(c)
  PROVE  LockInv'
<1>1. PICK k, sp, force : k = call[c].splice /\ sp = splices[k] /\ force = call[c].force
  OBVIOUS
<1>2. UndoWrites(c, k, sp, force)
  BY <1>1, UndoDoes
<1>3. /\ k \in 1..Len(splices) /\ Holds(c) = {sp.vod, sp.other}
      /\ call' = [call EXCEPT ![c] = NoCall] /\ Unheld(Callers \ {c}, DOMAIN sp.repointed)
      /\ AreSplices(splices') /\ Len(splices') = Len(splices)
      /\ \A j \in 1..Len(splices) : j # k => splices'[j] = splices[j]
      /\ splices'[k].undone /\ splices'[k].vod = sp.vod /\ splices'[k].other = sp.other
      /\ splices'[k].result = sp.result
      /\ Ids' = (IF sp.kind = "merge" THEN Ids ELSE Ids \ {sp.other})
      /\ vods' = [v \in Ids' |-> vods'[v]]
  BY <1>2 DEF UndoWrites
<1>4. \A v \in Ids' :
        /\ IsRow(vods'[v])
        /\ v \notin {sp.vod, sp.other} => vods'[v].title = vods[v].title /\ vods'[v].side = vods[v].side
        /\ v \notin DOMAIN sp.repointed => vods'[v].merged = IF v = sp.other THEN NoVod ELSE vods[v].merged
  BY <1>2 DEF UndoWrites
<1>5. /\ Len(splices) \in Nat /\ DOMAIN splices = 1..Len(splices) /\ DOMAIN splices' = 1..Len(splices)
      /\ Active' \subseteq Active
  <2>1. Len(splices) \in Nat /\ DOMAIN splices = 1..Len(splices) /\ DOMAIN splices' = 1..Len(splices)
    BY <1>3, SplicesFacts, AreSplicesFacts
  <2>2. QED BY <1>3, <2>1 DEF Active
<1>6. RowsOK'
  <2>1. Ids \subseteq Seq(Int) /\ IsFiniteSet(Ids)
    BY DEF LockInv, RowsOK
  <2>2. IsFiniteSet(Ids \ {sp.other})
    BY <2>1, FS_RemoveElement
  <2>3. Ids' \subseteq Seq(Int) /\ IsFiniteSet(Ids')
    BY <1>3, <2>1, <2>2
  <2>4. QED BY <1>3, <1>4, <2>3 DEF RowsOK
<1>7. call' = [d \in Callers |-> call'[d]] /\ \A d \in Callers : call'[d] = call[d] \/ call'[d] = NoCall
  BY <1>3 DEF LockInv
<1>8. DOMAIN splices \subseteq DOMAIN splices'
  BY <1>5
<1>9. \A j \in DOMAIN splices : /\ splices'[j].vod = splices[j].vod /\ splices'[j].other = splices[j].other
                                /\ splices'[j].result = splices[j].result
  BY <1>1, <1>3, <1>5
<1>10. ASSUME NEW d \in Callers, call'[d] # NoCall
      PROVE  /\ \A v \in Holds(d) \cap Ids : /\ v \in Ids' /\ vods'[v].title = vods[v].title
                                             /\ vods'[v].side.duration = vods[v].side.duration
                                             /\ vods'[v].merged = vods[v].merged
             /\ \A m \in Active' : m \in Active \/ Touched(m)' \cap Holds(d) = {}
  <2>1. d # c
    BY <1>3, <1>10 DEF LockInv
  <2>2. Holds(d) \cap {sp.vod, sp.other} = {} /\ Holds(d) \cap DOMAIN sp.repointed = {}
    BY <1>3, <2>1 DEF LockInv, Exclusive, Unheld
  <2>3. QED BY <1>3, <1>4, <1>5, <2>2
<1>11. QED BY <1>6, <1>7, <1>8, <1>9, <1>10, WriteKeeps

\* Steps of edits and jobs, which write one row that nobody has locked.
LEMMA RowWriteLocks ==
  ASSUME LockInv, NEW w, Unlocked({w}), UNCHANGED <<call, splices>>, Ids' = Ids, vods' = [v \in Ids |-> vods'[v]],
         \A v \in Ids : IsRow(vods'[v]) /\ (v # w => vods'[v] = vods[v])
  PROVE  LockInv'
<1>1. RowsOK'
  BY DEF LockInv, RowsOK
<1>2. call' = [d \in Callers |-> call'[d]] /\ DOMAIN splices \subseteq DOMAIN splices' /\ Active' = Active
  BY DEF LockInv, Active
<1>3. ASSUME NEW d \in Callers, NEW v \in Holds(d) \cap Ids
      PROVE  /\ v \in Ids' /\ vods'[v].title = vods[v].title
             /\ vods'[v].side.duration = vods[v].side.duration /\ vods'[v].merged = vods[v].merged
  BY DEF Unlocked, Unheld
<1>4. /\ \A d \in Callers : call'[d] = call[d]
      /\ \A k \in DOMAIN splices : /\ splices'[k].vod = splices[k].vod /\ splices'[k].other = splices[k].other
                                   /\ splices'[k].result = splices[k].result
  OBVIOUS
<1>5. QED BY <1>1, <1>2, <1>3, <1>4, WriteKeeps

----------------------------------------------------------------------------
(* The locks, in every reachable state.                                     *)

LEMMA FirstsFinite ==
  ASSUME SplicesAssumption
  PROVE  IsFiniteSet(Firsts) /\ Firsts \subseteq Seq(Int)
<1>1. IsFiniteSet(Originals) /\ Originals \subseteq Nat
  BY DEF SplicesAssumption
<1> DEFINE f == [v \in Originals |-> <<v>>]
<1>2. f \in Surjection(Originals, Firsts)
  BY DEF Surjection, Firsts
<1> HIDE DEF f
<1>3. IsFiniteSet(Firsts)
  <2>1. PICK S : S = Originals
    OBVIOUS
  <2>2. IsFiniteSet(S) /\ f \in Surjection(S, Firsts)
    BY <1>1, <1>2, <2>1
  <2>3. QED BY <2>2, FS_Surjection
<1>4. ASSUME NEW v \in Originals PROVE <<v>> \in Seq(Int)
  BY <1>1
<1>5. QED BY <1>3, <1>4 DEF Firsts

LEMMA InitRows ==
  ASSUME SplicesAssumption, Init
  PROVE  /\ Ids = Firsts /\ vods = [i \in Firsts |-> vods[i]]
         /\ \A v \in Originals : vods[<<v>>] = Row(v) /\ IsRow(vods[<<v>>])
<1>1. vods = [i \in Firsts |-> Row(i[1])]
  BY DEF Init, Firsts
<1>2. Ids = Firsts /\ vods = [i \in Firsts |-> vods[i]] /\ \A i \in Firsts : vods[i] = Row(i[1])
  <2> HIDE DEF Row
  <2>1. QED BY <1>1 DEF Ids
<1>3. ASSUME NEW v \in Originals PROVE IsRow(Row(v)) /\ <<v>> \in Firsts /\ <<v>>[1] = v
  <2>1. Start[v] \in Int /\ IsSide(SideOf[v])
    BY DEF SplicesAssumption, IsSide
  <2>2. IsRow(Row(v))
    BY <2>1 DEF Row, IsRow
  <2>3. QED BY <2>2 DEF Firsts
<1>4. QED BY <1>2, <1>3

LEMMA InitLocks ==
  ASSUME SplicesAssumption, Init
  PROVE  LockInv
<1>1. Ids = Firsts /\ vods = [i \in Firsts |-> vods[i]] /\ \A v \in Originals : IsRow(vods[<<v>>])
  BY InitRows
<1>2. \A v \in Ids : IsRow(vods[v])
  BY <1>1 DEF Firsts
<1>3. AreSplices(splices)
  <2>1. splices = <<>>
    BY DEF Init
  <2>2. splices \in Seq({}) /\ Len(splices) = 0
    BY <2>1
  <2>3. QED BY <2>2 DEF AreSplices
<1>4. RowsOK
  BY <1>1, <1>2, <1>3, FirstsFinite DEF RowsOK
<1>5. call = [c \in Callers |-> NoCall]
  BY DEF Init
<1>6. Exclusive
  BY <1>5 DEF Exclusive, Holds
<1>7. call = [c \in Callers |-> call[c]] /\ \A c \in Callers : call[c] = NoCall
  BY <1>5
<1>8. QED BY <1>4, <1>6, <1>7 DEF LockInv

LEMMA SaveEditWrites ==
  ASSUME LockInv, SaveEdit
  PROVE  /\ Unlocked({edit.vod}) /\ UNCHANGED <<call, splices, chat, games>> /\ edits' = edits + 1 /\ Ids' = Ids
         /\ vods' = [v \in Ids |-> vods'[v]]
         /\ \A v \in Ids : /\ IsRow(vods'[v]) /\ (v # edit.vod => vods'[v] = vods[v])
                           /\ vods'[v].side = vods[v].side /\ vods'[v].merged = vods[v].merged
                           /\ vods'[v].emotes = vods[v].emotes
<1>1. PICK w, x : w = edit.vod /\ x = edit.title
  OBVIOUS
<1>2. /\ Unlocked({w}) /\ UNCHANGED <<call, splices, chat, games>> /\ edits' = edits + 1
      /\ vods' = IF w \in Ids THEN [vods EXCEPT ![w] = Titled(vods[w], x)] ELSE vods
  BY <1>1, Zenon DEF SaveEdit, Titled
<1>3. vods = [v \in Ids |-> vods[v]] /\ \A v \in Ids : IsRow(vods[v])
  BY DEF LockInv, RowsOK
<1>4. CASE w \in Ids
  <2>1. PICK q : q = Titled(vods[w], x)
    OBVIOUS
  <2>2. /\ IsRow(q) /\ q.side = vods[w].side /\ q.merged = vods[w].merged /\ q.emotes = vods[w].emotes
    BY <1>3, <1>4, <2>1, TitledIs
  <2>3. vods' = [v \in Ids |-> vods'[v]] /\ Ids' = Ids /\ vods'[w] = q /\ \A v \in Ids \ {w} : vods'[v] = vods[v]
    BY <1>2, <1>3, <1>4, <2>1 DEF Ids
  <2>4. QED BY <1>1, <1>2, <1>3, <2>2, <2>3
<1>5. CASE w \notin Ids
  BY <1>1, <1>2, <1>3, <1>5 DEF Ids
<1>6. QED BY <1>4, <1>5

Rechaptered(r, x) == [r EXCEPT !.side.chapters = x]

LEMMA RechapteredIs ==
  ASSUME NEW r, IsRow(r), NEW x, NEW q, q = Rechaptered(r, x)
  PROVE  /\ IsRow(q) /\ q.title = r.title /\ q.merged = r.merged /\ q.emotes = r.emotes
         /\ q.side.duration = r.side.duration /\ q.side.uploads = r.side.uploads
<1>1. PICK st, ti, d, h, u, lo, em, me :
        st = r.start /\ ti = r.title /\ d = r.side.duration /\ h = r.side.chapters /\ u = r.side.uploads
        /\ lo = r.locked /\ em = r.emotes /\ me = r.merged
  OBVIOUS
<1> DEFINE s == [duration |-> d, chapters |-> h, uploads |-> u]
           z == [duration |-> d, chapters |-> x, uploads |-> u]
<1>2. r = [start |-> st, title |-> ti, side |-> s, locked |-> lo, emotes |-> em, merged |-> me]
      /\ st \in Int /\ d \in Nat
  BY <1>1 DEF IsRow, IsSide
<1>3. Rechaptered(r, x) = [start |-> st, title |-> ti, side |-> z, locked |-> lo, emotes |-> em, merged |-> me]
  BY <1>2 DEF Rechaptered
<1>4. IsSide(z) /\ z.duration = d /\ z.uploads = u
  BY <1>2 DEF IsSide
<1> HIDE DEF z
<1>5. q = Made(st, ti, z, lo, em, me)
  BY <1>3 DEF Made
<1>6. IsRow(q) /\ q.title = ti /\ q.side = z /\ q.merged = me /\ q.emotes = em
  BY <1>2, <1>4, <1>5, RowMade
<1>7. QED BY <1>1, <1>4, <1>6

LEMMA WriteStepWrites ==
  ASSUME LockInv, NEW j \in Jobs, WriteStep(j)
  PROVE  /\ Unlocked({job[j].vod}) /\ UNCHANGED <<call, splices, chat, games, edits>> /\ Ids' = Ids
         /\ vods' = [v \in Ids |-> vods'[v]]
         /\ \A v \in Ids : /\ IsRow(vods'[v]) /\ (v # job[j].vod => vods'[v] = vods[v])
                           /\ vods'[v].title = vods[v].title /\ vods'[v].merged = vods[v].merged
                           /\ vods'[v].emotes = vods[v].emotes
                           /\ vods'[v].side.duration = vods[v].side.duration
                           /\ vods'[v].side.uploads = vods[v].side.uploads
<1>1. PICK w, x : w = job[j].vod /\ x = SideOf[job[j].vod[1]].chapters
  OBVIOUS
<1>2. /\ Unlocked({w}) /\ UNCHANGED <<call, splices, chat, games, edits>>
      /\ vods' = [vods EXCEPT ![w] = Rechaptered(vods[w], x)]
  BY <1>1, Zenon DEF WriteStep, Rechaptered
<1>3. vods = [v \in Ids |-> vods[v]] /\ \A v \in Ids : IsRow(vods[v])
  BY DEF LockInv, RowsOK
<1>4. CASE w \in Ids
  <2>1. PICK q : q = Rechaptered(vods[w], x)
    OBVIOUS
  <2>2. /\ IsRow(q) /\ q.title = vods[w].title /\ q.merged = vods[w].merged /\ q.emotes = vods[w].emotes
        /\ q.side.duration = vods[w].side.duration /\ q.side.uploads = vods[w].side.uploads
    BY <1>3, <1>4, <2>1, RechapteredIs
  <2>3. vods' = [v \in Ids |-> vods'[v]] /\ Ids' = Ids /\ vods'[w] = q /\ \A v \in Ids \ {w} : vods'[v] = vods[v]
    BY <1>2, <1>3, <1>4, <2>1 DEF Ids
  <2>4. QED BY <1>1, <1>2, <1>3, <2>2, <2>3
<1>5. CASE w \notin Ids
  <2>1. vods' = vods
    BY <1>2, <1>3, <1>5
  <2>2. QED BY <1>1, <1>2, <1>3, <2>1 DEF Ids
<1>6. QED BY <1>4, <1>5

LEMMA SaveEditLocks ==
  ASSUME LockInv, SaveEdit
  PROVE  LockInv'
<1>1. PICK w : w = edit.vod
  OBVIOUS
<1>2. /\ Unlocked({w}) /\ UNCHANGED <<call, splices>> /\ Ids' = Ids /\ vods' = [v \in Ids |-> vods'[v]]
      /\ \A v \in Ids : IsRow(vods'[v]) /\ (v # w => vods'[v] = vods[v])
  BY <1>1, SaveEditWrites
<1>3. QED BY <1>2, RowWriteLocks

LEMMA WriteStepLocks ==
  ASSUME LockInv, NEW j \in Jobs, WriteStep(j)
  PROVE  LockInv'
<1>1. PICK w : w = job[j].vod
  OBVIOUS
<1>2. /\ Unlocked({w}) /\ UNCHANGED <<call, splices>> /\ Ids' = Ids /\ vods' = [v \in Ids |-> vods'[v]]
      /\ \A v \in Ids : IsRow(vods'[v]) /\ (v # w => vods'[v] = vods[v])
  BY <1>1, WriteStepWrites
<1>3. QED BY <1>2, RowWriteLocks

LEMMA StutterLocks ==
  ASSUME LockInv, UNCHANGED <<vods, splices, call>>
  PROVE  LockInv'
BY DEF LockInv, RowsOK, Exclusive, Holds, CallOK, MergeOK, SplitOK, UndoOK, Blocked, Active, Touched, Ids

LEMMA StepLocks ==
  ASSUME SplicesAssumption, LockInv, [Next]_vars
  PROVE  LockInv'
<1>1. ASSUME NEW c \in Callers, Request(c) PROVE LockInv'
  <2>1. CASE \E a, b \in Ids, gap \in GapOverrides \cup {Computed} : MergeChecks(c, a, b, gap)
    BY <2>1, MergeChecksLocks
  <2>2. CASE \E a \in Ids : \E at \in Points(a) :
               SplitChecks(c, a, at) \/ \E force \in Forces : SplitAtJoin(c, a, at, force)
    <3>1. PICK a \in Ids : \E at \in Points(a) : SplitChecks(c, a, at) \/ \E force \in Forces : SplitAtJoin(c, a, at, force)
      BY <2>2
    <3>2. PICK at \in Points(a) : SplitChecks(c, a, at) \/ \E force \in Forces : SplitAtJoin(c, a, at, force)
      BY <3>1
    <3>3. QED BY <3>2, SplitChecksLocks, SplitAtJoinLocks
  <2>3. CASE \E k \in DOMAIN splices, force \in Forces : PickUndo(c, k, force)
    BY <2>3, PickUndoLocks
  <2>4. CASE MergeCommits(c)
    BY <2>4, MergeCommitsLocks
  <2>5. CASE SplitCommits(c)
    BY <2>5, SplitCommitsLocks
  <2>6. CASE UndoChecks(c)
    BY <2>6, UndoChecksLocks
  <2>7. CASE UndoCommits(c)
    BY <2>7, UndoCommitsLocks
  <2>8. QED BY <1>1, <2>1, <2>2, <2>3, <2>4, <2>5, <2>6, <2>7 DEF Request
<1>2. ASSUME \E v \in Ids \cap EditVods, title \in Titles : AskEdit(v, title) PROVE LockInv'
  <2>1. UNCHANGED <<vods, splices, call>>
    BY <1>2 DEF AskEdit, Rows
  <2>2. QED BY <2>1, StutterLocks
<1>3. ASSUME SaveEdit PROVE LockInv'
  BY <1>3, SaveEditLocks
<1>4. ASSUME NEW j \in Jobs, Refetch(j) PROVE LockInv'
  <2>1. CASE WriteStep(j)
    BY <2>1, WriteStepLocks
  <2>2. CASE (\E v \in JobVods : AskJob(j, v)) \/ InsertJob(j) \/ StartStep(j)
    <3>1. UNCHANGED <<vods, splices, call>>
      BY <2>2 DEF AskJob, InsertJob, StartStep, Rows
    <3>2. QED BY <3>1, StutterLocks
  <2>3. QED BY <1>4, <2>1, <2>2 DEF Refetch
<1>5. CASE UNCHANGED vars
  BY <1>5, StutterLocks DEF vars
<1>6. QED BY <1>1, <1>2, <1>3, <1>4, <1>5 DEF Next

\* What a request made sure of before it writes still holds when it does: its VODs are there, merged
\* into none, and no later splice touches those of an undo.
THEOREM LocksHold == Spec => []LockInv
<1>1. Init => LockInv
  BY SplicesAssumption, InitLocks
<1>2. LockInv /\ [Next]_vars => LockInv'
  BY SplicesAssumption, StepLocks
<1>3. QED BY <1>1, <1>2, PTL DEF Spec

\* Counted edits go on counting.
EditsCount == edits \in Nat

\* The step of EditsKept.
KeepsTitles ==
  \A v \in Ids \cap Ids' : vods'[v].title # vods[v].title =>
    edits' # edits \/ \E c \in Callers : call[c] # NoCall /\ call'[c] = NoCall /\ call[c].force

LEMMA UndoKeepsTitles ==
  ASSUME LockInv, NEW c \in Callers, UndoCommits(c)
  PROVE  KeepsTitles
<1>1. PICK k, sp, force : k = call[c].splice /\ sp = splices[k] /\ force = call[c].force
  OBVIOUS
<1>2. UndoWrites(c, k, sp, force)
  BY <1>1, UndoDoes
<1>3. /\ IsSplice(sp) /\ Touched(k) = {sp.vod, sp.other} /\ call[c] # NoCall
      /\ force \/ \A v \in Touched(k) : vods[v].title = sp.result[v][1]
      /\ call' = [call EXCEPT ![c] = NoCall]
      /\ Ids' = (IF sp.kind = "merge" THEN Ids ELSE Ids \ {sp.other})
  BY <1>2 DEF UndoWrites
<1>4. \A v \in Ids' :
        /\ v = sp.vod => vods'[v].title = sp.target.title
        /\ v = sp.other => vods'[v].title = sp.source.title
        /\ v \notin {sp.vod, sp.other} => vods'[v].title = vods[v].title
  BY <1>2 DEF UndoWrites
<1>5. /\ sp.vod # sp.other /\ sp.kind \in {"merge", "split"}
      /\ sp.result[sp.vod][1] = sp.target.title
      /\ sp.kind = "merge" => sp.result[sp.other][1] = sp.source.title
  BY <1>3 DEF IsSplice
<1>6. call'[c] = NoCall
  BY <1>3 DEF LockInv
<1>7. CASE call[c].force
  BY <1>3, <1>6, <1>7 DEF KeepsTitles
<1>8. CASE ~call[c].force
  <2>1. \A v \in Touched(k) : vods[v].title = sp.result[v][1]
    BY <1>1, <1>3, <1>8
  <2>2. ASSUME NEW v \in Ids \cap Ids' PROVE vods'[v].title = vods[v].title
    BY <1>3, <1>4, <1>5, <2>1
  <2>3. QED BY <2>2 DEF KeepsTitles
<1>9. QED BY <1>7, <1>8

LEMMA StepKeepsTitles ==
  ASSUME LockInv, EditsCount, [Next]_vars
  PROVE  KeepsTitles /\ EditsCount'
<1>1. ASSUME UNCHANGED <<vods, edits>> PROVE KeepsTitles /\ EditsCount'
  BY <1>1 DEF KeepsTitles, EditsCount
<1>2. ASSUME NEW c \in Callers, MergeCommits(c) PROVE KeepsTitles /\ EditsCount'
  <2>1. PICK a, b, offset : a = call[c].a /\ b = call[c].b /\ offset = call[c].offset
    OBVIOUS
  <2>2. MergeWrites(c, a, b, offset)
    BY <1>2, <2>1, MergeDoes
  <2>3. \A v \in Ids : vods'[v].title = vods[v].title
    BY <2>2 DEF MergeWrites
  <2>4. edits' = edits
    BY <1>2 DEF MergeCommits
  <2>5. QED BY <2>3, <2>4 DEF KeepsTitles, EditsCount
<1>3. ASSUME NEW c \in Callers, SplitCommits(c) PROVE KeepsTitles /\ EditsCount'
  <2>1. PICK a, at, new : a = call[c].a /\ at = call[c].at /\ new = FreeId(a)
    OBVIOUS
  <2>2. SplitWrites(c, a, at, new)
    BY <1>3, <2>1, SplitDoes
  <2>3. \A v \in Ids : vods'[v].title = vods[v].title
    BY <2>2 DEF SplitWrites
  <2>4. edits' = edits
    BY <1>3 DEF SplitCommits
  <2>5. QED BY <2>3, <2>4 DEF KeepsTitles, EditsCount
<1>4. ASSUME NEW c \in Callers, UndoCommits(c) PROVE KeepsTitles /\ EditsCount'
  <2>1. edits' = edits
    BY <1>4 DEF UndoCommits
  <2>2. QED BY <1>4, <2>1, UndoKeepsTitles DEF EditsCount
<1>5. ASSUME NEW c \in Callers, Request(c) PROVE KeepsTitles /\ EditsCount'
  <2>1. CASE \/ \E a, b \in Ids, gap \in GapOverrides \cup {Computed} : MergeChecks(c, a, b, gap)
             \/ \E k \in DOMAIN splices, force \in Forces : PickUndo(c, k, force)
             \/ UndoChecks(c)
    <3>1. UNCHANGED <<vods, edits>>
      BY <2>1 DEF MergeChecks, PickUndo, UndoChecks, Rows
    <3>2. QED BY <1>1, <3>1
  <2>2. CASE \E a \in Ids : \E at \in Points(a) :
               SplitChecks(c, a, at) \/ \E force \in Forces : SplitAtJoin(c, a, at, force)
    <3>1. UNCHANGED <<vods, edits>>
      BY <2>2 DEF SplitChecks, SplitAtJoin, Rows
    <3>2. QED BY <1>1, <3>1
  <2>3. QED BY <1>2, <1>3, <1>4, <1>5, <2>1, <2>2 DEF Request
<1>6. ASSUME SaveEdit PROVE KeepsTitles /\ EditsCount'
  <2>1. edits' = edits + 1
    BY <1>6 DEF SaveEdit
  <2>2. edits' # edits /\ edits' \in Nat
    BY <2>1 DEF EditsCount
  <2>3. QED BY <2>2 DEF KeepsTitles, EditsCount
<1>7. ASSUME NEW j \in Jobs, Refetch(j) PROVE KeepsTitles /\ EditsCount'
  <2>1. CASE WriteStep(j)
    <3>1. edits' = edits /\ \A v \in Ids : vods'[v].title = vods[v].title
      BY <2>1, WriteStepWrites
    <3>2. QED BY <3>1 DEF KeepsTitles, EditsCount
  <2>2. CASE (\E v \in JobVods : AskJob(j, v)) \/ InsertJob(j) \/ StartStep(j)
    <3>1. UNCHANGED <<vods, edits>>
      BY <2>2 DEF AskJob, InsertJob, StartStep, Rows
    <3>2. QED BY <1>1, <3>1
  <2>3. QED BY <1>7, <2>1, <2>2 DEF Refetch
<1>8. ASSUME \E v \in Ids \cap EditVods, title \in Titles : AskEdit(v, title) PROVE KeepsTitles /\ EditsCount'
  <2>1. UNCHANGED <<vods, edits>>
    BY <1>8 DEF AskEdit, Rows
  <2>2. QED BY <1>1, <2>1
<1>9. CASE UNCHANGED vars
  <2>1. UNCHANGED <<vods, edits>>
    BY <1>9 DEF vars
  <2>2. QED BY <1>1, <2>1
<1>10. QED BY <1>5, <1>6, <1>7, <1>8, <1>9 DEF Next

\* "An undo that would throw away edits made since is refused" (README.md): a title only changes with
\* an edit, or with an undo that was forced.
THEOREM EditsAreKept == Spec => EditsKept
<1>1. Init => EditsCount
  BY DEF Init, EditsCount
<1>2. LockInv /\ EditsCount /\ [Next]_vars => KeepsTitles /\ EditsCount'
  BY StepKeepsTitles
<1>3. KeepsTitles =>
        [\A v \in Ids \cap Ids' : vods'[v].title # vods[v].title =>
           edits' # edits \/ \E c \in Callers : call[c] # NoCall /\ call'[c] = NoCall /\ call[c].force]_vars
  BY DEF KeepsTitles
<1>4. QED BY <1>1, <1>2, <1>3, LocksHold, PTL DEF Spec, EditsKept

----------------------------------------------------------------------------
(* Places, and what a row says of its VOD's.                                *)

LEMMA ThingsAreSomewhere ==
  ASSUME SplicesAssumption
  PROVE  /\ \A c \in Comments : IsPlace(FirstAt(c)) /\ FirstAt(c).vod \in Firsts
         /\ \A g \in Games : /\ IsPlace(Played(g)) /\ Played(g).vod \in Firsts
                             /\ GameAt[g].start \in Nat /\ GameAt[g].end \in Nat
<1>1. Firsts \subseteq Seq(Int)
  BY FirstsFinite
<1>2. ASSUME NEW c \in Comments PROVE IsPlace(FirstAt(c)) /\ FirstAt(c).vod \in Firsts
  <2>1. CommentAt[c].vod \in Firsts /\ CommentAt[c].at \in Nat
    BY DEF SplicesAssumption, Firsts
  <2>2. QED BY <1>1, <2>1 DEF IsPlace, FirstAt
<1>3. ASSUME NEW g \in Games
      PROVE  IsPlace(Played(g)) /\ Played(g).vod \in Firsts /\ GameAt[g].start \in Nat /\ GameAt[g].end \in Nat
  <2>1. GameAt[g].vod \in Firsts /\ GameAt[g].start \in Nat /\ GameAt[g].end \in Nat
    BY DEF SplicesAssumption, Firsts
  <2>2. QED BY <1>1, <2>1 DEF IsPlace, Played
<1>4. QED BY <1>2, <1>3

LEMMA AtIsPlace == ASSUME NEW v \in Seq(Int) PROVE IsPlace(At(v)) /\ At(v).vod = v /\ At(v).at = 0
BY DEF IsPlace, At

LEMMA NowIsPlace ==
  ASSUME LockInv, NEW p, IsPlace(p)
  PROVE  IsPlace(Now(p)) /\ \A k \in 1..Len(splices) : IsPlace(Before(k, p))
<1>1. AreSplices(splices) /\ Len(splices) \in Nat
  BY SplicesFacts
<1>2. \A k \in 0..Len(splices) : IsPlace(Trail(splices, p)[k])
  BY <1>1, TrailPlaces
<1>3. Len(splices) \in 0..Len(splices) /\ \A k \in 1..Len(splices) : k - 1 \in 0..Len(splices)
  BY <1>1
<1>4. QED BY <1>2, <1>3 DEF Now, Before

LEMMA MergedIs ==
  ASSUME SplicesAssumption, LockInv, HistInv, NEW v \in Ids
  PROVE  /\ IsPlace(At(v)) /\ IsPlace(Now(At(v))) /\ v \in Seq(Int)
         /\ vods[v].merged = NoVod <=> Now(At(v)) = At(v)
         /\ vods[v].merged # NoVod => /\ vods[v].merged = [id |-> Now(At(v)).vod, offset |-> Now(At(v)).at]
                                      /\ Now(At(v)).vod # v
         /\ Now(At(v)).vod = v <=> Now(At(v)) = At(v)
<1>1. v \in Seq(Int)
  BY DEF LockInv, RowsOK
<1>2. IsPlace(At(v)) /\ At(v).vod = v
  BY <1>1, AtIsPlace
<1>3. PICK p : p = Now(At(v))
  OBVIOUS
<1>4. IsPlace(p)
  BY <1>2, <1>3, NowIsPlace
<1>5. [id |-> p.vod, offset |-> p.at] # NoVod
  <2>1. p.vod \in Seq(Int) /\ p.at \in Nat
    BY <1>4 DEF IsPlace
  <2>2. [id |-> p.vod, offset |-> p.at] \in [id : Seq(Int), offset : Nat]
    BY <2>1
  <2>3. QED BY <2>2 DEF SplicesAssumption
<1>6. /\ vods[v].merged = (IF p.vod = v THEN NoVod ELSE [id |-> p.vod, offset |-> p.at])
      /\ p.vod = v => p = At(v)
  BY <1>3, Zenon DEF HistInv, Placed
<1>7. QED BY <1>1, <1>2, <1>3, <1>4, <1>5, <1>6

----------------------------------------------------------------------------
(* A splice that is recorded keeps the history.                             *)

\* What a merge and a split both do: everything is moved one step on, and what moved is recorded.
Extends(sp) ==
  /\ IsSplice(sp) /\ ~sp.undone /\ Records(sp)
  /\ sp.vod \in Ids /\ (sp.kind = "merge" => sp.other \in Ids) /\ (sp.kind = "split" => sp.other \notin Ids)
  /\ Ids' = IF sp.kind = "merge" THEN Ids ELSE Ids \cup {sp.other}
  /\ Now(At(sp.vod)) = At(sp.vod) /\ Now(At(sp.other)) = At(sp.other)
  /\ sp.repointed = [v \in {w \in Ids \ Ends(sp) : Moves(sp, Now(At(w)))} |->
                       [id |-> Now(At(v)).vod, offset |-> Now(At(v)).at]]
  /\ sp.kind = "merge" => /\ sp.members = {c \in Comments : Moves(sp, Now(FirstAt(c)))}
                          /\ sp.games = {g \in Games : Moves(sp, Now(Played(g)))}

\* What it does with the chat and the redirects, and with the rows.
Carries(sp) ==
  /\ \A c \in Comments : chat'[c] = Step(sp, Now(FirstAt(c)))
  /\ \A g \in Games : games'[g] = [vod |-> Step(sp, Now(Played(g))).vod, start |-> Step(sp, Now(Played(g))).at,
                                   end |-> Step(sp, Now(Played(g))).at + GameAt[g].end - GameAt[g].start]
  /\ \A v \in Ids' : vods'[v].merged = IF Step(sp, Now(At(v))).vod = v THEN NoVod
                                       ELSE [id |-> Step(sp, Now(At(v))).vod, offset |-> Step(sp, Now(At(v))).at]
Leaves(sp) ==
  /\ \A v \in Ids \ Ends(sp) : vods'[v].side = vods[v].side
  /\ \A v \in Ends(sp) : sp.result[v] = Editable(vods'[v])
  /\ sp.target = Fields(vods[sp.vod]) /\ (sp.kind = "merge" => sp.source = Fields(vods[sp.other]))
  /\ \A v \in Ids : (sp.kind = "merge" => v # sp.vod) => vods'[v].emotes = vods[v].emotes
  /\ sp.kind = "merge" => sp.emotes = vods[sp.vod].emotes

\* Every trail is one step longer, and was there as it is.
Longer(n, sp) ==
  /\ n \in Nat /\ Len(splices') = n + 1 /\ Active' = Active \cup {n + 1} /\ Active \subseteq 1..n
  /\ splices'[n + 1] = sp /\ \A k \in 1..n : splices'[k] = splices[k]
  /\ \A k \in 1..n : Touched(k)' = Touched(k)
  /\ Touched(n + 1)' = Ends(sp)
  /\ \A p : Now(p)' = Step(sp, Now(p)) /\ Before(n + 1, p)' = Now(p)
  /\ \A p : \A k \in 1..n : Before(k, p)' = Before(k, p)

LEMMA ExtendedTrails ==
  ASSUME LockInv, NEW sp, IsSplice(sp), ~sp.undone, Records(sp), NEW n, n = Len(splices)
  PROVE  Longer(n, sp)
<1>1. PICK s, t : s = splices /\ t = splices'
  OBVIOUS
<1>2. AreSplices(s) /\ n \in Nat /\ Len(s) = n /\ DOMAIN s = 1..n /\ Active = Live(s)
  BY <1>1, SplicesFacts
<1>3. IsAppend(t, s, sp)
  BY <1>1 DEF Records, IsAppend
<1>4. AreSplices(t) /\ Len(t) = n + 1 /\ t[n + 1] = sp /\ Live(t) = Live(s) \cup {n + 1}
  BY <1>2, <1>3, AppendedSplices
<1>5. \A k \in 1..n : t[k] = s[k]
  BY <1>2, <1>3, AppendedSplices
<1>6. DOMAIN t = 1..n + 1
  BY <1>4, AreSplicesFacts
<1>7. Active' = Live(t) /\ Active \subseteq 1..n
  BY <1>1, <1>2, <1>4, <1>6 DEF Active, Live
<1>8. Active' = Active \cup {n + 1}
  BY <1>2, <1>4, <1>7
<1>9. /\ \A k \in 1..n : Touched(k)' = Touched(k)
      /\ Touched(n + 1)' = Ends(sp)
  BY <1>1, <1>4, <1>5 DEF Touched, Ends
<1>10. ASSUME NEW p
       PROVE  /\ Now(p)' = Step(sp, Now(p)) /\ Before(n + 1, p)' = Now(p)
              /\ \A k \in 1..n : Before(k, p)' = Before(k, p)
  <2>1. /\ \A j \in 0..n : Trail(t, p)[j] = Trail(s, p)[j]
        /\ Trail(t, p)[n + 1] = Step(sp, Trail(s, p)[n])
    BY <1>2, <1>4, <1>5, TrailAppended
  <2>2. (n + 1) - 1 = n /\ n \in 0..n /\ \A k \in 1..n : k - 1 \in 0..n
    BY <1>2
  <2>3. Now(p)' = Trail(t, p)[n + 1] /\ Now(p) = Trail(s, p)[n]
    BY <1>1, <1>2, <1>4 DEF Now
  <2>4. \A k : Before(k, p)' = Trail(t, p)[k - 1] /\ Before(k, p) = Trail(s, p)[k - 1]
    BY <1>1 DEF Before
  <2>5. QED BY <2>1, <2>2, <2>3, <2>4
<1>11. Len(splices') = n + 1 /\ splices'[n + 1] = sp
  BY <1>1, <1>4
<1>12. \A k \in 1..n : splices'[k] = splices[k]
  BY <1>1, <1>5
<1>13. QED BY <1>2, <1>7, <1>8, <1>9, <1>10, <1>11, <1>12 DEF Longer

\* A VOD that is not there is where it is.
LEMMA NewStays ==
  ASSUME LockInv, HistInv, NEW v \in Seq(Int), v \notin Ids
  PROVE  Now(At(v)) = At(v) /\ \A k \in 1..Len(splices) : Before(k, At(v)) = At(v)
<1>1. PICK s : s = splices
  OBVIOUS
<1>2. AreSplices(s) /\ Len(s) \in Nat /\ Active = Live(s) /\ \A k \in 1..Len(s) : Touched(k) = Ends(s[k])
  BY <1>1, SplicesFacts
<1>3. \A k \in Active : Touched(k) \subseteq Ids
  BY DEF HistInv, Rooted
<1>4. \A k \in Live(s) : v \notin Ends(s[k])
  BY <1>2, <1>3 DEF Live
<1>5. IsPlace(At(v)) /\ At(v).vod = v
  BY AtIsPlace
<1>6. Trail(s, At(v))[0] = At(v)
  BY <1>2, TrailSteps
<1>7. ASSUME NEW j \in 0..Len(s) PROVE Trail(s, At(v))[j] = At(v)
  <2>1. 0 <= j /\ j \in Nat /\ j <= Len(s)
    BY <1>2
  <2>2. \A k \in Live(s) : 0 < k /\ k <= j => Trail(s, At(v))[0].vod \notin Ends(s[k])
    BY <1>4, <1>5, <1>6
  <2>3. Trail(s, At(v))[j] = Trail(s, At(v))[0]
    BY <1>2, <1>5, <2>1, <2>2, TrailStays
  <2>4. QED BY <1>6, <2>3
<1>8. Len(s) \in 0..Len(s) /\ \A k \in 1..Len(s) : k - 1 \in 0..Len(s)
  BY <1>2
<1>9. Now(At(v)) = Trail(s, At(v))[Len(s)] /\ \A k : Before(k, At(v)) = Trail(s, At(v))[k - 1]
  BY <1>1 DEF Now, Before
<1>10. \A k \in 1..Len(s) : Before(k, At(v)) = At(v)
  BY <1>7, <1>8, <1>9
<1>11. QED BY <1>1, <1>7, <1>8, <1>9, <1>10

LEMMA ExtendsRooted ==
  ASSUME SplicesAssumption, LockInv, HistInv, NEW sp, Extends(sp)
  PROVE  \A k \in Active' : Rooted(k)'
<1>1. PICK n : n = Len(splices)
  OBVIOUS
<1>2. IsSplice(sp) /\ ~sp.undone /\ Records(sp)
  BY DEF Extends
<1>3. /\ n \in Nat /\ Active' = Active \cup {n + 1} /\ Active \subseteq 1..n
      /\ splices'[n + 1] = sp /\ \A k \in 1..n : splices'[k] = splices[k]
      /\ \A k \in 1..n : Touched(k)' = Touched(k)
      /\ Touched(n + 1)' = Ends(sp)
      /\ \A p : Before(n + 1, p)' = Now(p)
      /\ \A p : \A k \in 1..n : Before(k, p)' = Before(k, p)
  <2>1. Longer(n, sp)
    BY <1>1, <1>2, ExtendedTrails
  <2>2. QED BY <2>1 DEF Longer
<1>4. /\ Ids \subseteq Ids' /\ Ends(sp) \subseteq Ids' /\ \A v \in Ends(sp) : Now(At(v)) = At(v)
      /\ sp.kind = "split" => sp.other \notin Ids
  BY <1>2 DEF Extends, Ends, IsSplice
<1>5. Firsts \subseteq Ids /\ \A m \in Active : Touched(m) \subseteq Ids
  BY DEF HistInv, Placed, Rooted
<1>6. ASSUME NEW k \in Active PROVE Rooted(k)'
  <2>1. Rooted(k) /\ k \in 1..n
    BY <1>3 DEF HistInv
  <2>2. Touched(k)' \subseteq Ids' /\ \A v \in Touched(k)' : Before(k, At(v))' = At(v)
    BY <1>3, <1>4, <2>1 DEF Rooted
  <2>3. ASSUME splices'[k].kind = "split" PROVE splices'[k].other \notin Firsts
    BY <1>3, <2>1, <2>3 DEF Rooted
  <2>4. ASSUME splices'[k].kind = "split", NEW m \in Active', m < k PROVE splices'[k].other \notin Touched(m)'
    <3>1. m \in Active /\ m \in 1..n
      <4>1. n \in Nat /\ k \in 1..n /\ m < k
        BY <1>3, <2>1, <2>4
      <4>2. m # n + 1
        BY <4>1
      <4>3. QED BY <1>3, <2>4, <4>2
    <3>2. splices[k].kind = "split" /\ splices'[k].other = splices[k].other /\ Touched(m)' = Touched(m)
      BY <1>3, <2>1, <2>4, <3>1
    <3>3. QED BY <2>1, <2>4, <3>1, <3>2 DEF Rooted
  <2>5. QED BY <2>2, <2>3, <2>4 DEF Rooted
<1>7. Rooted(n + 1)'
  <2>1. Touched(n + 1)' \subseteq Ids' /\ \A v \in Touched(n + 1)' : Before(n + 1, At(v))' = At(v)
    BY <1>3, <1>4
  <2>2. ASSUME splices'[n + 1].kind = "split" PROVE splices'[n + 1].other \notin Firsts
    BY <1>3, <1>4, <1>5, <2>2
  <2>3. ASSUME splices'[n + 1].kind = "split", NEW m \in Active', m < n + 1
        PROVE  splices'[n + 1].other \notin Touched(m)'
    <3>1. m \in Active /\ m \in 1..n
      BY <1>3, <2>3
    <3>2. QED BY <1>3, <1>4, <1>5, <2>3, <3>1
  <2>4. QED BY <2>1, <2>2, <2>3 DEF Rooted
<1>8. QED BY <1>3, <1>6, <1>7

LEMMA ExtendsRecorded ==
  ASSUME SplicesAssumption, LockInv, HistInv, NEW sp, Extends(sp)
  PROVE  \A k \in Active' : Recorded(k)'
<1>1. PICK n : n = Len(splices)
  OBVIOUS
<1>2. IsSplice(sp) /\ ~sp.undone /\ Records(sp)
  BY DEF Extends
<1>3. Longer(n, sp)
  BY <1>1, <1>2, ExtendedTrails
<1>4. /\ n \in Nat /\ Active' = Active \cup {n + 1} /\ Active \subseteq 1..n
      /\ splices'[n + 1] = sp /\ \A k \in 1..n : splices'[k] = splices[k] /\ Touched(k)' = Touched(k)
      /\ Touched(n + 1)' = Ends(sp)
  BY <1>3 DEF Longer
<1>5. \A p : Before(n + 1, p)' = Now(p)
  BY <1>3 DEF Longer
<1>6. \A p : \A k \in 1..n : Before(k, p)' = Before(k, p)
  BY <1>3 DEF Longer
<1>7. ASSUME NEW k \in Active PROVE Recorded(k)'
  <2> DEFINE S == {w \in Ids \ Touched(k) : Moves(splices[k], Before(k, At(w)))}
             T == {w \in Ids' \ Touched(k)' : Moves(splices'[k], Before(k, At(w))')}
  <2>1. k \in 1..n /\ splices'[k] = splices[k] /\ Touched(k)' = Touched(k) /\ Recorded(k) /\ Touched(k) \subseteq Ids
    BY <1>4 DEF HistInv, Rooted
  <2>2. \A p : Before(k, p)' = Before(k, p)
    BY <1>6, <2>1
  <2>3. ASSUME NEW w \in Ids', w \notin Ids PROVE ~Moves(splices[k], Before(k, At(w)))
    <3>1. w \in Seq(Int)
      BY <1>2, <2>3 DEF Extends, IsSplice
    <3>2. IsPlace(At(w)) /\ At(w).vod = w
      BY <3>1, AtIsPlace
    <3>3. Before(k, At(w)) = At(w)
      BY <1>1, <2>1, <2>3, <3>1, NewStays
    <3>4. IsSplice(splices[k]) /\ Touched(k) = Ends(splices[k])
      BY <1>1, <2>1, SplicesFacts
    <3>5. w \notin Ends(splices[k])
      BY <2>1, <2>3, <3>4
    <3>6. QED BY <3>2, <3>3, <3>4, <3>5, StepPlace
  <2>4. Ids \subseteq Ids'
    BY DEF Extends
  <2>5. S = T
    BY <2>1, <2>2, <2>3, <2>4
  <2> HIDE DEF S, T
  <2>6. splices[k].repointed = [v \in S |-> [id |-> Before(k, At(v)).vod, offset |-> Before(k, At(v)).at]]
    BY <2>1, Zenon DEF Recorded, S
  <2>7. splices'[k].repointed = [v \in T |-> [id |-> Before(k, At(v))'.vod, offset |-> Before(k, At(v))'.at]]
    BY <2>1, <2>2, <2>5, <2>6
  <2>8. ASSUME splices'[k].kind = "merge"
        PROVE  /\ splices'[k].members = {c \in Comments : Moves(splices'[k], Before(k, FirstAt(c))')}
               /\ splices'[k].games = {g \in Games : Moves(splices'[k], Before(k, Played(g))')}
    <3>1. /\ splices[k].members = {c \in Comments : Moves(splices[k], Before(k, FirstAt(c)))}
          /\ splices[k].games = {g \in Games : Moves(splices[k], Before(k, Played(g)))}
      BY <2>1, <2>8 DEF Recorded
    <3>2. QED BY <2>1, <2>2, <3>1
  <2>9. QED BY <2>7, <2>8, Zenon DEF Recorded, T
<1>8. Recorded(n + 1)'
  <2> DEFINE S == {w \in Ids \ Ends(sp) : Moves(sp, Now(At(w)))}
             T == {w \in Ids' \ Touched(n + 1)' : Moves(splices'[n + 1], Before(n + 1, At(w))')}
  <2>1. /\ sp.repointed = [v \in S |-> [id |-> Now(At(v)).vod, offset |-> Now(At(v)).at]]
        /\ sp.kind = "merge" => /\ sp.members = {c \in Comments : Moves(sp, Now(FirstAt(c)))}
                                /\ sp.games = {g \in Games : Moves(sp, Now(Played(g)))}
    BY Zenon DEF Extends
  <2>2. Ids' \ Touched(n + 1)' = Ids \ Ends(sp)
    BY <1>2, <1>4 DEF Extends, Ends, IsSplice
  <2>3. S = T
    BY <1>4, <1>5, <2>2
  <2> HIDE DEF S, T
  <2>4. splices'[n + 1].repointed
          = [v \in T |-> [id |-> Before(n + 1, At(v))'.vod, offset |-> Before(n + 1, At(v))'.at]]
    BY <1>4, <1>5, <2>1, <2>3
  <2>5. ASSUME splices'[n + 1].kind = "merge"
        PROVE  /\ splices'[n + 1].members = {c \in Comments : Moves(splices'[n + 1], Before(n + 1, FirstAt(c))')}
               /\ splices'[n + 1].games = {g \in Games : Moves(splices'[n + 1], Before(n + 1, Played(g))')}
    BY <1>4, <1>5, <2>1, <2>5
  <2>6. QED BY <2>4, <2>5, Zenon DEF Recorded, T
<1>9. QED BY <1>4, <1>7, <1>8

LEMMA ExtendsPlaced ==
  ASSUME SplicesAssumption, LockInv, HistInv, NEW sp, Extends(sp), Carries(sp)
  PROVE  Placed'
<1>1. PICK n : n = Len(splices)
  OBVIOUS
<1>2. /\ IsSplice(sp) /\ ~sp.undone /\ Records(sp) /\ sp.vod # sp.other
      /\ sp.kind \in {"merge", "split"} /\ sp.vod \in Seq(Int) /\ sp.other \in Seq(Int)
  BY DEF Extends, IsSplice
<1>3. Longer(n, sp)
  BY <1>1, <1>2, ExtendedTrails
<1>4. /\ n \in Nat /\ Active' = Active \cup {n + 1} /\ Active \subseteq 1..n
      /\ splices'[n + 1] = sp /\ \A k \in 1..n : splices'[k] = splices[k]
  BY <1>3 DEF Longer
<1>5. \A p : Now(p)' = Step(sp, Now(p))
  BY <1>3 DEF Longer
<1>6. /\ \A c \in Comments : chat'[c] = Now(FirstAt(c))'
      /\ \A g \in Games : games'[g] = [vod |-> Now(Played(g))'.vod, start |-> Now(Played(g))'.at,
                                       end |-> Now(Played(g))'.at + GameAt[g].end - GameAt[g].start]
      /\ \A v \in Ids' : vods'[v].merged = IF Now(At(v))'.vod = v THEN NoVod
                                           ELSE [id |-> Now(At(v))'.vod, offset |-> Now(At(v))'.at]
  BY <1>5 DEF Carries
<1>7. ASSUME NEW v \in Ids', Now(At(v))'.vod = v PROVE Now(At(v))' = At(v)
  <2>1. PICK q : q = Now(At(v))
    OBVIOUS
  <2>2. v \in Seq(Int)
    BY <1>2 DEF Extends, LockInv, RowsOK
  <2>3. IsPlace(q) /\ (q.vod = v => q = At(v))
    <3>1. IsPlace(At(v)) /\ At(v).vod = v
      BY <2>2, AtIsPlace
    <3>2. IsPlace(q)
      BY <2>1, <3>1, NowIsPlace
    <3>3. CASE v \in Ids
      BY <2>1, <3>2, <3>3 DEF HistInv, Placed
    <3>4. CASE v \notin Ids
      BY <2>1, <2>2, <3>2, <3>4, NewStays
    <3>5. QED BY <3>3, <3>4
  <2>4. Now(At(v))' = Step(sp, q)
    BY <1>5, <2>1
  <2>5. CASE ~Moves(sp, q)
    BY <1>7, <2>3, <2>4, <2>5 DEF Step
  <2>6. CASE Moves(sp, q)
    <3>1. Landing(sp, q).vod = v /\ q.vod \in Ends(sp) /\ Landing(sp, q).vod \in Ends(sp) /\ Landing(sp, q).vod # q.vod
      BY <1>2, <1>7, <2>3, <2>4, <2>6, StepPlace
    <3>2. Now(At(sp.vod)) = At(sp.vod) /\ Now(At(sp.other)) = At(sp.other)
      BY DEF Extends
    <3>3. q = At(v)
      BY <2>1, <3>1, <3>2 DEF Ends
    <3>4. QED BY <2>2, <3>1, <3>3, AtIsPlace
  <2>7. QED BY <2>5, <2>6
<1>8. Ids' = Firsts \cup {splices'[k].other : k \in {m \in Active' : splices'[m].kind = "split"}}
  <2> DEFINE Halves == {splices[k].other : k \in {m \in Active : splices[m].kind = "split"}}
  <2>1. Ids = Firsts \cup Halves
    BY DEF HistInv, Placed
  <2>2. {splices'[k].other : k \in {m \in Active' : splices'[m].kind = "split"}}
          = Halves \cup (IF sp.kind = "split" THEN {sp.other} ELSE {})
    <3>1. \A m \in Active : splices'[m] = splices[m]
      BY <1>4
    <3>2. \A m \in Active' : m \in Active \/ (m = n + 1 /\ splices'[m] = sp)
      BY <1>4
    <3>3. {m \in Active' : splices'[m].kind = "split"}
            = {m \in Active : splices[m].kind = "split"} \cup (IF sp.kind = "split" THEN {n + 1} ELSE {})
      <4>1. Active \subseteq Active' /\ n + 1 \in Active' /\ splices'[n + 1] = sp
        BY <1>4
      <4>2. ASSUME NEW m \in Active', splices'[m].kind = "split"
            PROVE  (m \in Active /\ splices[m].kind = "split") \/ (m = n + 1 /\ sp.kind = "split")
        BY <3>1, <3>2, <4>2
      <4>3. \A m \in Active : splices[m].kind = "split" => m \in Active' /\ splices'[m].kind = "split"
        BY <3>1, <4>1
      <4>4. sp.kind = "split" => n + 1 \in Active' /\ splices'[n + 1].kind = "split"
        BY <4>1
      <4>5. QED BY <4>2, <4>3, <4>4
    <3>4. CASE sp.kind = "split"
      <4>1. splices'[n + 1] = sp
        BY <1>4
      <4>2. {m \in Active' : splices'[m].kind = "split"} = {m \in Active : splices[m].kind = "split"} \cup {n + 1}
        BY <3>3, <3>4
      <4>3. PICK A, y : A = {m \in Active : splices[m].kind = "split"} /\ y = n + 1
        OBVIOUS
      <4>4. \A k \in A : splices'[k].other = splices[k].other
        BY <3>1, <4>3
      <4>5. Halves = {splices'[k].other : k \in A}
        <5>1. Halves = {splices[k].other : k \in A}
          BY <4>3, Zenon
        <5> HIDE DEF Halves
        <5>2. ASSUME NEW e \in Halves PROVE e \in {splices'[k].other : k \in A}
          <6>1. PICK k \in A : e = splices[k].other
            BY <5>1, <5>2
          <6>2. e = splices'[k].other
            BY <4>4, <6>1
          <6>3. QED BY <6>2
        <5>3. ASSUME NEW k \in A PROVE splices'[k].other \in Halves
          BY <4>4, <5>1
        <5>4. QED BY <5>2, <5>3
      <4>6. {splices'[k].other : k \in A \cup {y}} = {splices'[k].other : k \in A} \cup {splices'[y].other}
        OBVIOUS
      <4>7. splices'[y].other = sp.other
        BY <4>1, <4>3
      <4> HIDE DEF Halves
      <4>8. {splices'[k].other : k \in A \cup {y}} = Halves \cup {sp.other}
        BY <4>5, <4>6, <4>7
      <4>9. {m \in Active' : splices'[m].kind = "split"} = A \cup {y}
        BY <4>2, <4>3
      <4>10. QED BY <3>4, <4>8, <4>9
    <3>5. CASE sp.kind # "split"
      BY <3>1, <3>3, <3>5
    <3>6. QED BY <3>4, <3>5
  <2>3. Ids' = IF sp.kind = "merge" THEN Ids ELSE Ids \cup {sp.other}
    BY DEF Extends
  <2> HIDE DEF Halves
  <2>4. CASE sp.kind = "merge"
    BY <2>1, <2>2, <2>3, <2>4
  <2>5. CASE sp.kind = "split"
    BY <2>1, <2>2, <2>3, <2>5
  <2>6. QED BY <1>2, <2>4, <2>5
<1>9. QED BY <1>6, <1>7, <1>8 DEF Placed

\* Which splice was last on a VOD is not changed by a later one.
LEMMA LastOnAppended ==
  ASSUME NEW n, NEW sp, Longer(n, sp), NEW v, NEW m \in 1..n + 1
  PROVE  /\ NoneOn(v, m)' <=> NoneOn(v, m)
         /\ MergedInto(v, m)' <=> MergedInto(v, m)
         /\ \A k : LastOn(k, v, m)' <=> LastOn(k, v, m)
<1>1. /\ n \in Nat /\ Active' = Active \cup {n + 1} /\ Active \subseteq 1..n
      /\ \A k \in 1..n : splices'[k] = splices[k] /\ Touched(k)' = Touched(k)
  BY DEF Longer
<1>2. \A k \in Active' : k < m => k \in Active
  BY <1>1
<1>3. \A k \in Active : k \in Active' /\ splices'[k] = splices[k] /\ Touched(k)' = Touched(k)
  BY <1>1
<1>4. NoneOn(v, m)' <=> NoneOn(v, m)
  BY <1>2, <1>3 DEF NoneOn
<1>5. MergedInto(v, m)' <=> MergedInto(v, m)
  BY <1>2, <1>3 DEF MergedInto
<1>6. \A k : LastOn(k, v, m)' <=> LastOn(k, v, m)
  BY <1>2, <1>3 DEF LastOn
<1>7. QED BY <1>4, <1>5, <1>6

LEMMA ExtendsChained ==
  ASSUME SplicesAssumption, LockInv, HistInv, NEW sp, Extends(sp), Leaves(sp)
  PROVE  Chained'
<1>1. PICK n : n = Len(splices)
  OBVIOUS
<1>2. /\ IsSplice(sp) /\ ~sp.undone /\ Records(sp) /\ sp.vod # sp.other /\ sp.kind \in {"merge", "split"}
      /\ sp.vod \in Ids /\ (sp.kind = "merge" => sp.other \in Ids) /\ Ids \subseteq Ids'
      /\ Ids' \subseteq Ids \cup Ends(sp)
  BY DEF Extends, IsSplice, Ends
<1>3. Longer(n, sp)
  BY <1>1, <1>2, ExtendedTrails
<1>4. /\ n \in Nat /\ Active' = Active \cup {n + 1} /\ Active \subseteq 1..n
      /\ splices'[n + 1] = sp /\ \A k \in 1..n : splices'[k] = splices[k]
      /\ \A k \in 1..n : Touched(k)' = Touched(k)
      /\ Touched(n + 1)' = Ends(sp) /\ Len(splices') = n + 1
  BY <1>3 DEF Longer
<1>5. /\ \A v \in Ids \ Ends(sp) : vods'[v].side = vods[v].side
      /\ \A v \in Ends(sp) : sp.result[v] = Editable(vods'[v])
      /\ sp.target = Fields(vods[sp.vod]) /\ (sp.kind = "merge" => sp.source = Fields(vods[sp.other]))
  BY DEF Leaves
<1>6. n + 1 \in 1..n + 1 /\ \A k \in Active : k \in 1..n /\ k \in 1..n + 1 /\ k # n + 1
  BY <1>4
<1>7. \A k \in 1..n : \A v : Found(k, v)' = Found(k, v) /\ Left(k, v)' = Left(k, v)
  BY <1>4 DEF Found, Left, Content
<1>8. /\ \A v \in Ids : \A k \in Active : LastOn(k, v, n + 1) => Content(vods[v].side) = Left(k, v)
      /\ \A v \in Originals : NoneOn(<<v>>, n + 1) => Content(vods[<<v>>].side) = Content(SideOf[v])
  BY <1>1 DEF HistInv, Chained
<1>9. ASSUME NEW v \in Ids', NEW k \in Active', LastOn(k, v, n + 2)' PROVE Content(vods'[v].side) = Left(k, v)'
  <2>1. CASE v \in Ends(sp)
    <3>1. k = n + 1
      BY <1>4, <1>6, <1>9, <2>1 DEF LastOn
    <3>2. Left(k, v)' = Content(sp.result[v][2])
      BY <1>4, <3>1 DEF Left, Content
    <3>3. sp.result[v][2] = vods'[v].side
      BY <1>5, <2>1 DEF Editable
    <3>4. QED BY <3>2, <3>3
  <2>2. CASE v \notin Ends(sp)
    <3>1. v \in Ids /\ k \in Active /\ k \in 1..n
      BY <1>2, <1>4, <1>9, <2>2 DEF LastOn
    <3>2. LastOn(k, v, n + 1)
      BY <1>4, <1>6, <1>9, <3>1 DEF LastOn
    <3>3. Content(vods[v].side) = Left(k, v)
      BY <1>8, <3>1, <3>2
    <3>4. QED BY <1>5, <1>7, <2>2, <3>1, <3>3
  <2>3. QED BY <2>1, <2>2
<1>10. ASSUME NEW v \in Originals, NoneOn(<<v>>, n + 2)' PROVE Content(vods'[<<v>>].side) = Content(SideOf[v])
  <2>1. PICK w : w = <<v>>
    OBVIOUS
  <2>2. w \in Ids
    BY <2>1 DEF HistInv, Placed, Firsts
  <2>3. w \notin Ends(sp) /\ NoneOn(w, n + 1)
    BY <1>4, <1>6, <1>10, <2>1 DEF NoneOn
  <2>4. Content(vods[w].side) = Content(SideOf[v])
    BY <1>8, <2>1, <2>3
  <2>5. QED BY <1>5, <2>1, <2>2, <2>3, <2>4
<1>11. ASSUME NEW v \in Restores(n + 1)' PROVE v \in Ids /\ Found(n + 1, v)' = Content(vods[v].side)
  <2>1. /\ v \in Ends(sp) /\ (sp.kind = "split" => v = sp.vod)
        /\ Found(n + 1, v)' = Content(IF v = sp.vod THEN sp.target.side ELSE sp.source.side)
    BY <1>2, <1>4, <1>11 DEF Restores, Ends, Found, Content
  <2>2. sp.target.side = vods[sp.vod].side /\ (sp.kind = "merge" => sp.source.side = vods[sp.other].side)
    BY <1>5 DEF Fields
  <2>3. QED BY <1>2, <2>1, <2>2 DEF Ends
<1>12. \A k \in Active : Restores(k)' = Restores(k)
  BY <1>4, <1>6 DEF Restores
<1>13. ASSUME NEW k \in Active', NEW v \in Restores(k)', NEW j \in Active', LastOn(j, v, k)'
       PROVE  Found(k, v)' = Left(j, v)'
  <2>1. k \in 1..n + 1 /\ j \in Active /\ j \in 1..n /\ LastOn(j, v, k)
    <3>1. k \in 1..n + 1 /\ j < k
      BY <1>4, <1>13 DEF LastOn
    <3>2. LastOn(j, v, k)
      BY <1>3, <1>13, <3>1, LastOnAppended
    <3>3. j # n + 1
      BY <1>4, <3>1
    <3>4. QED BY <1>4, <1>6, <1>13, <3>1, <3>2, <3>3
  <2>2. Left(j, v)' = Left(j, v)
    BY <1>7, <2>1
  <2>3. CASE k = n + 1
    BY <1>8, <1>11, <1>13, <2>1, <2>2, <2>3
  <2>4. CASE k # n + 1
    <3>1. k \in Active /\ k \in 1..n /\ v \in Restores(k)
      BY <1>4, <1>6, <1>12, <1>13, <2>4
    <3>2. Found(k, v) = Left(j, v)
      BY <2>1, <3>1 DEF HistInv, Chained
    <3>3. QED BY <1>7, <2>2, <3>1, <3>2
  <2>5. QED BY <2>3, <2>4
<1>14. ASSUME NEW k \in Active', NEW v \in Originals, <<v>> \in Restores(k)', NoneOn(<<v>>, k)'
       PROVE  Found(k, <<v>>)' = Content(SideOf[v])
  <2>1. PICK w : w = <<v>>
    OBVIOUS
  <2>2. k \in 1..n + 1 /\ NoneOn(w, k)
    <3>1. k \in 1..n + 1
      BY <1>4, <1>6, <1>14
    <3>2. QED BY <1>3, <1>14, <2>1, <3>1, LastOnAppended
  <2>3. CASE k = n + 1
    BY <1>8, <1>11, <1>14, <2>1, <2>2, <2>3
  <2>4. CASE k # n + 1
    <3>1. k \in Active /\ k \in 1..n /\ w \in Restores(k)
      BY <1>4, <1>6, <1>12, <1>14, <2>1, <2>4
    <3>2. Found(k, w) = Content(SideOf[v])
      BY <2>1, <2>2, <3>1 DEF HistInv, Chained
    <3>3. QED BY <1>7, <2>1, <3>1, <3>2
  <2>5. QED BY <2>3, <2>4
<1>15. Len(splices') + 1 = n + 2
  BY <1>4
<1>16. QED BY <1>9, <1>10, <1>13, <1>14, <1>15 DEF Chained

LEMMA ExtendsEmotes ==
  ASSUME SplicesAssumption, LockInv, HistInv, NEW sp, Extends(sp), Leaves(sp)
  PROVE  Emotes'
<1>1. PICK n : n = Len(splices)
  OBVIOUS
<1>2. IsSplice(sp) /\ ~sp.undone /\ Records(sp)
  BY DEF Extends
<1>3. Longer(n, sp)
  BY <1>1, <1>2, ExtendedTrails
<1>4. /\ n \in Nat /\ Active' = Active \cup {n + 1} /\ Active \subseteq 1..n
      /\ splices'[n + 1] = sp /\ \A k \in 1..n : splices'[k] = splices[k] /\ Len(splices') = n + 1
  BY <1>3 DEF Longer
<1>5. Len(splices') + 1 = n + 2 /\ n + 1 \in 1..n + 1
  BY <1>3 DEF Longer
<1>6. /\ \A v \in Originals : ~MergedInto(<<v>>, n + 1) => vods[<<v>>].emotes = {v}
      /\ \A v \in Originals : <<v>> \in Ids
  BY <1>1 DEF HistInv, Emotes, Placed, Firsts
<1>7. ASSUME NEW v \in Originals, ~MergedInto(<<v>>, n + 2)' PROVE vods'[<<v>>].emotes = {v}
  <2>1. PICK w : w = <<v>>
    OBVIOUS
  <2>2. (sp.kind = "merge" => w # sp.vod) /\ ~MergedInto(w, n + 1)
    <3>1. n + 1 \in Active' /\ n + 1 < n + 2
      BY <1>4
    <3>2. \A k \in Active : k \in Active' /\ splices'[k] = splices[k] /\ (k < n + 1 => k < n + 2)
      BY <1>4
    <3>3. ~MergedInto(w, n + 2)'
      BY <1>7, <2>1
    <3>4. QED BY <1>4, <3>1, <3>2, <3>3 DEF MergedInto
  <2>3. w \in Ids /\ vods[w].emotes = {v}
    BY <1>6, <2>1, <2>2
  <2>4. vods'[w].emotes = vods[w].emotes
    BY <2>2, <2>3 DEF Leaves
  <2>5. QED BY <2>1, <2>3, <2>4
<1>8. ASSUME NEW k \in Active', NEW v \in Originals, splices'[k].kind = "merge", splices'[k].vod = <<v>>,
             ~MergedInto(<<v>>, k)'
      PROVE  splices'[k].emotes = {v}
  <2>1. PICK w : w = <<v>>
    OBVIOUS
  <2>2. k \in 1..n + 1
    <3>1. k \in Active \/ k = n + 1
      BY <1>4, <1>8
    <3>2. \A j \in 1..n : j \in 1..n + 1
      BY <1>4
    <3>3. n + 1 \in 1..n + 1
      BY <1>5
    <3>4. k \in 1..n \/ k = n + 1
      BY <1>4, <3>1
    <3>5. QED BY <3>2, <3>3, <3>4
  <2>3. ~MergedInto(w, k)
    BY <1>3, <1>8, <2>1, <2>2, LastOnAppended
  <2>4. CASE k = n + 1
    <3>1. sp.emotes = vods[w].emotes
      BY <1>4, <1>8, <2>1, <2>4 DEF Leaves
    <3>2. QED BY <1>4, <1>6, <2>1, <2>3, <2>4, <3>1
  <2>5. CASE k # n + 1
    <3>1. k \in Active /\ splices'[k] = splices[k]
      BY <1>4, <1>8, <2>2, <2>5
    <3>2. \A u \in Originals : splices[k].kind = "merge" /\ splices[k].vod = <<u>> /\ ~MergedInto(<<u>>, k)
                                 => splices[k].emotes = {u}
      BY <3>1 DEF HistInv, Emotes
    <3>3. QED BY <1>8, <2>1, <2>3, <3>1, <3>2
  <2>6. QED BY <2>4, <2>5
<1>9. QED BY <1>5, <1>7, <1>8 DEF Emotes

LEMMA ExtendsHistory ==
  ASSUME SplicesAssumption, LockInv, HistInv, NEW sp, Extends(sp), Carries(sp), Leaves(sp)
  PROVE  HistInv'
BY ExtendsRooted, ExtendsRecorded, ExtendsPlaced, ExtendsChained, ExtendsEmotes DEF HistInv

----------------------------------------------------------------------------
(* A merge and a split do so.                                               *)

LEMMA PointingIs ==
  ASSUME SplicesAssumption, LockInv, HistInv, NEW v \in Ids, NEW w, NEW at
  PROVE  v \in Pointing(w, at) <=> Now(At(v)) # At(v) /\ Now(At(v)).vod = w /\ Now(At(v)).at >= at
<1>1. PICK p : p = Now(At(v))
  OBVIOUS
<1>2. /\ vods[v].merged = NoVod <=> p = At(v)
      /\ vods[v].merged # NoVod => vods[v].merged = [id |-> p.vod, offset |-> p.at]
  BY <1>1, MergedIs
<1>3. v \in Pointing(w, at) <=> /\ vods[v].merged # NoVod /\ vods[v].merged.id = w /\ vods[v].merged.offset >= at
  BY DEF Pointing
<1>4. QED BY <1>1, <1>2, <1>3

\* Where everything is now.
LEMMA PlacedFacts ==
  ASSUME HistInv
  PROVE  /\ \A c \in Comments : chat[c] = Now(FirstAt(c))
         /\ \A g \in Games : games[g] = [vod |-> Now(Played(g)).vod, start |-> Now(Played(g)).at,
                                         end |-> Now(Played(g)).at + GameAt[g].end - GameAt[g].start]
BY Zenon DEF HistInv, Placed

LEMMA MergeExtends ==
  ASSUME SplicesAssumption, LockInv, HistInv, NEW c \in Callers, MergeCommits(c)
  PROVE  \E sp : Extends(sp) /\ Carries(sp) /\ Leaves(sp)
<1>1. PICK a, b, offset : a = call[c].a /\ b = call[c].b /\ offset = call[c].offset
  OBVIOUS
<1>2. MergeWrites(c, a, b, offset)
  BY <1>1, MergeDoes
<1>3. PICK sp :
        /\ IsSplice(sp) /\ ~sp.undone /\ sp.kind = "merge" /\ sp.vod = a /\ sp.other = b /\ sp.offset = offset
        /\ sp.members = CommentsOf(b) /\ sp.games = GamesOf(b)
        /\ sp.target = Fields(vods[a]) /\ sp.source = Fields(vods[b]) /\ sp.emotes = vods[a].emotes
        /\ sp.repointed = OldPoints(Pointing(b, 0))
        /\ \A v \in {a, b} : sp.result[v] = Editable(vods'[v])
        /\ splices' = Append(splices, sp)
  BY <1>2 DEF MergeWrites
<1>4. Records(sp)
  BY <1>3 DEF Records
<1>5. /\ a \in Ids /\ b \in Ids /\ a # b /\ offset \in Nat /\ Ids' = Ids
      /\ vods[a].merged = NoVod /\ vods[b].merged = NoVod
  BY <1>2 DEF MergeWrites
<1>6. Now(At(a)) = At(a) /\ Now(At(b)) = At(b) /\ At(a).vod = a /\ At(b).vod = b /\ At(b).at = 0
  BY <1>5, MergedIs DEF At
<1>7. \A p : (Moves(sp, p) <=> p.vod = b) /\ Step(sp, p) = IF p.vod = b THEN [vod |-> a, at |-> p.at + offset] ELSE p
  BY <1>3 DEF Moves, Step, Landing
<1>8. ASSUME NEW v \in Ids
      PROVE  /\ v \in Pointing(b, 0) <=> v \notin {a, b} /\ Now(At(v)).vod = b
             /\ v \in Pointing(b, 0) => vods[v].merged = [id |-> Now(At(v)).vod, offset |-> Now(At(v)).at]
  <2>1. PICK p : p = Now(At(v))
    OBVIOUS
  <2>2. /\ vods[v].merged = NoVod <=> p = At(v)
        /\ vods[v].merged # NoVod => vods[v].merged = [id |-> p.vod, offset |-> p.at]
        /\ p.vod = v <=> p = At(v)
        /\ IsPlace(p)
    BY <2>1, MergedIs
  <2>3. v \in Pointing(b, 0) <=> p # At(v) /\ p.vod = b /\ p.at >= 0
    BY <2>1, PointingIs
  <2>4. p.at \in Nat
    BY <2>2 DEF IsPlace
  <2>5. v = a => p = At(v)
    BY <1>6, <2>1
  <2>6. v = b => p = At(v)
    BY <1>6, <2>1
  <2>7. QED BY <2>1, <2>2, <2>3, <2>4, <2>5, <2>6
<1>9. Extends(sp)
  <2> DEFINE S == {w \in Ids \ Ends(sp) : Moves(sp, Now(At(w)))}
  <2>1. Pointing(b, 0) = S
    <3>1. Pointing(b, 0) \subseteq Ids
      BY DEF Pointing
    <3>2. Ends(sp) = {a, b}
      BY <1>3 DEF Ends
    <3>3. QED BY <1>7, <1>8, <3>1, <3>2
  <2>2. \A v \in S : vods[v].merged = [id |-> Now(At(v)).vod, offset |-> Now(At(v)).at]
    BY <1>8, <2>1
  <2> HIDE DEF S
  <2>3. sp.repointed = [v \in S |-> vods[v].merged]
    BY <1>3, <2>1 DEF OldPoints
  <2>4. sp.repointed = [v \in S |-> [id |-> Now(At(v)).vod, offset |-> Now(At(v)).at]]
    BY <2>2, <2>3
  <2>5. sp.members = {m \in Comments : Moves(sp, Now(FirstAt(m)))}
    BY <1>3, <1>7, PlacedFacts DEF CommentsOf
  <2>6. sp.games = {g \in Games : Moves(sp, Now(Played(g)))}
    <3>1. ASSUME NEW g \in Games PROVE games[g].vod = Now(Played(g)).vod
      <4>1. PICK p : p = Now(Played(g))
        OBVIOUS
      <4>2. games[g] = [vod |-> p.vod, start |-> p.at, end |-> p.at + GameAt[g].end - GameAt[g].start]
        BY <4>1, PlacedFacts
      <4>3. QED BY <4>1, <4>2
    <3>2. QED BY <1>3, <1>7, <3>1 DEF GamesOf
  <2>7. QED BY <1>3, <1>4, <1>5, <1>6, <2>4, <2>5, <2>6 DEF Extends, S
<1>10. Carries(sp)
  <2>1. ASSUME NEW m \in Comments PROVE chat'[m] = Step(sp, Now(FirstAt(m)))
    <3>1. chat' = MovedChat(a, offset, CommentsOf(b))
      BY <1>2 DEF MergeWrites
    <3>2. chat'[m] = IF chat[m].vod = b THEN [vod |-> a, at |-> chat[m].at + offset] ELSE chat[m]
      BY <3>1 DEF MovedChat, CommentsOf
    <3>3. chat[m] = Now(FirstAt(m))
      BY PlacedFacts
    <3>4. QED BY <1>7, <3>2, <3>3
  <2>2. ASSUME NEW g \in Games
        PROVE  games'[g] = [vod |-> Step(sp, Now(Played(g))).vod, start |-> Step(sp, Now(Played(g))).at,
                            end |-> Step(sp, Now(Played(g))).at + GameAt[g].end - GameAt[g].start]
    <3>1. games' = MovedGames(a, offset, GamesOf(b))
      BY <1>2 DEF MergeWrites
    <3>2. games'[g] = IF games[g].vod = b
                      THEN [vod |-> a, start |-> games[g].start + offset, end |-> games[g].end + offset] ELSE games[g]
      BY <3>1 DEF MovedGames, GamesOf
    <3>3. PICK p : p = Now(Played(g))
      OBVIOUS
    <3>4. p.at \in Nat /\ GameAt[g].start \in Nat /\ GameAt[g].end \in Nat
      BY <3>3, ThingsAreSomewhere, NowIsPlace DEF IsPlace
    <3>5. games[g] = [vod |-> p.vod, start |-> p.at, end |-> p.at + GameAt[g].end - GameAt[g].start]
      BY <3>3, PlacedFacts
    <3>6. Step(sp, p) = IF p.vod = b THEN [vod |-> a, at |-> p.at + offset] ELSE p
      BY <1>7
    <3>7. QED BY <1>5, <3>2, <3>3, <3>4, <3>5, <3>6
  <2>3. ASSUME NEW v \in Ids'
        PROVE  vods'[v].merged = IF Step(sp, Now(At(v))).vod = v THEN NoVod
                                 ELSE [id |-> Step(sp, Now(At(v))).vod, offset |-> Step(sp, Now(At(v))).at]
    <3>1. PICK p : p = Now(At(v))
      OBVIOUS
    <3>2. v \in Ids
      BY <1>5
    <3>3. /\ v = b => vods'[v].merged = [id |-> a, offset |-> offset]
          /\ v \in Pointing(b, 0) => vods'[v].merged = [id |-> a, offset |-> vods[v].merged.offset + offset]
          /\ v # b /\ v \notin Pointing(b, 0) => vods'[v].merged = vods[v].merged
      BY <1>2, <3>2 DEF MergeWrites
    <3>4. /\ v \in Pointing(b, 0) <=> v \notin {a, b} /\ p.vod = b
          /\ v \in Pointing(b, 0) => vods[v].merged = [id |-> p.vod, offset |-> p.at]
      BY <1>8, <3>1, <3>2
    <3>5. Step(sp, p) = IF p.vod = b THEN [vod |-> a, at |-> p.at + offset] ELSE p
      BY <1>7
    <3>6. vods[v].merged = IF p.vod = v THEN NoVod ELSE [id |-> p.vod, offset |-> p.at]
      BY <3>1, <3>2, Zenon DEF HistInv, Placed
    <3>7. v = a => p.vod = a
      BY <1>6, <3>1
    <3>8. v = b => p.vod = b /\ p.at = 0
      BY <1>6, <3>1
    <3>9. QED BY <1>5, <3>1, <3>3, <3>4, <3>5, <3>6, <3>7, <3>8
  <2>4. QED BY <2>1, <2>2, <2>3 DEF Carries
<1>11. Leaves(sp)
  BY <1>2, <1>3 DEF MergeWrites, Leaves, Ends
<1>12. QED BY <1>9, <1>10, <1>11

LEMMA SplitExtends ==
  ASSUME SplicesAssumption, LockInv, HistInv, NEW c \in Callers, SplitCommits(c)
  PROVE  \E sp : Extends(sp) /\ Carries(sp) /\ Leaves(sp)
<1>1. PICK a, at, new : a = call[c].a /\ at = call[c].at /\ new = FreeId(a)
  OBVIOUS
<1>2. SplitWrites(c, a, at, new)
  BY <1>1, SplitDoes
<1>3. PICK sp :
        /\ IsSplice(sp) /\ ~sp.undone /\ sp.kind = "split" /\ sp.vod = a /\ sp.other = new /\ sp.offset = at
        /\ sp.target = Fields(vods[a]) /\ sp.repointed = OldPoints(Pointing(a, at))
        /\ \A v \in {a, new} : sp.result[v] = Editable(vods'[v])
        /\ splices' = Append(splices, sp)
  BY <1>2 DEF SplitWrites
<1>4. Records(sp)
  BY <1>3 DEF Records
<1>5. /\ a \in Ids /\ new \notin Ids /\ new \in Seq(Int) /\ new # a /\ at \in Nat /\ 0 < at /\ Ids' = Ids \cup {new}
      /\ vods[a].merged = NoVod
  BY <1>2 DEF SplitWrites
<1>6. Now(At(a)) = At(a) /\ Now(At(new)) = At(new) /\ At(a).vod = a /\ At(a).at = 0 /\ At(new).vod = new
  BY <1>5, MergedIs, NewStays DEF At
<1>7. \A p : /\ Moves(sp, p) <=> p.vod = a /\ p.at >= at
             /\ Step(sp, p) = IF p.vod = a /\ p.at >= at THEN [vod |-> new, at |-> p.at - at] ELSE p
  BY <1>3 DEF Moves, Step, Landing
<1>8. ASSUME NEW v \in Ids
      PROVE  /\ v \in Pointing(a, at) <=> v # a /\ Now(At(v)).vod = a /\ Now(At(v)).at >= at
             /\ v \in Pointing(a, at) => vods[v].merged = [id |-> Now(At(v)).vod, offset |-> Now(At(v)).at]
  <2>1. PICK p : p = Now(At(v))
    OBVIOUS
  <2>2. /\ vods[v].merged = NoVod <=> p = At(v)
        /\ vods[v].merged # NoVod => vods[v].merged = [id |-> p.vod, offset |-> p.at]
        /\ p.vod = v <=> p = At(v)
    BY <2>1, MergedIs
  <2>3. v \in Pointing(a, at) <=> p # At(v) /\ p.vod = a /\ p.at >= at
    BY <2>1, PointingIs
  <2>4. QED BY <2>1, <2>2, <2>3
<1>9. Extends(sp)
  <2> DEFINE S == {w \in Ids \ Ends(sp) : Moves(sp, Now(At(w)))}
  <2>1. Pointing(a, at) = S
    <3>1. Pointing(a, at) \subseteq Ids
      BY DEF Pointing
    <3>2. Ends(sp) = {a, new}
      BY <1>3 DEF Ends
    <3>3. \A w \in Ids : w # new
      BY <1>5
    <3>4. QED BY <1>7, <1>8, <3>1, <3>2, <3>3
  <2>2. \A v \in S : vods[v].merged = [id |-> Now(At(v)).vod, offset |-> Now(At(v)).at]
    BY <1>8, <2>1
  <2> HIDE DEF S
  <2>3. sp.repointed = [v \in S |-> vods[v].merged]
    BY <1>3, <2>1 DEF OldPoints
  <2>4. sp.repointed = [v \in S |-> [id |-> Now(At(v)).vod, offset |-> Now(At(v)).at]]
    BY <2>2, <2>3
  <2>5. QED BY <1>3, <1>4, <1>5, <1>6, <2>4 DEF Extends, S
<1>10. Carries(sp)
  <2>1. ASSUME NEW m \in Comments PROVE chat'[m] = Step(sp, Now(FirstAt(m)))
    <3>1. chat' = MovedChat(new, -at, {o \in CommentsOf(a) : chat[o].at >= at})
      BY <1>2 DEF SplitWrites
    <3>2. chat'[m] = IF chat[m].vod = a /\ chat[m].at >= at THEN [vod |-> new, at |-> chat[m].at + -at] ELSE chat[m]
      BY <3>1 DEF MovedChat, CommentsOf
    <3>3. PICK p : p = Now(FirstAt(m))
      OBVIOUS
    <3>4. p.at \in Nat /\ chat[m] = p
      BY <3>3, PlacedFacts, ThingsAreSomewhere, NowIsPlace DEF IsPlace
    <3>5. Step(sp, p) = IF p.vod = a /\ p.at >= at THEN [vod |-> new, at |-> p.at - at] ELSE p
      BY <1>7
    <3>6. QED BY <1>5, <3>2, <3>3, <3>4, <3>5
  <2>2. ASSUME NEW g \in Games
        PROVE  games'[g] = [vod |-> Step(sp, Now(Played(g))).vod, start |-> Step(sp, Now(Played(g))).at,
                            end |-> Step(sp, Now(Played(g))).at + GameAt[g].end - GameAt[g].start]
    <3>1. games' = MovedGames(new, -at, GamesFrom(a, at))
      BY <1>2 DEF SplitWrites
    <3>2. games'[g] = IF games[g].vod = a /\ games[g].start >= at
                      THEN [vod |-> new, start |-> games[g].start + -at, end |-> games[g].end + -at] ELSE games[g]
      BY <3>1 DEF MovedGames, GamesFrom, GamesOf
    <3>3. PICK p : p = Now(Played(g))
      OBVIOUS
    <3>4. p.at \in Nat /\ GameAt[g].start \in Nat /\ GameAt[g].end \in Nat
      BY <3>3, ThingsAreSomewhere, NowIsPlace DEF IsPlace
    <3>5. games[g] = [vod |-> p.vod, start |-> p.at, end |-> p.at + GameAt[g].end - GameAt[g].start]
      BY <3>3, PlacedFacts
    <3>6. Step(sp, p) = IF p.vod = a /\ p.at >= at THEN [vod |-> new, at |-> p.at - at] ELSE p
      BY <1>7
    <3>7. PICK q : q = Step(sp, p)
      OBVIOUS
    <3>8. games[g].vod = p.vod /\ games[g].start = p.at /\ games[g].end = p.at + GameAt[g].end - GameAt[g].start
      BY <3>5
    <3>9. games'[g] = [vod |-> q.vod, start |-> q.at, end |-> q.at + GameAt[g].end - GameAt[g].start]
      <4>1. CASE p.vod = a /\ p.at >= at
        <5>1. q.vod = new /\ q.at = p.at - at
          BY <3>6, <3>7, <4>1
        <5>2. games'[g] = [vod |-> new, start |-> games[g].start + -at, end |-> games[g].end + -at]
          BY <3>2, <3>8, <4>1
        <5>3. /\ p.at + -at = p.at - at
              /\ (p.at + GameAt[g].end - GameAt[g].start) + -at = (p.at - at) + GameAt[g].end - GameAt[g].start
          BY <1>5, <3>4
        <5>4. QED BY <3>8, <5>1, <5>2, <5>3
      <4>2. CASE ~(p.vod = a /\ p.at >= at)
        BY <3>2, <3>5, <3>6, <3>7, <3>8, <4>2
      <4>3. QED BY <4>1, <4>2
    <3>10. QED BY <3>3, <3>7, <3>9
  <2>3. ASSUME NEW v \in Ids'
        PROVE  vods'[v].merged = IF Step(sp, Now(At(v))).vod = v THEN NoVod
                                 ELSE [id |-> Step(sp, Now(At(v))).vod, offset |-> Step(sp, Now(At(v))).at]
    <3>1. PICK p : p = Now(At(v))
      OBVIOUS
    <3>2. Step(sp, p) = IF p.vod = a /\ p.at >= at THEN [vod |-> new, at |-> p.at - at] ELSE p
      BY <1>7
    <3>3. CASE v = new
      <4>1. vods'[new].merged = NoVod
        BY <1>2 DEF SplitWrites
      <4>2. QED BY <1>5, <1>6, <3>1, <3>2, <3>3, <4>1
    <3>4. CASE v # new
      <4>1. v \in Ids
        BY <1>5, <3>4
      <4>2. /\ v \in Pointing(a, at) => vods'[v].merged = [id |-> new, offset |-> vods[v].merged.offset + -at]
            /\ v \notin Pointing(a, at) => vods'[v].merged = vods[v].merged
        BY <1>2, <4>1 DEF SplitWrites
      <4>3. /\ v \in Pointing(a, at) <=> v # a /\ p.vod = a /\ p.at >= at
            /\ v \in Pointing(a, at) => vods[v].merged = [id |-> p.vod, offset |-> p.at]
        BY <1>8, <3>1, <4>1
      <4>4. vods[v].merged = IF p.vod = v THEN NoVod ELSE [id |-> p.vod, offset |-> p.at]
        BY <3>1, <4>1, Zenon DEF HistInv, Placed
      <4>5. p.at \in Nat
        BY <3>1, <4>1, MergedIs DEF IsPlace
      <4>6. v = a => p.at = 0
        BY <1>6, <3>1
      <4>7. CASE v \in Pointing(a, at)
        BY <1>5, <3>1, <3>2, <3>4, <4>2, <4>3, <4>5, <4>7
      <4>8. CASE v \notin Pointing(a, at)
        <5>1. Step(sp, p) = p
          BY <1>5, <3>2, <4>3, <4>5, <4>6, <4>8
        <5>2. QED BY <3>1, <4>2, <4>4, <4>8, <5>1
      <4>9. QED BY <4>7, <4>8
    <3>5. QED BY <3>3, <3>4
  <2>4. QED BY <2>1, <2>2, <2>3 DEF Carries
<1>11. Leaves(sp)
  BY <1>2, <1>3 DEF SplitWrites, Leaves, Ends
<1>12. QED BY <1>9, <1>10, <1>11

----------------------------------------------------------------------------
(* An undo takes back what the splice moved.                                *)

\* Every trail is as it was, but a step shorter where the undone splice moved it.
Shorter(k, sp, n) ==
  /\ n \in Nat /\ Len(splices) = n /\ Len(splices') = n /\ k \in 1..n /\ k \in Active /\ sp = splices[k]
  /\ IsSplice(sp) /\ Touched(k) = Ends(sp) /\ Active \subseteq 1..n /\ Active' = Active \ {k}
  /\ \A m \in Active' : splices'[m] = splices[m] /\ Touched(m)' = Touched(m)
  /\ \A m \in Active : m > k => Touched(m) \cap Ends(sp) = {}
  /\ AreSplices(splices')
Backs(k, sp, n) ==
  /\ \A p : IsPlace(p) => \A j \in 1..k : Before(j, p)' = Before(j, p)
  /\ \A p : IsPlace(p) /\ ~Moves(sp, Before(k, p)) => /\ Now(p)' = Now(p)
                                                      /\ \A j \in 1..n : Before(j, p)' = Before(j, p)
  /\ \A p : IsPlace(p) /\ Moves(sp, Before(k, p)) => /\ Now(p) = Landing(sp, Before(k, p))
                                                     /\ Now(p)' = Before(k, p)
  /\ \A p : IsPlace(p) /\ Moves(sp, Before(k, p)) =>
       \A j \in 1..n : j > k => Before(j, p) = Landing(sp, Before(k, p)) /\ Before(j, p)' = Before(k, p)

LEMMA UndoShortens ==
  ASSUME LockInv, UndoesOnce, NEW c \in Callers, NEW k, NEW sp, NEW force, UndoWrites(c, k, sp, force),
         k = call[c].splice, sp = splices[k], NEW n, n = Len(splices)
  PROVE  Shorter(k, sp, n)
<1>1. /\ k \in 1..n /\ IsSplice(sp) /\ Touched(k) = {sp.vod, sp.other} /\ ~Blocked(k)
      /\ AreSplices(splices') /\ Len(splices') = n /\ splices'[k].undone
      /\ call[c] # NoCall /\ call[c].op = "undo" /\ call[c].pc = "locked"
  BY DEF UndoWrites
<1>2. \A j \in 1..n : j # k => splices'[j] = splices[j]
  BY DEF UndoWrites
<1>3. ~sp.undone
  BY <1>1 DEF UndoesOnce
<1>4. n \in Nat /\ DOMAIN splices = 1..n
  BY SplicesFacts
<1>5. DOMAIN splices' = 1..n
  BY <1>1, AreSplicesFacts
<1>6. k \in Active /\ Active \subseteq 1..n /\ Active' = Active \ {k}
  BY <1>1, <1>2, <1>3, <1>4, <1>5 DEF Active
<1>7. \A m \in Active' : splices'[m] = splices[m] /\ Touched(m)' = Touched(m)
  BY <1>2, <1>6 DEF Touched
<1>8. \A m \in Active : m > k => Touched(m) \cap Touched(k) = {}
  BY <1>1 DEF Blocked
<1>9. Touched(k) = Ends(sp)
  BY <1>1 DEF Ends
<1>10. QED BY <1>1, <1>4, <1>6, <1>7, <1>8, <1>9 DEF Shorter

LEMMA UndoneTrails ==
  ASSUME LockInv, NEW k, NEW sp, NEW n, Shorter(k, sp, n), splices'[k].undone,
         \A j \in 1..n : j # k => splices'[j] = splices[j]
  PROVE  Backs(k, sp, n)
<1>1. PICK s, t : s = splices /\ t = splices'
  OBVIOUS
<1>2. /\ AreSplices(s) /\ n \in Nat /\ Len(s) = n /\ Active = Live(s)
      /\ \A m \in 1..n : Touched(m) = Ends(s[m])
  BY <1>1, SplicesFacts DEF Shorter
<1>3. k \in Live(s) /\ k \in 1..n /\ sp = s[k] /\ Len(t) = n /\ AreSplices(t) /\ t[k].undone
  BY <1>1, <1>2 DEF Shorter
<1>4. \A j \in 1..n : j # k => t[j] = s[j]
  BY <1>1
<1>5. \A m \in Live(s) : m > k => Ends(s[m]) \cap Ends(s[k]) = {}
  BY <1>2, <1>3 DEF Shorter, Live
<1>6. ASSUME NEW p, IsPlace(p)
      PROVE  /\ \A j \in 0..k - 1 : Trail(t, p)[j] = Trail(s, p)[j]
             /\ ~Moves(s[k], Trail(s, p)[k - 1]) => \A j \in 0..n : Trail(t, p)[j] = Trail(s, p)[j]
             /\ Moves(s[k], Trail(s, p)[k - 1]) =>
                  \A j \in k..n : /\ Trail(s, p)[j] = Landing(s[k], Trail(s, p)[k - 1])
                                  /\ Trail(t, p)[j] = Trail(s, p)[k - 1]
  <2>1. Len(t) = Len(s) /\ \A j \in 1..Len(s) : j # k => t[j] = s[j]
    BY <1>2, <1>3, <1>4
  <2>2. UndoneAt(s, k, t)
    BY <1>2, <1>3, <1>5, <2>1 DEF UndoneAt
  <2>3. /\ \A j \in 0..k - 1 : Trail(t, p)[j] = Trail(s, p)[j]
        /\ ~Moves(s[k], Trail(s, p)[k - 1]) => \A j \in 0..Len(s) : Trail(t, p)[j] = Trail(s, p)[j]
        /\ Moves(s[k], Trail(s, p)[k - 1]) =>
             \A j \in k..Len(s) : /\ Trail(s, p)[j] = Landing(s[k], Trail(s, p)[k - 1])
                                  /\ Trail(t, p)[j] = Trail(s, p)[k - 1]
    BY <1>6, <2>2, TrailUndone
  <2>4. QED BY <1>2, <2>3
<1>7. \A j, p : Before(j, p)' = Trail(t, p)[j - 1] /\ Before(j, p) = Trail(s, p)[j - 1]
  BY <1>1 DEF Before
<1>8. \A p : Now(p)' = Trail(t, p)[n] /\ Now(p) = Trail(s, p)[n]
  BY <1>1, <1>2, <1>3 DEF Now
<1>9. /\ n \in 0..n /\ n \in k..n /\ \A j \in 1..n : j - 1 \in 0..n
      /\ \A j \in 1..n : j > k => j - 1 \in k..n
      /\ \A j \in 1..k : j - 1 \in 0..k - 1
  BY <1>2, <1>3
<1>10. ASSUME NEW p, IsPlace(p), NEW j \in 1..k PROVE Before(j, p)' = Before(j, p)
  BY <1>6, <1>7, <1>9, <1>10
<1>11. ASSUME NEW p, IsPlace(p), ~Moves(sp, Before(k, p))
       PROVE  Now(p)' = Now(p) /\ \A j \in 1..n : Before(j, p)' = Before(j, p)
  <2>1. \A j \in 0..n : Trail(t, p)[j] = Trail(s, p)[j]
    BY <1>3, <1>6, <1>7, <1>11
  <2>2. QED BY <1>7, <1>8, <1>9, <2>1
<1>12. ASSUME NEW p, IsPlace(p), Moves(sp, Before(k, p))
       PROVE  /\ Now(p) = Landing(sp, Before(k, p)) /\ Now(p)' = Before(k, p)
              /\ \A j \in 1..n : j > k => Before(j, p) = Landing(sp, Before(k, p)) /\ Before(j, p)' = Before(k, p)
  <2>1. \A j \in k..n : Trail(s, p)[j] = Landing(sp, Before(k, p)) /\ Trail(t, p)[j] = Before(k, p)
    BY <1>3, <1>6, <1>7, <1>12
  <2>2. QED BY <1>7, <1>8, <1>9, <2>1
<1>13. QED BY <1>10, <1>11, <1>12 DEF Backs

\* What another splice moved is where it found it.
LEMMA OthersMove ==
  ASSUME LockInv, NEW k, NEW sp, NEW n, Shorter(k, sp, n), Backs(k, sp, n), NEW m \in Active', NEW p, IsPlace(p)
  PROVE  /\ Moves(splices[m], Before(m, p)') <=> Moves(splices[m], Before(m, p))
         /\ Moves(splices[m], Before(m, p)) => Before(m, p)' = Before(m, p)
<1>1. /\ m \in Active /\ m \in 1..n /\ m # k /\ k \in 1..n /\ n \in Nat /\ IsSplice(sp) /\ Len(splices) = n
      /\ m > k => Touched(m) \cap Ends(sp) = {}
  BY DEF Shorter
<1>2. IsSplice(splices[m]) /\ Touched(m) = Ends(splices[m])
  BY <1>1, SplicesFacts
<1>3. PICK b : b = Before(k, p)
  OBVIOUS
<1>4. IsPlace(b) /\ IsPlace(Before(m, p))
  BY <1>1, <1>3, NowIsPlace
<1>5. CASE m < k
  <2>1. m \in 1..k
    BY <1>1, <1>5
  <2>2. Before(m, p)' = Before(m, p)
    BY <2>1 DEF Backs
  <2>3. QED BY <2>2
<1>6. CASE m > k /\ ~Moves(sp, b)
  <2>1. Before(m, p)' = Before(m, p)
    BY <1>1, <1>3, <1>6 DEF Backs
  <2>2. QED BY <2>1
<1>7. CASE m > k /\ Moves(sp, b)
  <2>1. Before(m, p) = Landing(sp, b) /\ Before(m, p)' = b
    BY <1>1, <1>3, <1>7 DEF Backs
  <2>2. b.vod \in Ends(sp) /\ Landing(sp, b).vod \in Ends(sp)
    BY <1>1, <1>4, <1>7, StepPlace
  <2>3. b.vod \notin Ends(splices[m]) /\ Landing(sp, b).vod \notin Ends(splices[m])
    BY <1>1, <1>2, <1>7, <2>2
  <2>4. ~Moves(splices[m], b)
    BY <1>2, <1>4, <2>3, StepPlace
  <2>5. ~Moves(splices[m], Before(m, p))
    BY <1>2, <1>4, <2>1, <2>3, StepPlace
  <2>6. QED BY <2>1, <2>4, <2>5
<1>8. m < k \/ m > k
  BY <1>1
<1>9. QED BY <1>3, <1>5, <1>6, <1>7, <1>8

Undoes(k, sp, n) ==
  /\ Shorter(k, sp, n) /\ Backs(k, sp, n)
  /\ Ids' = IF sp.kind = "merge" THEN Ids ELSE Ids \ {sp.other}

\* No other splice has to do with the half of a split that is undone.
LEMMA HalfStays ==
  ASSUME LockInv, HistInv, NEW k, NEW sp, NEW n, Undoes(k, sp, n), sp.kind = "split"
  PROVE  \A m \in Active' : sp.other \notin Touched(m) /\ ~Moves(splices[m], Before(m, At(sp.other)))
<1>1. /\ Active' \subseteq Active /\ Active \subseteq 1..n /\ k \in Active /\ k \notin Active' /\ k \in Nat /\ sp = splices[k]
      /\ n \in Nat /\ Len(splices) = n /\ AreSplices(splices') /\ Len(splices') = n
  BY DEF Undoes, Shorter
<1>2. \A m \in Active' : splices'[m] = splices[m]
  BY DEF Undoes, Shorter
<1>3. PICK h : h = sp.other
  OBVIOUS
<1>4. h \in Seq(Int) /\ h \in Ends(sp)
  BY <1>3 DEF Undoes, Shorter, IsSplice, Ends
<1>5. IsPlace(At(h)) /\ At(h).vod = h
  BY <1>4, AtIsPlace
<1>6. ASSUME NEW m \in Active' PROVE h \notin Touched(m)
  <2>1. m < k \/ m > k
    BY <1>1
  <2>2. CASE m < k
    <3>1. Rooted(k)
      BY <1>1 DEF HistInv
    <3>2. QED BY <1>1, <1>3, <2>2, <3>1 DEF Rooted
  <2>3. CASE m > k
    BY <1>1, <1>4, <2>3 DEF Undoes, Shorter
  <2>4. QED BY <2>1, <2>2, <2>3
<1>7. PICK t : t = splices'
  OBVIOUS
<1>8. Live(t) = Active'
  BY <1>1, <1>7, AreSplicesFacts DEF Live, Active
<1>9. \A m \in Active' : IsSplice(splices[m]) /\ Touched(m) = Ends(splices[m]) /\ t[m] = splices[m]
  BY <1>1, <1>2, <1>7, SplicesFacts
<1>10. Trail(t, At(h))[0] = At(h)
  BY <1>1, <1>7, TrailSteps
<1>11. ASSUME NEW m \in Active' PROVE ~Moves(splices[m], Before(m, At(h)))
  <2>1. m \in 1..n /\ m - 1 \in Nat /\ 0 <= m - 1 /\ m - 1 <= n /\ 0 \in Nat
    BY <1>1
  <2>2. \A j \in Live(t) : 0 < j /\ j <= m - 1 => Trail(t, At(h))[0].vod \notin Ends(t[j])
    BY <1>5, <1>6, <1>8, <1>9, <1>10
  <2>3. Trail(t, At(h))[m - 1] = Trail(t, At(h))[0]
    BY <1>1, <1>5, <1>7, <2>1, <2>2, TrailStays
  <2>4. Before(m, At(h))' = At(h)
    BY <1>7, <1>10, <2>3 DEF Before
  <2>5. ~Moves(splices[m], At(h))
    BY <1>5, <1>6, <1>9, StepPlace
  <2>6. Moves(splices[m], Before(m, At(h))') <=> Moves(splices[m], Before(m, At(h)))
    BY <1>5, OthersMove DEF Undoes
  <2>7. QED BY <2>4, <2>5, <2>6
<1>12. QED BY <1>3, <1>6, <1>11

LEMMA UndoneRooted ==
  ASSUME LockInv, HistInv, NEW k, NEW sp, NEW n, Undoes(k, sp, n)
  PROVE  \A m \in Active' : Rooted(m)'
<1>1. /\ Active' \subseteq Active /\ Active \subseteq 1..n /\ k \in Active /\ k \notin Active' /\ k \in 1..n /\ sp = splices[k]
      /\ IsSplice(sp) /\ n \in Nat /\ Len(splices) = n /\ sp.kind \in {"merge", "split"}
  BY DEF Undoes, Shorter, IsSplice
<1>2. \A m \in Active' : splices'[m] = splices[m] /\ Touched(m)' = Touched(m)
  BY DEF Undoes, Shorter
<1>3. ASSUME NEW m \in Active' PROVE Touched(m)' \subseteq Ids'
  <2>1. Touched(m) \subseteq Ids
    BY <1>1 DEF HistInv, Rooted
  <2>2. CASE sp.kind = "merge"
    BY <1>2, <2>1, <2>2 DEF Undoes
  <2>3. CASE sp.kind = "split"
    <3>1. sp.other \notin Touched(m)
      BY <2>3, HalfStays
    <3>2. Ids' = Ids \ {sp.other}
      BY <2>3 DEF Undoes
    <3>3. QED BY <1>2, <2>1, <3>1, <3>2
  <2>4. QED BY <1>1, <2>2, <2>3
<1>4. ASSUME NEW m \in Active', NEW v \in Touched(m)' PROVE Before(m, At(v))' = At(v)
  <2>1. v \in Touched(m) /\ m \in Active /\ m \in 1..n /\ m # k
    BY <1>1, <1>2, <1>4
  <2>2. Before(m, At(v)) = At(v) /\ v \in Ids
    BY <2>1 DEF HistInv, Rooted
  <2>3. IsPlace(At(v)) /\ At(v).vod = v
    BY <2>2, AtIsPlace DEF LockInv, RowsOK
  <2>4. CASE m < k
    <3>1. m \in 1..k
      BY <1>1, <2>1, <2>4
    <3>2. Before(m, At(v))' = Before(m, At(v))
      BY <2>3, <3>1 DEF Undoes, Backs
    <3>3. QED BY <2>2, <3>2
  <2>5. CASE m > k /\ ~Moves(sp, Before(k, At(v)))
    <3>1. Before(m, At(v))' = Before(m, At(v))
      BY <2>1, <2>3, <2>5 DEF Undoes, Backs
    <3>2. QED BY <2>2, <3>1
  <2>6. CASE m > k /\ Moves(sp, Before(k, At(v)))
    <3>1. PICK b : b = Before(k, At(v))
      OBVIOUS
    <3>2. IsPlace(b)
      BY <1>1, <2>3, <3>1, NowIsPlace
    <3>3. Before(m, At(v)) = Landing(sp, b)
      BY <2>1, <2>3, <2>6, <3>1 DEF Undoes, Backs
    <3>4. Landing(sp, b).vod \in Ends(sp)
      BY <1>1, <2>6, <3>1, <3>2, StepPlace
    <3>5. v \in Ends(sp)
      BY <2>2, <2>3, <3>3, <3>4
    <3>6. Touched(m) \cap Ends(sp) = {}
      BY <2>1, <2>6 DEF Undoes, Shorter
    <3>7. QED BY <2>1, <3>5, <3>6
  <2>7. m < k \/ m > k
    BY <1>1, <2>1
  <2>8. QED BY <2>4, <2>5, <2>6, <2>7
<1>5. ASSUME NEW m \in Active', splices'[m].kind = "split"
      PROVE  /\ splices'[m].other \notin Firsts
             /\ \A j \in Active' : j < m => splices'[m].other \notin Touched(j)'
  <2>1. /\ splices[m].other \notin Firsts
        /\ \A j \in Active : j < m => splices[m].other \notin Touched(j)
    BY <1>1, <1>2, <1>5 DEF HistInv, Rooted
  <2>2. QED BY <1>1, <1>2, <2>1
<1>6. QED BY <1>3, <1>4, <1>5 DEF Rooted

LEMMA UndoneRecorded ==
  ASSUME LockInv, HistInv, SplicesAssumption, NEW k, NEW sp, NEW n, Undoes(k, sp, n)
  PROVE  \A m \in Active' : Recorded(m)'
<1>1. Active' \subseteq Active /\ sp.kind \in {"merge", "split"} /\ (sp.kind = "split" => sp.other \in Seq(Int))
  BY DEF Undoes, Shorter, IsSplice
<1>2. \A m \in Active' : splices'[m] = splices[m] /\ Touched(m)' = Touched(m)
  BY DEF Undoes, Shorter
<1>3. ASSUME NEW m \in Active' PROVE Recorded(m)'
  <2> DEFINE S == {w \in Ids \ Touched(m) : Moves(splices[m], Before(m, At(w)))}
             T == {w \in Ids' \ Touched(m)' : Moves(splices'[m], Before(m, At(w))')}
  <2>1. Recorded(m)
    BY <1>1 DEF HistInv
  <2>2. ASSUME NEW p, IsPlace(p)
        PROVE  /\ Moves(splices[m], Before(m, p)') <=> Moves(splices[m], Before(m, p))
               /\ Moves(splices[m], Before(m, p)) => Before(m, p)' = Before(m, p)
    BY <2>2, OthersMove DEF Undoes
  <2>3. \A w \in Ids : IsPlace(At(w))
    BY AtIsPlace DEF LockInv, RowsOK
  <2>4. ASSUME NEW w \in Ids, w \notin Ids' PROVE ~Moves(splices[m], Before(m, At(w)))
    <3>1. sp.kind = "split" /\ w = sp.other
      BY <1>1, <2>4 DEF Undoes
    <3>2. QED BY <3>1, HalfStays
  <2>5. Ids' \subseteq Ids
    BY DEF Undoes
  <2>6. S = T
    BY <1>2, <2>2, <2>3, <2>4, <2>5
  <2>7. \A w \in S : Before(m, At(w))' = Before(m, At(w))
    BY <2>2, <2>3
  <2>8. splices[m].repointed = [v \in S |-> [id |-> Before(m, At(v)).vod, offset |-> Before(m, At(v)).at]]
    BY <2>1, Zenon DEF Recorded
  <2> HIDE DEF S, T
  <2>9. splices'[m].repointed = [v \in T |-> [id |-> Before(m, At(v))'.vod, offset |-> Before(m, At(v))'.at]]
    BY <1>2, <2>6, <2>7, <2>8
  <2>10. ASSUME splices'[m].kind = "merge"
         PROVE  /\ splices'[m].members = {c \in Comments : Moves(splices'[m], Before(m, FirstAt(c))')}
                /\ splices'[m].games = {g \in Games : Moves(splices'[m], Before(m, Played(g))')}
    <3>1. /\ splices[m].members = {c \in Comments : Moves(splices[m], Before(m, FirstAt(c)))}
          /\ splices[m].games = {g \in Games : Moves(splices[m], Before(m, Played(g)))}
      BY <1>2, <2>1, <2>10 DEF Recorded
    <3>2. (\A c \in Comments : IsPlace(FirstAt(c))) /\ \A g \in Games : IsPlace(Played(g))
      BY ThingsAreSomewhere
    <3>3. QED BY <1>2, <2>2, <3>1, <3>2
  <2>11. QED BY <2>9, <2>10, Zenon DEF Recorded, T
<1>4. QED BY <1>3

\* What is on the half of a split that is undone is what the split took there.
LEMMA OnHalf ==
  ASSUME LockInv, HistInv, NEW k, NEW sp, NEW n, Undoes(k, sp, n), sp.kind = "split",
         NEW p, IsPlace(p), p.vod \in Ids'
  PROVE  Now(p).vod = sp.other <=> Moves(sp, Before(k, p))
<1>1. k \in 1..n /\ n \in Nat /\ IsSplice(sp) /\ AreSplices(splices') /\ Len(splices') = n
  BY DEF Undoes, Shorter
<1>2. CASE Moves(sp, Before(k, p))
  <2>1. Now(p) = Landing(sp, Before(k, p))
    BY <1>2 DEF Undoes, Backs
  <2>2. QED BY <1>2, <2>1 DEF Landing
<1>3. CASE ~Moves(sp, Before(k, p))
  <2>1. PICK t : t = splices'
    OBVIOUS
  <2>2. Now(p)' = Now(p)
    BY <1>3 DEF Undoes, Backs
  <2>3. PICK D : D = Ids'
    OBVIOUS
  <2>4. \A m \in Live(t) : Ends(t[m]) \subseteq D
    <3>1. \A m \in Active' : Rooted(m)'
      BY UndoneRooted
    <3>2. Live(t) = Active'
      BY <1>1, <2>1, AreSplicesFacts DEF Live, Active
    <3>3. \A m \in Active' : Touched(m)' = Ends(t[m])
      BY <2>1 DEF Touched, Ends
    <3>4. QED BY <2>3, <3>1, <3>2, <3>3 DEF Rooted
  <2>5. Trail(t, p)[0] = p
    BY <1>1, <2>1, TrailSteps
  <2>6. Trail(t, p)[n].vod \in D
    <3>1. 0 \in Nat /\ 0 <= n /\ n <= Len(t) /\ AreSplices(t) /\ Trail(t, p)[0].vod \in D
      BY <1>1, <2>1, <2>3, <2>5
    <3>2. QED BY <1>1, <2>4, <3>1, TrailWithin
  <2>7. Now(p)' = Trail(t, p)[n]
    BY <1>1, <2>1 DEF Now
  <2>8. sp.other \notin Ids'
    BY DEF Undoes
  <2>9. QED BY <1>3, <2>2, <2>3, <2>6, <2>7, <2>8
<1>4. QED BY <1>2, <1>3

LEMMA UndonePlaced ==
  ASSUME SplicesAssumption, LockInv, HistInv, NEW c, NEW k, NEW sp, NEW force, UndoWrites(c, k, sp, force),
         NEW n, Undoes(k, sp, n)
  PROVE  Placed'
<1>1. /\ k \in 1..n /\ n \in Nat /\ IsSplice(sp) /\ sp = splices[k] /\ k \in Active /\ Len(splices) = n
      /\ sp.kind \in {"merge", "split"} /\ sp.offset \in Nat /\ sp.vod # sp.other
      /\ (sp.kind = "split" => sp.offset > 0) /\ Touched(k) = Ends(sp)
  BY DEF Undoes, Shorter, IsSplice
<1>2. /\ Touched(k) \subseteq Ids /\ \A v \in Ends(sp) : Before(k, At(v)) = At(v)
      /\ sp.kind = "split" => sp.other \notin Firsts
  BY <1>1 DEF HistInv, Rooted
<1>3. \A p : IsPlace(p) => /\ IsPlace(Before(k, p)) /\ IsPlace(Now(p))
                           /\ ~Moves(sp, Before(k, p)) => Now(p)' = Now(p)
                           /\ Moves(sp, Before(k, p)) => Now(p) = Landing(sp, Before(k, p)) /\ Now(p)' = Before(k, p)
  BY <1>1, NowIsPlace DEF Undoes, Backs
<1>4. Recorded(k)
  BY <1>1 DEF HistInv
<1>5. /\ Ids' = IF sp.kind = "merge" THEN Ids ELSE Ids \ {sp.other}
      /\ Ids = Firsts \cup {splices[m].other : m \in {o \in Active : splices[o].kind = "split"}}
  BY DEF Undoes, HistInv, Placed
<1>6. Firsts \subseteq Ids'
  BY <1>1, <1>2, <1>5
<1>7. ASSUME NEW p, IsPlace(p), p.vod \in Ids', sp.kind = "split"
      PROVE  Now(p).vod = sp.other <=> Moves(sp, Before(k, p))
  BY <1>7, OnHalf
<1>8. \A p : Landing(sp, p) = IF sp.kind = "merge" THEN [vod |-> sp.vod, at |-> p.at + sp.offset]
                              ELSE [vod |-> sp.other, at |-> p.at - sp.offset]
  BY DEF Landing
<1>9. \A p : Moves(sp, p) <=> IF sp.kind = "merge" THEN p.vod = sp.other ELSE p.vod = sp.vod /\ p.at >= sp.offset
  BY DEF Moves
<1>10. ASSUME NEW m \in Comments PROVE chat'[m] = Now(FirstAt(m))'
  <2>1. PICK p, b : p = FirstAt(m) /\ b = Before(k, p)
    OBVIOUS
  <2>2. IsPlace(p) /\ p.vod \in Ids' /\ IsPlace(b)
    BY <1>3, <1>6, <2>1, ThingsAreSomewhere
  <2>3. b = [vod |-> b.vod, at |-> b.at] /\ b.at \in Nat
    BY <2>2 DEF IsPlace
  <2>4. chat[m] = Now(p)
    BY <2>1, PlacedFacts
  <2>5. chat'[m] = IF Moves(sp, b) THEN b ELSE Now(p)
    <3>1. CASE sp.kind = "merge"
      <4>1. chat' = MovedChat(sp.other, -sp.offset, sp.members)
        BY <3>1 DEF UndoWrites
      <4>2. chat'[m] = IF m \in sp.members THEN [vod |-> sp.other, at |-> chat[m].at + -sp.offset] ELSE chat[m]
        BY <4>1 DEF MovedChat
      <4>3. sp.members = {o \in Comments : Moves(sp, Before(k, FirstAt(o)))}
        BY <1>1, <1>4, <3>1 DEF Recorded
      <4>4. m \in sp.members <=> Moves(sp, b)
        BY <2>1, <4>3
      <4>5. CASE Moves(sp, b)
        <5>1. Now(p).at = b.at + sp.offset /\ b.vod = sp.other
          BY <1>3, <1>8, <1>9, <2>1, <2>2, <3>1, <4>5
        <5>2. QED BY <1>1, <2>3, <2>4, <4>2, <4>4, <4>5, <5>1
      <4>6. QED BY <2>4, <4>2, <4>4, <4>5
    <3>2. CASE sp.kind = "split"
      <4>1. chat' = MovedChat(sp.vod, sp.offset, CommentsOf(sp.other))
        BY <3>2 DEF UndoWrites
      <4>2. chat'[m] = IF chat[m].vod = sp.other THEN [vod |-> sp.vod, at |-> chat[m].at + sp.offset] ELSE chat[m]
        BY <4>1 DEF MovedChat, CommentsOf
      <4>3. chat[m].vod = sp.other <=> Moves(sp, b)
        BY <1>7, <2>1, <2>2, <2>4, <3>2
      <4>4. CASE Moves(sp, b)
        <5>1. Now(p).at = b.at - sp.offset /\ b.vod = sp.vod
          BY <1>3, <1>8, <1>9, <2>1, <2>2, <3>2, <4>4
        <5>2. QED BY <1>1, <2>3, <2>4, <4>2, <4>3, <4>4, <5>1
      <4>5. QED BY <2>4, <4>2, <4>3, <4>4
    <3>3. QED BY <1>1, <3>1, <3>2
  <2>6. Now(p)' = IF Moves(sp, b) THEN b ELSE Now(p)
    BY <1>3, <2>1, <2>2
  <2>7. QED BY <2>1, <2>5, <2>6
<1>11. ASSUME NEW g \in Games
       PROVE  games'[g] = [vod |-> Now(Played(g))'.vod, start |-> Now(Played(g))'.at,
                           end |-> Now(Played(g))'.at + GameAt[g].end - GameAt[g].start]
  <2>1. PICK p, b : p = Played(g) /\ b = Before(k, p)
    OBVIOUS
  <2>2. IsPlace(p) /\ p.vod \in Ids' /\ IsPlace(b) /\ GameAt[g].start \in Nat /\ GameAt[g].end \in Nat
    BY <1>3, <1>6, <2>1, ThingsAreSomewhere
  <2>3. b.at \in Nat
    BY <2>2 DEF IsPlace
  <2>4. PICK q : q = Now(p)
    OBVIOUS
  <2>5. games[g] = [vod |-> q.vod, start |-> q.at, end |-> q.at + GameAt[g].end - GameAt[g].start]
    BY <2>1, <2>4, PlacedFacts
  <2>6. /\ games[g].vod = q.vod /\ games[g].start = q.at /\ games[g].end = q.at + GameAt[g].end - GameAt[g].start
    BY <2>5
  <2>7. games'[g] = IF Moves(sp, b)
                    THEN [vod |-> b.vod, start |-> b.at, end |-> b.at + GameAt[g].end - GameAt[g].start] ELSE games[g]
    <3>1. CASE sp.kind = "merge"
      <4>1. games' = MovedGames(sp.other, -sp.offset, sp.games)
        BY <3>1 DEF UndoWrites
      <4>2. games'[g] = IF g \in sp.games THEN [vod |-> sp.other, start |-> games[g].start + -sp.offset,
                                                end |-> games[g].end + -sp.offset] ELSE games[g]
        BY <4>1 DEF MovedGames
      <4>3. sp.games = {o \in Games : Moves(sp, Before(k, Played(o)))}
        BY <1>1, <1>4, <3>1 DEF Recorded
      <4>4. g \in sp.games <=> Moves(sp, b)
        BY <2>1, <4>3
      <4>5. CASE Moves(sp, b)
        <5>1. q.at = b.at + sp.offset /\ b.vod = sp.other
          BY <1>3, <1>8, <1>9, <2>1, <2>2, <2>4, <3>1, <4>5
        <5>2. /\ q.at + -sp.offset = b.at
              /\ (q.at + GameAt[g].end - GameAt[g].start) + -sp.offset = b.at + GameAt[g].end - GameAt[g].start
          BY <1>1, <2>2, <2>3, <5>1
        <5>3. QED BY <2>6, <4>2, <4>4, <4>5, <5>1, <5>2
      <4>6. QED BY <4>2, <4>4, <4>5
    <3>2. CASE sp.kind = "split"
      <4>1. games' = MovedGames(sp.vod, sp.offset, GamesOf(sp.other))
        BY <3>2 DEF UndoWrites
      <4>2. games'[g] = IF games[g].vod = sp.other
                        THEN [vod |-> sp.vod, start |-> games[g].start + sp.offset, end |-> games[g].end + sp.offset]
                        ELSE games[g]
        BY <4>1 DEF MovedGames, GamesOf
      <4>3. games[g].vod = sp.other <=> Moves(sp, b)
        BY <1>7, <2>1, <2>2, <2>4, <2>6, <3>2
      <4>4. CASE Moves(sp, b)
        <5>1. q.at = b.at - sp.offset /\ b.vod = sp.vod
          BY <1>3, <1>8, <1>9, <2>1, <2>2, <2>4, <3>2, <4>4
        <5>2. /\ q.at + sp.offset = b.at
              /\ (q.at + GameAt[g].end - GameAt[g].start) + sp.offset = b.at + GameAt[g].end - GameAt[g].start
          BY <1>1, <2>2, <2>3, <5>1
        <5>3. QED BY <2>6, <4>2, <4>3, <4>4, <5>1, <5>2
      <4>5. QED BY <4>2, <4>3, <4>4
    <3>3. QED BY <1>1, <3>1, <3>2
  <2>8. Now(p)' = IF Moves(sp, b) THEN b ELSE q
    BY <1>3, <2>1, <2>2, <2>4
  <2>9. PICK r : r = Now(p)'
    OBVIOUS
  <2>10. games'[g] = [vod |-> r.vod, start |-> r.at, end |-> r.at + GameAt[g].end - GameAt[g].start]
    BY <2>5, <2>7, <2>8, <2>9
  <2>11. QED BY <2>1, <2>9, <2>10
<1>12. ASSUME NEW v \in Ids'
       PROVE  /\ vods'[v].merged = IF Now(At(v))'.vod = v THEN NoVod
                                   ELSE [id |-> Now(At(v))'.vod, offset |-> Now(At(v))'.at]
              /\ Now(At(v))'.vod = v => Now(At(v))' = At(v)
  <2>1. PICK p, b : p = At(v) /\ b = Before(k, p)
    OBVIOUS
  <2>2. v \in Ids /\ v \in Seq(Int)
    BY <1>5 DEF LockInv, RowsOK
  <2>3. IsPlace(p) /\ p.vod = v /\ p.at = 0 /\ IsPlace(b)
    BY <1>3, <2>1, <2>2, AtIsPlace
  <2>4. PICK q : q = Now(p)
    OBVIOUS
  <2>5. Now(p)' = IF Moves(sp, b) THEN b ELSE q
    BY <1>3, <2>1, <2>3, <2>4
  <2>6. /\ vods[v].merged = IF q.vod = v THEN NoVod ELSE [id |-> q.vod, offset |-> q.at]
        /\ q.vod = v => q = p
    BY <2>1, <2>2, <2>4, Zenon DEF HistInv, Placed
  <2>7. DOMAIN sp.repointed = {w \in Ids \ Touched(k) : Moves(sp, Before(k, At(w)))}
    BY <1>1, <1>4, Zenon DEF Recorded
  <2>8. /\ v \in DOMAIN sp.repointed => vods'[v].merged = sp.repointed[v]
        /\ v \notin DOMAIN sp.repointed => vods'[v].merged = IF v = sp.other THEN NoVod ELSE vods[v].merged
    BY DEF UndoWrites
  <2>9. CASE v \in DOMAIN sp.repointed
    <3>1. v \notin Ends(sp) /\ Moves(sp, b)
      BY <1>1, <2>1, <2>7, <2>9
    <3>2. sp.repointed = [w \in {u \in Ids \ Touched(k) : Moves(sp, Before(k, At(u)))} |->
                            [id |-> Before(k, At(w)).vod, offset |-> Before(k, At(w)).at]]
      BY <1>1, <1>4, Zenon DEF Recorded
    <3>3. sp.repointed[v] = [id |-> b.vod, offset |-> b.at]
      BY <2>1, <2>7, <2>9, <3>2
    <3>4. b.vod # v
      BY <1>1, <2>3, <3>1, StepPlace
    <3>5. QED BY <2>1, <2>5, <2>8, <2>9, <3>1, <3>3, <3>4
  <2>10. CASE v \in Ends(sp)
    <3>1. b = p /\ v \notin DOMAIN sp.repointed
      BY <1>1, <1>2, <2>1, <2>7, <2>10
    <3>2. v = sp.other => sp.kind = "merge"
      BY <1>1, <1>5
    <3>3. Moves(sp, b) <=> v = sp.other
      BY <1>1, <1>9, <2>3, <2>10, <3>1, <3>2 DEF Ends
    <3>4. QED BY <2>1, <2>3, <2>5, <2>6, <2>8, <3>1, <3>3
  <2>11. CASE v \notin Ends(sp) /\ v \notin DOMAIN sp.repointed
    <3>1. ~Moves(sp, b)
      BY <1>1, <2>1, <2>2, <2>7, <2>11
    <3>2. v # sp.other
      BY <2>11 DEF Ends
    <3>3. QED BY <2>1, <2>5, <2>6, <2>8, <2>11, <3>1, <3>2
  <2>12. QED BY <2>9, <2>10, <2>11
<1>13. Ids' = Firsts \cup {splices'[m].other : m \in {o \in Active' : splices'[o].kind = "split"}}
  <2>1. Active' = Active \ {k} /\ \A m \in Active' : splices'[m] = splices[m] /\ Touched(m)' = Touched(m)
    BY DEF Undoes, Shorter
  <2>2. {splices'[m].other : m \in {o \in Active' : splices'[o].kind = "split"}}
          = {splices[m].other : m \in {o \in Active \ {k} : splices[o].kind = "split"}}
    BY <2>1
  <2>3. CASE sp.kind = "merge"
    <3>1. {o \in Active \ {k} : splices[o].kind = "split"} = {o \in Active : splices[o].kind = "split"}
      BY <1>1, <2>3
    <3>2. QED BY <1>5, <2>2, <2>3, <3>1
  <2>4. CASE sp.kind = "split"
    <3>1. \A m \in Active \ {k} : splices[m].other # sp.other
      BY <2>1, <2>4, HalfStays DEF Touched
    <3>2. {splices[m].other : m \in {o \in Active \ {k} : splices[o].kind = "split"}}
            = {splices[m].other : m \in {o \in Active : splices[o].kind = "split"}} \ {sp.other}
      BY <1>1, <2>4, <3>1
    <3>3. QED BY <1>2, <1>5, <2>2, <2>4, <3>2
  <2>5. QED BY <1>1, <2>3, <2>4
<1>14. QED BY <1>10, <1>11, <1>12, <1>13 DEF Placed

LEMMA UndoneChained ==
  ASSUME LockInv, HistInv, NEW c, NEW k, NEW sp, NEW force, UndoWrites(c, k, sp, force), NEW n, Undoes(k, sp, n)
  PROVE  Chained'
<1>1. /\ k \in 1..n /\ n \in Nat /\ IsSplice(sp) /\ sp = splices[k] /\ k \in Active /\ Len(splices) = n
      /\ Len(splices') = n /\ Active' = Active \ {k} /\ Active \subseteq 1..n
      /\ sp.kind \in {"merge", "split"} /\ sp.vod # sp.other /\ Touched(k) = Ends(sp)
  BY DEF Undoes, Shorter, IsSplice
<1>2. \A m \in Active' : splices'[m] = splices[m] /\ Touched(m)' = Touched(m)
  BY DEF Undoes, Shorter
<1>3. \A m \in Active : m > k => Touched(m) \cap Ends(sp) = {}
  BY DEF Undoes, Shorter
<1>4. /\ Ids' \subseteq Ids /\ (sp.kind = "split" => sp.other \notin Ids')
      /\ Firsts \subseteq Ids'
  <2>1. Firsts \subseteq Ids /\ (sp.kind = "split" => sp.other \notin Firsts)
    BY <1>1 DEF HistInv, Placed, Rooted
  <2>2. QED BY <1>1, <2>1 DEF Undoes
<1>5. ASSUME NEW v \in Ids', v \in Ends(sp) PROVE v \in Restores(k) /\ Content(vods'[v].side) = Found(k, v)
  <2>1. /\ v = sp.vod => vods'[v].side = sp.target.side
        /\ v = sp.other => vods'[v].side = sp.source.side
    BY DEF UndoWrites
  <2>2. v = sp.vod \/ (v = sp.other /\ sp.kind = "merge")
    BY <1>1, <1>4, <1>5 DEF Ends
  <2>3. v \in Restores(k)
    BY <1>1, <1>5, <2>2 DEF Restores
  <2>4. QED BY <1>1, <2>1, <2>2, <2>3 DEF Found
<1>6. ASSUME NEW v \in Ids', v \notin Ends(sp) PROVE v \in Ids /\ vods'[v].side = vods[v].side
  <2>1. v \notin {sp.vod, sp.other} => vods'[v].side = vods[v].side
    BY DEF UndoWrites
  <2>2. QED BY <1>4, <1>6, <2>1 DEF Ends
<1>7. \A m \in Active' : \A v : Left(m, v)' = Left(m, v) /\ Found(m, v)' = Found(m, v)
  BY <1>2 DEF Left, Found, Content
<1>8. \A m \in Active' : Restores(m)' = Restores(m) /\ Restores(m) \subseteq Touched(m)
  BY <1>2 DEF Restores, Touched
<1>9. ASSUME NEW v \in Ids', NEW m \in Active', LastOn(m, v, n + 1)' PROVE Content(vods'[v].side) = Left(m, v)'
  <2>1. m \in Active /\ m # k /\ m \in 1..n /\ v \in Touched(m) /\ \A j \in Active' : m < j /\ j < n + 1 => v \notin Touched(j)
    BY <1>1, <1>2, <1>9 DEF LastOn
  <2>2. CASE v \in Ends(sp)
    <3>1. ~(m > k)
      BY <1>3, <2>1, <2>2
    <3>2. m < k
      BY <1>1, <2>1, <3>1
    <3>3. LastOn(m, v, k)
      <4>1. ASSUME NEW j \in Active, m < j, j < k PROVE v \notin Touched(j)
        <5>1. j \in Active' /\ j < n + 1
          BY <1>1, <4>1
        <5>2. QED BY <2>1, <4>1, <5>1
      <4>2. QED BY <2>1, <3>2, <4>1 DEF LastOn
    <3>4. v \in Restores(k) /\ Content(vods'[v].side) = Found(k, v)
      BY <1>5, <2>2
    <3>5. Found(k, v) = Left(m, v)
      BY <1>1, <2>1, <3>3, <3>4 DEF HistInv, Chained
    <3>6. QED BY <1>7, <3>4, <3>5
  <2>3. CASE v \notin Ends(sp)
    <3>1. LastOn(m, v, n + 1)
      <4>1. ASSUME NEW j \in Active, m < j, j < n + 1 PROVE v \notin Touched(j)
        <5>1. CASE j = k
          BY <1>1, <2>3, <5>1
        <5>2. CASE j # k
          BY <1>1, <2>1, <4>1, <5>2
        <5>3. QED BY <5>1, <5>2
      <4>2. m < n + 1
        BY <1>1, <2>1
      <4>3. QED BY <2>1, <4>1, <4>2 DEF LastOn
    <3>2. v \in Ids /\ vods'[v].side = vods[v].side
      BY <1>6, <2>3
    <3>3. Content(vods[v].side) = Left(m, v)
      BY <1>1, <2>1, <3>1, <3>2 DEF HistInv, Chained
    <3>4. QED BY <1>7, <3>2, <3>3
  <2>4. QED BY <2>2, <2>3
<1>10. ASSUME NEW v \in Originals, NoneOn(<<v>>, n + 1)' PROVE Content(vods'[<<v>>].side) = Content(SideOf[v])
  <2>1. PICK w : w = <<v>>
    OBVIOUS
  <2>2. w \in Ids' /\ \A j \in Active' : j < n + 1 => w \notin Touched(j)
    BY <1>2, <1>4, <1>10, <2>1 DEF NoneOn, Firsts
  <2>3. CASE w \in Ends(sp)
    <3>1. NoneOn(w, k)
      <4>1. ASSUME NEW j \in Active, j < k PROVE w \notin Touched(j)
        <5>1. j \in Active' /\ j < n + 1
          BY <1>1, <4>1
        <5>2. QED BY <2>2, <5>1
      <4>2. QED BY <4>1 DEF NoneOn
    <3>2. w \in Restores(k) /\ Content(vods'[w].side) = Found(k, w)
      BY <1>5, <2>2, <2>3
    <3>3. Found(k, w) = Content(SideOf[v])
      BY <1>1, <2>1, <3>1, <3>2 DEF HistInv, Chained
    <3>4. QED BY <2>1, <3>2, <3>3
  <2>4. CASE w \notin Ends(sp)
    <3>1. NoneOn(w, n + 1)
      BY <1>1, <2>2, <2>4 DEF NoneOn
    <3>2. Content(vods[w].side) = Content(SideOf[v])
      BY <1>1, <2>1, <3>1 DEF HistInv, Chained
    <3>3. QED BY <1>6, <2>1, <2>2, <2>4, <3>2
  <2>5. QED BY <2>3, <2>4
\* The undone splice is not between one and a later one on the same VOD: it was not blocked.
<1>11. ASSUME NEW m \in Active', NEW v \in Touched(m) PROVE k < m => v \notin Touched(k)
  BY <1>1, <1>3, <1>11
<1>12. ASSUME NEW m \in Active', NEW v \in Restores(m)', NEW j \in Active', LastOn(j, v, m)'
       PROVE  Found(m, v)' = Left(j, v)'
  <2>1. v \in Restores(m) /\ v \in Touched(m) /\ m \in Active /\ j \in Active
    BY <1>1, <1>8, <1>12
  <2>2. j < m /\ v \in Touched(j) /\ \A i \in Active' : j < i /\ i < m => v \notin Touched(i)
    BY <1>2, <1>12 DEF LastOn
  <2>3. k < m => v \notin Touched(k)
    BY <1>11, <2>1
  <2>4. LastOn(j, v, m)
    BY <1>1, <2>1, <2>2, <2>3 DEF LastOn
  <2>5. Found(m, v) = Left(j, v)
    BY <2>1, <2>4 DEF HistInv, Chained
  <2>6. QED BY <1>7, <2>5
<1>13. ASSUME NEW m \in Active', NEW v \in Originals, <<v>> \in Restores(m)', NoneOn(<<v>>, m)'
       PROVE  Found(m, <<v>>)' = Content(SideOf[v])
  <2>1. PICK w : w = <<v>>
    OBVIOUS
  <2>2. w \in Restores(m) /\ w \in Touched(m) /\ m \in Active
    BY <1>1, <1>8, <1>13, <2>1
  <2>3. \A i \in Active' : i < m => w \notin Touched(i)
    BY <1>2, <1>13, <2>1 DEF NoneOn
  <2>4. k < m => w \notin Touched(k)
    BY <1>11, <2>2
  <2>5. NoneOn(w, m)
    BY <1>1, <2>3, <2>4 DEF NoneOn
  <2>6. Found(m, w) = Content(SideOf[v])
    BY <2>1, <2>2, <2>5 DEF HistInv, Chained
  <2>7. QED BY <1>7, <2>1, <2>6
<1>14. QED BY <1>1, <1>9, <1>10, <1>12, <1>13 DEF Chained

LEMMA UndoneEmotes ==
  ASSUME LockInv, HistInv, NEW c, NEW k, NEW sp, NEW force, UndoWrites(c, k, sp, force), NEW n, Undoes(k, sp, n)
  PROVE  Emotes'
<1>1. /\ k \in 1..n /\ n \in Nat /\ IsSplice(sp) /\ sp = splices[k] /\ k \in Active /\ Len(splices) = n
      /\ Len(splices') = n /\ Active' = Active \ {k} /\ Active \subseteq 1..n
      /\ sp.kind \in {"merge", "split"} /\ sp.vod # sp.other /\ Touched(k) = Ends(sp)
  BY DEF Undoes, Shorter, IsSplice
<1>2. \A m \in Active' : splices'[m] = splices[m]
  BY DEF Undoes, Shorter
<1>3. \A m \in Active : m > k => Touched(m) \cap Ends(sp) = {}
  BY DEF Undoes, Shorter
<1>4. Firsts \subseteq Ids'
  <2>1. Firsts \subseteq Ids /\ (sp.kind = "split" => sp.other \notin Firsts)
    BY <1>1 DEF HistInv, Placed, Rooted
  <2>2. QED BY <1>1, <2>1 DEF Undoes
<1>5. \A m \in Nat : \A w : ~MergedInto(w, m)' =>
        \A j \in Active : j # k /\ j < m => ~(splices[j].kind = "merge" /\ splices[j].vod = w)
  BY <1>1, <1>2 DEF MergedInto
<1>6. ASSUME NEW v \in Originals, ~MergedInto(<<v>>, n + 1)' PROVE vods'[<<v>>].emotes = {v}
  <2>1. PICK w : w = <<v>>
    OBVIOUS
  <2>2. /\ w \in Ids'
        /\ \A j \in Active : j # k /\ j < n + 1 => ~(splices[j].kind = "merge" /\ splices[j].vod = w)
    BY <1>1, <1>4, <1>5, <1>6, <2>1 DEF Firsts
  <2>3. /\ w = sp.vod /\ sp.kind = "merge" => vods'[w].emotes = sp.emotes
        /\ w # sp.vod \/ sp.kind = "split" => vods'[w].emotes = vods[w].emotes
    BY <2>2 DEF UndoWrites
  <2>4. CASE w = sp.vod /\ sp.kind = "merge"
    <3>1. ~MergedInto(w, k)
      BY <1>1, <2>2 DEF MergedInto
    <3>2. sp.emotes = {v}
      BY <1>1, <2>1, <2>4, <3>1 DEF HistInv, Emotes
    <3>3. QED BY <2>1, <2>3, <2>4, <3>2
  <2>5. CASE w # sp.vod \/ sp.kind = "split"
    <3>1. ~MergedInto(w, n + 1)
      BY <1>1, <2>2, <2>5 DEF MergedInto
    <3>2. vods[w].emotes = {v}
      BY <1>1, <2>1, <3>1 DEF HistInv, Emotes
    <3>3. QED BY <2>1, <2>3, <2>5, <3>2
  <2>6. QED BY <1>1, <2>4, <2>5
<1>7. ASSUME NEW m \in Active', NEW v \in Originals, splices'[m].kind = "merge", splices'[m].vod = <<v>>,
             ~MergedInto(<<v>>, m)'
      PROVE  splices'[m].emotes = {v}
  <2>1. PICK w : w = <<v>>
    OBVIOUS
  <2>2. m \in Active /\ m \in Nat /\ splices[m].kind = "merge" /\ splices[m].vod = w /\ splices'[m] = splices[m]
    <3>1. m \in Active /\ m \in Nat /\ splices'[m] = splices[m]
      <4>1. m \in Active /\ m \in 1..n
        BY <1>1, <1>7
      <4>2. QED BY <1>1, <1>2, <1>7, <4>1
    <3>2. QED BY <1>7, <2>1, <3>1
  <2>3. \A j \in Active : j # k /\ j < m => ~(splices[j].kind = "merge" /\ splices[j].vod = w)
    BY <1>5, <1>7, <2>1, <2>2
  <2>4. k < m => sp.vod # w
    BY <1>1, <1>3, <2>2 DEF Touched, Ends
  <2>5. ~MergedInto(w, m)
    BY <1>1, <2>3, <2>4 DEF MergedInto
  <2>6. \A u \in Originals : splices[m].kind = "merge" /\ splices[m].vod = <<u>> /\ ~MergedInto(<<u>>, m)
                               => splices[m].emotes = {u}
    BY <2>2 DEF HistInv, Emotes
  <2>7. QED BY <2>1, <2>2, <2>5, <2>6
<1>8. QED BY <1>1, <1>6, <1>7 DEF Emotes

LEMMA UndoHistory ==
  ASSUME SplicesAssumption, LockInv, HistInv, UndoesOnce, NEW c \in Callers, UndoCommits(c)
  PROVE  HistInv'
<1>1. PICK k, sp, force, n : k = call[c].splice /\ sp = splices[k] /\ force = call[c].force /\ n = Len(splices)
  <2>1. PICK k : k = call[c].splice
    OBVIOUS
  <2>2. QED BY <2>1
<1>2. UndoWrites(c, k, sp, force)
  BY <1>1, UndoDoes
<1>3. Shorter(k, sp, n)
  BY <1>1, <1>2, UndoShortens
<1>4. Backs(k, sp, n)
  <2>1. splices'[k].undone /\ \A j \in 1..n : j # k => splices'[j] = splices[j]
    BY <1>1, <1>2 DEF UndoWrites
  <2>2. QED BY <1>3, <2>1, UndoneTrails
<1>5. Undoes(k, sp, n)
  BY <1>2, <1>3, <1>4 DEF Undoes, UndoWrites
<1>6. (\A m \in Active' : Rooted(m)') /\ \A m \in Active' : Recorded(m)'
  BY <1>5, UndoneRooted, UndoneRecorded
<1>7. Placed' /\ Chained' /\ Emotes'
  BY <1>2, <1>5, UndonePlaced, UndoneChained, UndoneEmotes
<1>8. QED BY <1>6, <1>7 DEF HistInv

----------------------------------------------------------------------------
(* Nothing but a splice and an undo writes what the history is about.       *)

LEMMA WriteHistory ==
  ASSUME LockInv, HistInv, UNCHANGED <<chat, games, splices>>, Ids' = Ids,
         \A v \in Ids : /\ vods'[v].merged = vods[v].merged /\ vods'[v].emotes = vods[v].emotes
                        /\ vods'[v].side.duration = vods[v].side.duration
                        /\ vods'[v].side.uploads = vods[v].side.uploads
  PROVE  HistInv'
<1>1. splices' = splices /\ chat' = chat /\ games' = games /\ Len(splices') = Len(splices)
  OBVIOUS
<1>2. Active' = Active /\ \A k : Touched(k)' = Touched(k)
  BY <1>1 DEF Active, Touched
<1>3. \A k, p : Before(k, p)' = Before(k, p) /\ Now(p)' = Now(p)
  BY <1>1 DEF Before, Now
<1>4. ASSUME NEW k \in Active PROVE Rooted(k)' /\ Recorded(k)'
  <2>1. Rooted(k) /\ Recorded(k)
    BY DEF HistInv
  <2>2. Rooted(k)'
    BY <1>1, <1>2, <1>3, <2>1 DEF Rooted
  <2> DEFINE S == {w \in Ids \ Touched(k) : Moves(splices[k], Before(k, At(w)))}
             T == {w \in Ids' \ Touched(k)' : Moves(splices'[k], Before(k, At(w))')}
  <2>3. S = T
    BY <1>1, <1>2, <1>3
  <2>4. splices[k].repointed = [v \in S |-> [id |-> Before(k, At(v)).vod, offset |-> Before(k, At(v)).at]]
    BY <2>1, Zenon DEF Recorded
  <2> HIDE DEF S, T
  <2>5. splices'[k].repointed = [v \in T |-> [id |-> Before(k, At(v))'.vod, offset |-> Before(k, At(v))'.at]]
    BY <1>1, <1>3, <2>3, <2>4
  <2>6. ASSUME splices'[k].kind = "merge"
        PROVE  /\ splices'[k].members = {c \in Comments : Moves(splices'[k], Before(k, FirstAt(c))')}
               /\ splices'[k].games = {g \in Games : Moves(splices'[k], Before(k, Played(g))')}
    BY <1>1, <1>3, <2>1, <2>6 DEF Recorded
  <2>7. Recorded(k)'
    BY <2>5, <2>6, Zenon DEF Recorded, T
  <2>8. QED BY <2>2, <2>7
<1>5. Placed'
  <2>1. \A c \in Comments : chat'[c] = Now(FirstAt(c))'
    BY <1>1, <1>3, PlacedFacts
  <2>2. \A g \in Games : games'[g] = [vod |-> Now(Played(g))'.vod, start |-> Now(Played(g))'.at,
                                      end |-> Now(Played(g))'.at + GameAt[g].end - GameAt[g].start]
    BY <1>1, <1>3, PlacedFacts
  <2>3. ASSUME NEW v \in Ids'
        PROVE  /\ vods'[v].merged = IF Now(At(v))'.vod = v THEN NoVod
                                    ELSE [id |-> Now(At(v))'.vod, offset |-> Now(At(v))'.at]
               /\ Now(At(v))'.vod = v => Now(At(v))' = At(v)
    <3>1. v \in Ids /\ vods'[v].merged = vods[v].merged
      OBVIOUS
    <3>2. /\ vods[v].merged = IF Now(At(v)).vod = v THEN NoVod
                              ELSE [id |-> Now(At(v)).vod, offset |-> Now(At(v)).at]
          /\ Now(At(v)).vod = v => Now(At(v)) = At(v)
      BY <3>1, Zenon DEF HistInv, Placed
    <3>3. QED BY <1>3, <3>1, <3>2
  <2>4. Ids' = Firsts \cup {splices'[k].other : k \in {m \in Active' : splices'[m].kind = "split"}}
    BY <1>1, <1>2 DEF HistInv, Placed
  <2>5. QED BY <2>1, <2>2, <2>3, <2>4 DEF Placed
<1>6. \A v \in Ids : Content(vods'[v].side) = Content(vods[v].side) /\ vods'[v].emotes = vods[v].emotes
  BY DEF Content
<1>7. \A v \in Originals : <<v>> \in Ids
  BY DEF HistInv, Placed, Firsts
<1>8. Chained'
  <2>1. \A k, v, n : LastOn(k, v, n)' <=> LastOn(k, v, n)
    BY <1>2 DEF LastOn
  <2>2. \A v, n : NoneOn(v, n)' <=> NoneOn(v, n)
    BY <1>2 DEF NoneOn
  <2>3. \A k, v : Left(k, v)' = Left(k, v) /\ Found(k, v)' = Found(k, v)
    BY <1>1 DEF Left, Found, Content
  <2>4. \A k : Restores(k)' = Restores(k)
    BY <1>1, <1>2 DEF Restores
  <2>5. \A v \in Ids : \A k \in Active : LastOn(k, v, Len(splices) + 1)' => Content(vods'[v].side) = Left(k, v)'
    BY <1>6, <2>1, <2>3 DEF HistInv, Chained
  <2>6. \A v \in Originals : NoneOn(<<v>>, Len(splices) + 1)' => Content(vods'[<<v>>].side) = Content(SideOf[v])
    BY <1>6, <1>7, <2>2 DEF HistInv, Chained
  <2>7. \A k \in Active : \A v \in Restores(k) : \A j \in Active : LastOn(j, v, k)' => Found(k, v)' = Left(j, v)'
    BY <2>1, <2>3 DEF HistInv, Chained
  <2>8. \A k \in Active : \A v \in Originals :
          <<v>> \in Restores(k) /\ NoneOn(<<v>>, k)' => Found(k, <<v>>)' = Content(SideOf[v])
    BY <2>2, <2>3 DEF HistInv, Chained
  <2>9. QED BY <1>1, <1>2, <2>4, <2>5, <2>6, <2>7, <2>8 DEF Chained
<1>9. Emotes'
  <2>1. \A v, n : MergedInto(v, n)' <=> MergedInto(v, n)
    BY <1>1, <1>2 DEF MergedInto
  <2>2. \A v \in Originals : ~MergedInto(<<v>>, Len(splices) + 1)' => vods'[<<v>>].emotes = {v}
    BY <1>6, <1>7, <2>1 DEF HistInv, Emotes
  <2>3. \A k \in Active : \A v \in Originals :
          splices[k].kind = "merge" /\ splices[k].vod = <<v>> /\ ~MergedInto(<<v>>, k)' => splices[k].emotes = {v}
    BY <2>1 DEF HistInv, Emotes
  <2>4. QED BY <1>1, <1>2, <2>2, <2>3 DEF Emotes
<1>10. QED BY <1>2, <1>4, <1>5, <1>8, <1>9 DEF HistInv

LEMMA InitHistory ==
  ASSUME SplicesAssumption, Init
  PROVE  HistInv
<1>1. splices = <<>> /\ Len(splices) = 0 /\ Active = {}
  BY DEF Init, Active
<1>2. ASSUME NEW p PROVE Now(p) = p
  <2>1. PICK s : s = splices
    OBVIOUS
  <2>2. Len(s) \in Nat
    BY <1>1, <2>1
  <2>3. Trail(s, p)[0] = p
    BY <2>2, TrailSteps, Zenon
  <2>4. Now(p) = Trail(s, p)[0]
    BY <1>1, <2>1 DEF Now
  <2>5. QED BY <2>3, <2>4
<1>3. /\ Ids = Firsts /\ \A v \in Originals : vods[<<v>>] = Row(v)
  BY InitRows
<1>4. ASSUME NEW v \in Originals
      PROVE  /\ vods[<<v>>].merged = NoVod /\ vods[<<v>>].emotes = {v}
             /\ Content(vods[<<v>>].side) = Content(SideOf[v])
  <2>1. vods[<<v>>] = Row(v)
    BY <1>3
  <2>2. Row(v).merged = NoVod /\ Row(v).emotes = {v} /\ Row(v).side = SideOf[v]
    BY DEF Row
  <2>3. QED BY <2>1, <2>2
<1>5. Placed
  <2>1. \A c \in Comments : chat[c] = Now(FirstAt(c))
    <3>1. ASSUME NEW c \in Comments PROVE CommentAt[c] = FirstAt(c)
      <4>1. CommentAt[c] \in [vod : {<<v>> : v \in Originals}, at : Nat]
        BY DEF SplicesAssumption
      <4>2. CommentAt[c] = [vod |-> CommentAt[c].vod, at |-> CommentAt[c].at]
        BY <4>1
      <4>3. QED BY <4>2 DEF FirstAt
    <3>2. QED BY <1>2, <3>1 DEF Init
  <2>2. ASSUME NEW g \in Games
        PROVE  games[g] = [vod |-> Now(Played(g)).vod, start |-> Now(Played(g)).at,
                           end |-> Now(Played(g)).at + GameAt[g].end - GameAt[g].start]
    <3>1. GameAt[g] \in [vod : {<<v>> : v \in Originals}, start : Nat, end : Nat]
      BY DEF SplicesAssumption
    <3>2. /\ GameAt[g] = [vod |-> GameAt[g].vod, start |-> GameAt[g].start, end |-> GameAt[g].end]
          /\ GameAt[g].start \in Nat /\ GameAt[g].end \in Nat
      BY <3>1
    <3>3. games[g] = GameAt[g] /\ Now(Played(g)) = [vod |-> GameAt[g].vod, at |-> GameAt[g].start]
      BY <1>2 DEF Init, Played
    <3>4. GameAt[g].start + GameAt[g].end - GameAt[g].start = GameAt[g].end
      BY <3>2
    <3>5. QED BY <3>2, <3>3, <3>4
  <2>3. ASSUME NEW v \in Ids
        PROVE  /\ vods[v].merged = IF Now(At(v)).vod = v THEN NoVod
                                   ELSE [id |-> Now(At(v)).vod, offset |-> Now(At(v)).at]
               /\ Now(At(v)).vod = v => Now(At(v)) = At(v)
    <3>1. PICK o \in Originals : v = <<o>>
      BY <1>3 DEF Firsts
    <3>2. vods[v].merged = NoVod
      BY <1>4, <3>1
    <3>3. Now(At(v)) = At(v) /\ At(v).vod = v
      BY <1>2 DEF At
    <3>4. QED BY <3>2, <3>3
  <2>4. Ids = Firsts \cup {splices[k].other : k \in {m \in Active : splices[m].kind = "split"}}
    BY <1>1, <1>3
  <2>5. QED BY <2>1, <2>2, <2>3, <2>4 DEF Placed
<1>6. Chained
  BY <1>1, <1>4 DEF Chained
<1>7. Emotes
  BY <1>1, <1>4 DEF Emotes
<1>8. QED BY <1>1, <1>5, <1>6, <1>7 DEF HistInv

LEMMA StepHistory ==
  ASSUME SplicesAssumption, LockInv, HistInv, UndoesOnce, [Next]_vars
  PROVE  HistInv'
<1>1. ASSUME UNCHANGED <<vods, chat, games, splices>> PROVE HistInv'
  <2>1. Ids' = Ids /\ UNCHANGED <<chat, games, splices>> /\ \A v \in Ids : vods'[v] = vods[v]
    BY <1>1 DEF Ids
  <2>2. QED BY <2>1, WriteHistory
<1>2. ASSUME NEW c \in Callers, MergeCommits(c) \/ SplitCommits(c) PROVE HistInv'
  BY <1>2, MergeExtends, SplitExtends, ExtendsHistory
<1>3. ASSUME NEW c \in Callers, UndoCommits(c) PROVE HistInv'
  BY <1>3, UndoHistory
<1>4. ASSUME NEW c \in Callers, Request(c) PROVE HistInv'
  <2>1. CASE \/ \E a, b \in Ids, gap \in GapOverrides \cup {Computed} : MergeChecks(c, a, b, gap)
             \/ \E k \in DOMAIN splices, force \in Forces : PickUndo(c, k, force)
             \/ UndoChecks(c)
    <3>1. UNCHANGED <<vods, chat, games, splices>>
      BY <2>1 DEF MergeChecks, PickUndo, UndoChecks, Rows
    <3>2. QED BY <1>1, <3>1
  <2>2. CASE \E a \in Ids : \E at \in Points(a) :
               SplitChecks(c, a, at) \/ \E force \in Forces : SplitAtJoin(c, a, at, force)
    <3>1. UNCHANGED <<vods, chat, games, splices>>
      BY <2>2 DEF SplitChecks, SplitAtJoin, Rows
    <3>2. QED BY <1>1, <3>1
  <2>3. QED BY <1>2, <1>3, <1>4, <2>1, <2>2 DEF Request
<1>5. ASSUME SaveEdit PROVE HistInv'
  <2>1. /\ UNCHANGED <<chat, games, splices>> /\ Ids' = Ids
        /\ \A v \in Ids : /\ vods'[v].side = vods[v].side /\ vods'[v].merged = vods[v].merged
                          /\ vods'[v].emotes = vods[v].emotes
    BY <1>5, SaveEditWrites
  <2>2. QED BY <2>1, WriteHistory
<1>6. ASSUME NEW j \in Jobs, Refetch(j) PROVE HistInv'
  <2>1. CASE WriteStep(j)
    <3>1. /\ UNCHANGED <<chat, games, splices>> /\ Ids' = Ids
          /\ \A v \in Ids : /\ vods'[v].merged = vods[v].merged /\ vods'[v].emotes = vods[v].emotes
                            /\ vods'[v].side.duration = vods[v].side.duration
                            /\ vods'[v].side.uploads = vods[v].side.uploads
      BY <2>1, WriteStepWrites
    <3>2. QED BY <3>1, WriteHistory
  <2>2. CASE (\E v \in JobVods : AskJob(j, v)) \/ InsertJob(j) \/ StartStep(j)
    <3>1. UNCHANGED <<vods, chat, games, splices>>
      BY <2>2 DEF AskJob, InsertJob, StartStep, Rows
    <3>2. QED BY <1>1, <3>1
  <2>3. QED BY <1>6, <2>1, <2>2 DEF Refetch
<1>7. ASSUME \E v \in Ids \cap EditVods, title \in Titles : AskEdit(v, title) PROVE HistInv'
  <2>1. UNCHANGED <<vods, chat, games, splices>>
    BY <1>7 DEF AskEdit, Rows
  <2>2. QED BY <1>1, <2>1
<1>8. CASE UNCHANGED vars
  <2>1. UNCHANGED <<vods, chat, games, splices>>
    BY <1>8 DEF vars
  <2>2. QED BY <1>1, <2>1
<1>9. QED BY <1>4, <1>5, <1>6, <1>7, <1>8 DEF Next

\* The history places everything where the splices that are not undone put it.
LEMMA HistoryLeavesNoTrace ==
  ASSUME SplicesAssumption, LockInv, HistInv
  PROVE  UndoLeavesNoTrace
<1>1. \A v, at : Carried(v, at) = Now([vod |-> v, at |-> at])
  BY DEF Carried, Now
<1>2. \A c \in Comments : chat[c] = Carried(CommentAt[c].vod, CommentAt[c].at)
  BY <1>1, PlacedFacts DEF FirstAt
<1>3. ASSUME NEW g \in Games, NEW place, place = Carried(GameAt[g].vod, GameAt[g].start)
      PROVE  games[g] = [vod |-> place.vod, start |-> place.at, end |-> place.at + GameAt[g].end - GameAt[g].start]
  BY <1>1, <1>3, PlacedFacts DEF Played
<1>4. ASSUME NEW v \in Ids, NEW place, place = Carried(v, 0)
      PROVE  vods[v].merged = IF place.vod = v THEN NoVod ELSE [id |-> place.vod, offset |-> place.at]
  <2>1. place = Now(At(v))
    BY <1>1, <1>4 DEF At
  <2>2. QED BY <2>1, Zenon DEF HistInv, Placed
<1>5. Ids = {<<v>> : v \in Originals} \cup {splices[k].other : k \in {m \in Active : splices[m].kind = "split"}}
  BY DEF HistInv, Placed, Firsts
<1>6. ASSUME NEW v \in Originals, \A k \in Active : <<v>> \notin Touched(k)
      PROVE  /\ vods[<<v>>].side.duration = SideOf[v].duration /\ vods[<<v>>].side.uploads = SideOf[v].uploads
             /\ vods[<<v>>].emotes = {v}
  <2>1. NoneOn(<<v>>, Len(splices) + 1)
    BY <1>6 DEF NoneOn
  <2>2. Content(vods[<<v>>].side) = Content(SideOf[v])
    BY <2>1 DEF HistInv, Chained
  <2>3. ~MergedInto(<<v>>, Len(splices) + 1)
    BY <1>6 DEF MergedInto, Touched
  <2>4. vods[<<v>>].emotes = {v}
    BY <2>3 DEF HistInv, Emotes
  <2>5. QED BY <2>2, <2>4 DEF Content
<1>7. \A g \in Games :
        LET place == Carried(GameAt[g].vod, GameAt[g].start)
        IN  games[g] = [vod |-> place.vod, start |-> place.at, end |-> place.at + GameAt[g].end - GameAt[g].start]
  BY <1>3
<1>8. \A v \in Ids :
        LET place == Carried(v, 0)
        IN  vods[v].merged = IF place.vod = v THEN NoVod ELSE [id |-> place.vod, offset |-> place.at]
  BY <1>4
<1>9. \A v \in Originals : (\A k \in Active : <<v>> \notin Touched(k)) =>
        /\ vods[<<v>>].side.duration = SideOf[v].duration /\ vods[<<v>>].side.uploads = SideOf[v].uploads
        /\ vods[<<v>>].emotes = {v}
  BY <1>6
<1>10. QED BY <1>2, <1>5, <1>7, <1>8, <1>9, Zenon DEF UndoLeavesNoTrace

\* "Undo restores every row as it was, chat included" (README.md), as long as no undo that was let
\* through finds its splice undone since it was read, which _undo (splices.py) never looks at again.
THEOREM UndoesLeaveNoTrace == Spec /\ []UndoesOnce => []UndoLeavesNoTrace
<1>1. Init => HistInv
  BY SplicesAssumption, InitHistory
<1>2. LockInv /\ HistInv /\ UndoesOnce /\ [Next]_vars => HistInv'
  BY SplicesAssumption, StepHistory
<1>3. LockInv /\ HistInv => UndoLeavesNoTrace
  BY SplicesAssumption, HistoryLeavesNoTrace
<1>4. QED BY <1>1, <1>2, <1>3, LocksHold, PTL DEF Spec
=============================================================================
