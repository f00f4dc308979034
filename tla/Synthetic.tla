------------------------------ MODULE Synthetic ------------------------------
(****************************************************************************)
(* synthetic.py: synthetic VODs in the database, each change a transaction  *)
(* with its row locked, next to the transactions that edit the VODs they    *)
(* are made of, and the monitor's rounds that compose stale ones again.     *)
(*                                                                          *)
(* PostgreSQL, read committed: a statement sees what is committed; now() is *)
(* when the transaction began, and so is the updatedAt it writes.  Times    *)
(* are counted in transactions begun.  A VOD's cached columns are those of  *)
(* Compose; an edit of a real VOD renames its only chapter.                 *)
(****************************************************************************)
EXTENDS Compose

CONSTANTS
  RealVods, SyntheticVods,  \* ids
  Requests,                 \* what a change may ask for: <<segments or Kept, supersedes>>
  AtFirst,                  \* synthetic VODs made already: <<id, segments>>, in order
  Kept,                     \* "segments" left out of a change
  Txs,                      \* transactions at a time
  RealLength,               \* duration of each real VOD
  MaxBegins                 \* bound: transactions begun

VARIABLES
  rows,     \* committed: VOD -> [there, columns (duration, chapters), updated, segments, supersedes]
  tx,       \* [doing, vod, segments, supersedes, began, step, found, overtaken, beside]
  todo,     \* the stale VODs the monitor's round has yet to compose
  clock,
  unseen,   \* history: synthetic VODs dated after a change of a source began that they do not have
  retitled, \* history: synthetic VODs retitled while stale
  together  \* history: synthetic VODs checked while another one was being changed

synthVars == <<rows, tx, todo, clock, unseen, retitled, together>>

Vods == RealVods \cup SyntheticVods
Existing == {v \in Vods : rows[v].there}
Made     == SyntheticVods \cap Existing
Now      == [v \in Existing |-> rows[v].columns]
InnerNow == [v \in Made |-> rows[v].segments]

AnySegments == Seq([src : Vods, start : Int, end : Int \cup {ToTheEnd}, at : Int])

\* The VODs of AtFirst are made in its order.
SynthAssumption ==
  /\ RealVods \cap SyntheticVods = {} /\ MaxDepth \in Nat
  /\ \A request \in Requests : request[1] = Kept \/ request[1] \in AnySegments
  /\ AtFirst \in Seq(SyntheticVods \X AnySegments)
  /\ \A i, j \in DOMAIN AtFirst : AtFirst[i][1] = AtFirst[j][1] => i = j
  /\ \A i \in DOMAIN AtFirst : SourcesOf(AtFirst[i][2]) \subseteq RealVods \cup {AtFirst[j][1] : j \in 1..(i - 1)}

Nothing == [duration |-> 0, chapters |-> {}]
NoRow   == [there |-> FALSE, columns |-> Nothing, updated |-> 0, segments |-> <<>>, supersedes |-> FALSE]
Idle    == [doing |-> "nothing", vod |-> CHOOSE v \in Vods : TRUE, segments |-> <<>>, supersedes |-> FALSE,
            began |-> 0, step |-> "begun", found |-> Nothing, overtaken |-> FALSE, beside |-> FALSE]

RealColumns(name) ==
  [duration |-> RealLength, chapters |-> {[name |-> name, start |-> 0, len |-> RealLength, restricted |-> FALSE]}]

\* SELECT ... FOR UPDATE, or the UPDATE of an edit.
HoldsRow(t, v) ==
  /\ tx[t].vod = v
  /\ \/ tx[t].doing = "edit"
     \/ tx[t].doing \in {"change", "remove", "recompose"} /\ tx[t].step # "begun"
Locked(v) == \E t \in Txs : HoldsRow(t, v)

Begin(t, doing, v, step) ==
  /\ tx[t] = Idle /\ clock < MaxBegins
  /\ clock' = clock + 1
  /\ tx' = [tx EXCEPT ![t] = [Idle EXCEPT !.doing = doing, !.vod = v, !.began = clock + 1, !.step = step]]

End(t) == tx' = [tx EXCEPT ![t] = Idle]

----------------------------------------------------------------------------
(* Checks.                                                                  *)

\* Mutant: another one that begins where this one does is no conflict.
OverlapInside(a, b) == a.src = b.src /\ a.start < b.start /\ b.start < a.end

Overlap(a, b) == a.src = b.src /\ Least(a.end, b.end) > Greatest(a.start, b.start)

\* _no_double_cover: of another synthetic VOD's segments only those of the same sources are read.
NoDoubleCover(v, segments) ==
  LET mine == Resolve(segments, DurationsOf(Now))
      Theirs(w) == Resolve(SelectSeq(rows[w].segments, LAMBDA s : s.src \in SourcesOf(segments)), DurationsOf(Now))
  IN  \A w \in Made \ {v} : rows[w].supersedes =>
        \A a \in ToSet(mine), b \in ToSet(Theirs(w)) : ~Overlap(a, b)

Checked(v, segments, supersedes) ==
  /\ Valid(segments, Now)
  /\ CheckNesting(v, segments, InnerNow)
  /\ supersedes => NoDoubleCover(v, segments)

Writes(t, v) == tx[t].vod = v /\ tx[t].doing \in {"edit", "create", "change", "recompose"}

\* History: a transaction that began before this one is yet to write one of the sources.
Overtaken(t, segments) ==
  \E u \in Txs \ {t} : tx[u].began < tx[t].began /\ \E v \in SourcesOf(segments) : Writes(u, v)

Read(t, segments, supersedes) ==
  tx' = [tx EXCEPT ![t] = [@ EXCEPT !.step = "checked", !.segments = segments, !.supersedes = supersedes,
                                   !.found = Derive(segments, Now),
                                   !.overtaken = Overtaken(t, segments),
                                   !.beside = \E u \in Txs \ {t} : tx[u].doing \in {"create", "change"}]]

----------------------------------------------------------------------------
(* create, change and remove.                                               *)

Create(t, v) ==
  /\ ~rows[v].there
  /\ Begin(t, "create", v, "begun")
  /\ UNCHANGED <<rows, todo, unseen, retitled, together>>

Change(t, v) ==
  /\ rows[v].there
  /\ Begin(t, "change", v, "begun")
  /\ UNCHANGED <<rows, todo, unseen, retitled, together>>

Delete(t, v) ==
  /\ rows[v].there
  /\ Begin(t, "remove", v, "begun")
  /\ UNCHANGED <<rows, todo, unseen, retitled, together>>

Lock(t) ==
  /\ tx[t].doing \in {"change", "remove"} /\ tx[t].step = "begun" /\ ~Locked(tx[t].vod)
  /\ IF rows[tx[t].vod].there THEN tx' = [tx EXCEPT ![t].step = "locked"] ELSE End(t)
  /\ UNCHANGED <<rows, todo, clock, unseen, retitled, together>>

\* _checked, its reads one step; a request names its segments, or a change keeps them.
Check(t, asked, supersedes) ==
  LET v == tx[t].vod
      segments == IF asked = Kept THEN rows[v].segments ELSE asked
  IN  /\ \/ tx[t].doing = "create" /\ tx[t].step = "begun" /\ asked # Kept
         \/ tx[t].doing = "change" /\ tx[t].step = "locked"
      /\ IF /\ tx[t].doing = "create" => ~rows[v].there
            /\ Checked(v, segments, supersedes)
         THEN Read(t, segments, supersedes) ELSE End(t)
      /\ UNCHANGED <<rows, todo, clock, unseen, retitled, together>>

\* Inserting a segment waits for the row lock of its source, which must still be there.
CanInsert(t) == \A v \in SourcesOf(tx[t].segments) : rows[v].there /\ \A u \in Txs \ {t} : v \in SyntheticVods => ~HoldsRow(u, v)

\* Mutant: a composition is dated when it is committed.
DatedAtCommit(t) == clock
DatedAt(t) == tx[t].began

Write(t) ==
  LET v == tx[t].vod
      row == [there |-> TRUE, columns |-> tx[t].found, updated |-> DatedAt(t), segments |-> tx[t].segments,
              supersedes |-> tx[t].supersedes]
      \* An UPDATE that changes nothing is not sent.
      same == rows[v] = [row EXCEPT !.updated = rows[v].updated]
  IN  /\ rows' = IF same THEN rows ELSE [rows EXCEPT ![v] = row]
      /\ unseen' = IF same THEN unseen ELSE IF tx[t].overtaken THEN unseen \cup {v} ELSE unseen \ {v}
      /\ retitled' = IF same THEN retitled ELSE retitled \ {v}
      /\ together' = IF tx[t].beside THEN together \cup {v} ELSE together
      /\ End(t)

CommitWrite(t) ==
  /\ tx[t].doing \in {"create", "change"} /\ tx[t].step = "checked"
  /\ tx[t].doing = "create" => ~rows[tx[t].vod].there
  /\ CanInsert(t)
  /\ Write(t)
  /\ UNCHANGED <<todo, clock>>

CommitDelete(t) ==
  LET v == tx[t].vod
  IN  /\ tx[t].doing = "remove" /\ tx[t].step = "locked"
      /\ rows' = IF \E w \in Made : v \in SourcesOf(rows[w].segments) THEN rows ELSE [rows EXCEPT ![v] = NoRow]
      /\ End(t)
      /\ UNCHANGED <<todo, clock, unseen, retitled, together>>

\* A lost connection, a deadlock, a conflict of the insert.
Abort(t) ==
  /\ tx[t].doing \in {"create", "change", "remove", "edit"}
  /\ End(t)
  /\ UNCHANGED <<rows, todo, clock, unseen, retitled, together>>

----------------------------------------------------------------------------
(* Other transactions on the VODs: an edit of a real one, and a change of a *)
(* synthetic one's title, which its UPDATE dates as one of its columns'.    *)

Edit(t, v) ==
  /\ v \in RealVods /\ rows[v].there /\ ~Locked(v)
  /\ Begin(t, "edit", v, "begun")
  /\ UNCHANGED <<rows, todo, unseen, retitled, together>>

CommitEdit(t) ==
  /\ tx[t].doing = "edit"
  /\ rows' = [rows EXCEPT ![tx[t].vod].columns = RealColumns(tx[t].began), ![tx[t].vod].updated = tx[t].began]
  /\ End(t)
  /\ UNCHANGED <<todo, clock, unseen, retitled, together>>

StaleIds == {v \in Made : \E u \in SourcesOf(rows[v].segments) : rows[u].updated > rows[v].updated}

Retitle(v) ==
  /\ v \in Made /\ ~Locked(v) /\ clock < MaxBegins
  /\ clock' = clock + 1
  /\ rows' = [rows EXCEPT ![v].updated = clock + 1]
  /\ unseen' = unseen \cup {u \in {v} : \E t \in Txs, s \in SourcesOf(rows[v].segments) : Writes(t, s)}
  /\ retitled' = retitled \cup (StaleIds \cap {v})
  /\ UNCHANGED <<tx, todo, together>>

----------------------------------------------------------------------------
(* recompose_stale, by the monitor.                                         *)

FindStale ==
  /\ todo = {} /\ StaleIds # {} /\ \A t \in Txs : tx[t].doing # "recompose"
  /\ todo' = StaleIds
  /\ UNCHANGED <<rows, tx, clock, unseen, retitled, together>>

\* FOR UPDATE SKIP LOCKED.
Recompose(t, v) ==
  /\ v \in todo /\ \A u \in Txs : tx[u].doing # "recompose"
  /\ todo' = todo \ {v}
  /\ IF v \in Made /\ ~Locked(v)
     THEN Begin(t, "recompose", v, "locked")
     ELSE UNCHANGED <<tx, clock>>
  /\ UNCHANGED <<rows, unseen, retitled, together>>

ReadSources(t) ==
  /\ tx[t].doing = "recompose" /\ tx[t].step = "locked"
  /\ Read(t, rows[tx[t].vod].segments, rows[tx[t].vod].supersedes)
  /\ UNCHANGED <<rows, todo, clock, unseen, retitled, together>>

CommitRecompose(t) ==
  LET v == tx[t].vod
  IN  /\ tx[t].doing = "recompose" /\ tx[t].step = "checked"
      /\ rows' = [rows EXCEPT ![v].columns = tx[t].found, ![v].updated = DatedAt(t)]
      /\ unseen' = IF tx[t].overtaken THEN unseen \cup {v} ELSE unseen \ {v}
      /\ retitled' = retitled \ {v}
      /\ End(t)
      /\ UNCHANGED <<todo, clock, together>>

----------------------------------------------------------------------------

\* The synthetic VODs of AtFirst are made already, each of real VODs or of those before it, all fresh.
RowAtFirst(columns, segments) ==
  [there |-> TRUE, columns |-> columns, updated |-> 0, segments |-> segments, supersedes |-> FALSE]

RowsAtFirst[n \in 0..Len(AtFirst)] ==
  IF n = 0 THEN [v \in Vods |-> IF v \in RealVods THEN RowAtFirst(RealColumns(0), <<>>) ELSE NoRow]
  ELSE [RowsAtFirst[n - 1] EXCEPT ![AtFirst[n][1]] =
          RowAtFirst(Derive(AtFirst[n][2], [v \in Vods |-> RowsAtFirst[n - 1][v].columns]), AtFirst[n][2])]

Init ==
  /\ rows = RowsAtFirst[Len(AtFirst)]
  /\ tx = [t \in Txs |-> Idle]
  /\ todo = {} /\ clock = 0 /\ unseen = {} /\ retitled = {} /\ together = {}

Next ==
  \/ \E t \in Txs :
       \/ Lock(t) \/ CommitWrite(t) \/ CommitDelete(t) \/ Abort(t)
       \/ CommitEdit(t) \/ ReadSources(t) \/ CommitRecompose(t)
       \/ \E request \in Requests : Check(t, request[1], request[2])
       \/ \E v \in RealVods : Edit(t, v)
       \/ \E v \in SyntheticVods : Create(t, v) \/ Change(t, v) \/ Delete(t, v) \/ Recompose(t, v)
  \/ \E v \in SyntheticVods : Retitle(v)
  \/ FindStale

Spec == Init /\ [][Next]_synthVars

----------------------------------------------------------------------------

TypeOK ==
  /\ \A v \in Vods : rows[v].updated \in 0..MaxBegins /\ (v \in RealVods => rows[v].there)
  /\ \A t \in Txs : tx[t].began \in 0..clock
  /\ todo \subseteq SyntheticVods /\ unseen \cup retitled \subseteq SyntheticVods /\ together \subseteq SyntheticVods

Fresh(v) == rows[v].columns = Derive(rows[v].segments, Now)

\* A synthetic VOD whose columns are not what its sources give is one recompose_stale picks: an edit of
\* a source, or its own composition, reaches the VODs made of it however the transactions interleave,
\* unless one that began before the composition writes the source after it was read (updatedAt is when
\* a transaction began), or the VOD was retitled while it was stale.
StaleIsKnown == \A v \in Made \ (unseen \cup retitled) : Fresh(v) \/ v \in StaleIds

\* "That is how a backfill or an edit of a source reaches the synthetic VODs made of it"
\* (synthetic.py): a retitled VOD's too.
EditsAreSeen == \A v \in Made \ unseen : Fresh(v) \/ v \in StaleIds

\* No synthetic VOD is made of a VOD that is gone or, through others, of itself, and no moment of a VOD
\* is superseded by two (check_nesting, _no_double_cover), unless they were checked side by side.
MadeSoundly ==
  /\ \A v \in Made : SourcesOf(rows[v].segments) \subseteq Existing
  /\ \A v \in Made : \A d \in 0..MaxDepth : v \notin Levels(rows[v].segments, InnerNow)[d] \/ together # {}
  /\ \A v, w \in {u \in Made \ together : rows[u].supersedes} : v # w =>
       \A a \in ToSet(Resolve(rows[v].segments, DurationsOf(Now))),
          b \in ToSet(Resolve(rows[w].segments, DurationsOf(Now))) : ~Overlap(a, b)
=============================================================================
