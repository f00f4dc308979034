------------------------------- MODULE Splices -------------------------------
(****************************************************************************)
(* Merging two VODs, splitting one, and undoing either (splices.py), next   *)
(* to jobs that refetch a VOD from Twitch.                                  *)
(*                                                                          *)
(* A request is one transaction.  Its row locks are taken with its checks,  *)
(* and held until its writes commit in a later step; an undo reads the      *)
(* splice it will undo before it has any lock.  A job is queued in two      *)
(* transactions, the check that its VOD is not spliced and the insert, and  *)
(* its step checks again, fetches, and then writes.                         *)
(****************************************************************************)
EXTENDS Timeline

CONSTANTS
  Originals,   \* VODs of Twitch, numbers; the id of VOD v is <<v>>, its halves are <<v, 2>>, ...
  Start,       \* Start[v]: vods.created_at, in seconds
  SideOf,      \* SideOf[v]: duration, chapters and uploads as they were archived
  Comments, CommentAt,  \* rows of logs and bot_logs: CommentAt[c] = [vod, at]
  Games, GameAt,        \* per-game uploads: GameAt[g] = [vod, start, end]
  GapOverrides,         \* "gap" of a merge request
  Computed,             \* no "gap": the start times give it
  Forces,               \* "force" of an undo request, a set of booleans
  Titles,               \* titles an admin can give
  Callers, Jobs,
  JobVods, EditVods,    \* the VODs jobs refetch and admins edit
  NoVod, NoCall, NoJob, NoEdit,
  MaxSplices,  \* bound: splices in a behaviour
  MaxEdits     \* bound: edits in a behaviour

\* What is archived: lengths in whole units, and positions on the VODs there are.
ASSUME SplicesAssumption ==
  /\ IsFiniteSet(Originals) /\ Originals \subseteq Nat /\ GapOverrides \subseteq Int
  /\ \A v \in Originals :
       /\ Start[v] \in Int /\ SideOf[v].duration \in Nat
       /\ SideOf[v] = [duration |-> SideOf[v].duration, chapters |-> SideOf[v].chapters, uploads |-> SideOf[v].uploads]
  /\ CommentAt \in [Comments -> [vod : {<<v>> : v \in Originals}, at : Nat]]
  /\ GameAt \in [Games -> [vod : {<<v>> : v \in Originals}, start : Nat, end : Nat]]
  /\ NoVod \notin [id : Seq(Int), offset : Nat]

VARIABLES
  vods,     \* the vods and emotes tables: id -> row
  chat,     \* logs and bot_logs
  games,    \* the games table
  splices,  \* vod_splices with its member tables, in id order
  call,     \* admin requests
  job,      \* refetching jobs
  edit,     \* an admin's edit between its check and its write
  edits

vars == <<vods, chat, games, splices, call, job, edit, edits>>

Row(v) == [start |-> Start[v], title |-> "archived", side |-> SideOf[v], locked |-> FALSE,
           emotes |-> {v}, merged |-> NoVod]

Init ==
  /\ vods = [i \in {<<v>> : v \in Originals} |-> Row(i[1])]
  /\ chat = CommentAt /\ games = GameAt
  /\ splices = <<>>
  /\ call = [c \in Callers |-> NoCall]
  /\ job = [j \in Jobs |-> NoJob]
  /\ edit = NoEdit /\ edits = 0

\* The columns an undo restores, and those it looks at for edits.
Fields(r)   == [title |-> r.title, side |-> r.side, locked |-> r.locked]
Editable(r) == <<r.title, r.side>>
Restored(r, f) == [r EXCEPT !.title = f.title, !.side = f.side, !.locked = f.locked]

----------------------------------------------------------------------------
(* Locks and checks.                                                        *)

Ids    == DOMAIN vods
Holds(c) == IF call[c] # NoCall /\ call[c].pc = "locked" THEN call[c].ids ELSE {}
Unheld(callers, ids) == \A c \in callers : Holds(c) \cap ids = {}
Unlocked(ids) == Unheld(Callers, ids)

NoActiveJobs(ids) == \A j \in Jobs : job[j] # NoJob /\ job[j].pc # "asked" => job[j].vod \notin ids

Touched(k) == {splices[k].vod, splices[k].other}
Active     == {k \in DOMAIN splices : ~splices[k].undone}
Blocked(k) == \E m \in Active : m > k /\ Touched(m) \cap Touched(k) # {}

SpliceReason(v) == (v \in Ids /\ vods[v].merged # NoVod) \/ \E k \in Active : v \in Touched(k)

\* Mutant: undo without a look at what was edited since.
UneditedNever(k) == TRUE
Unedited(k) == \A v \in Touched(k) : Editable(vods[v]) = splices[k].result[v]

\* _undo's checks, with the rows locked.
CanUndo(k, force) ==
  /\ Touched(k) \subseteq Ids
  /\ ~Blocked(k) /\ NoActiveJobs(Touched(k))
  /\ force \/ Unedited(k)

Room == Len(splices) + Cardinality({c \in Callers : call[c] # NoCall /\ call[c].op \in {"merge", "split"}}) < MaxSplices

Idle(c) == call[c] = NoCall
Ask(c, request) == call' = [call EXCEPT ![c] = request]
Rows == <<vods, chat, games, splices>>

----------------------------------------------------------------------------
(* What moves with a VOD's rows.                                            *)

CommentsOf(v) == {c \in Comments : chat[c].vod = v}
MovedChat(to, by, which) ==
  [c \in Comments |-> IF c \in which THEN [vod |-> to, at |-> chat[c].at + by] ELSE chat[c]]
MovedGames(to, by, which) ==
  [g \in Games |-> IF g \in which
                   THEN [vod |-> to, start |-> games[g].start + by, end |-> games[g].end + by] ELSE games[g]]

\* The VODs merged into one, at an offset.
Pointing(from, atLeast) ==
  {v \in Ids : vods[v].merged # NoVod /\ vods[v].merged.id = from /\ vods[v].merged.offset >= atLeast}

\* _repoint: the rows, and what _unpoint puts back.
Repointed(which, to, by) ==
  [v \in Ids |-> IF v \in which THEN [vods[v] EXCEPT !.merged = [id |-> to, offset |-> @.offset + by]] ELSE vods[v]]
OldPoints(which) == [v \in which |-> vods[v].merged]
Unpointed(rows, old) == [v \in DOMAIN rows |-> IF v \in DOMAIN old THEN [rows[v] EXCEPT !.merged = old[v]] ELSE rows[v]]

----------------------------------------------------------------------------
(* Merge.                                                                   *)

OffsetOf(a, b, gap) == IF gap = Computed THEN vods[b].start - vods[a].start ELSE vods[a].side.duration + gap

MergeChecks(c, a, b, gap) ==
  /\ Idle(c) /\ a # b /\ Room /\ Unlocked({a, b})
  /\ vods[a].merged = NoVod /\ vods[b].merged = NoVod
  /\ vods[a].start <= vods[b].start
  /\ NoActiveJobs({a, b})
  /\ CanMerge(vods[a].side, vods[b].side, OffsetOf(a, b, gap))
  /\ Ask(c, [op |-> "merge", pc |-> "locked", ids |-> {a, b}, a |-> a, b |-> b, offset |-> OffsetOf(a, b, gap)])
  /\ UNCHANGED <<Rows, job, edit, edits>>

\* What a merge leaves of the rows, and the splice it records.
MergedRows(a, b, offset) ==
  [Repointed(Pointing(b, 0), a, offset) EXCEPT
     ![a] = [vods[a] EXCEPT !.side = PlanMerge(vods[a].side, vods[b].side, offset), !.locked = TRUE,
                            !.emotes = vods[a].emotes \cup vods[b].emotes],
     ![b] = [vods[b] EXCEPT !.side = [vods[b].side EXCEPT !.chapters = {}, !.uploads = {}],
                            !.merged = [id |-> a, offset |-> offset]]]

GamesOf(v) == {g \in Games : games[g].vod = v}
MergeRecord(a, b, offset) ==
  [kind |-> "merge", vod |-> a, other |-> b, offset |-> offset, undone |-> FALSE,
   join |-> JoinOf(vods[a].side, vods[b].side, offset), members |-> CommentsOf(b), games |-> GamesOf(b),
   target |-> Fields(vods[a]), source |-> Fields(vods[b]), emotes |-> vods[a].emotes,
   repointed |-> OldPoints(Pointing(b, 0)),
   result |-> [v \in {a, b} |-> Editable(MergedRows(a, b, offset)[v])]]

MergeCommits(c) ==
  /\ call[c] # NoCall /\ call[c].op = "merge"
  /\ LET a == call[c].a
         b == call[c].b
         offset == call[c].offset
     IN  /\ Unheld(Callers \ {c}, Pointing(b, 0))
         /\ vods' = MergedRows(a, b, offset)
         /\ chat' = MovedChat(a, offset, CommentsOf(b))
         /\ games' = MovedGames(a, offset, GamesOf(b))
         /\ splices' = Append(splices, MergeRecord(a, b, offset))
  /\ call' = [call EXCEPT ![c] = NoCall]
  /\ UNCHANGED <<job, edit, edits>>

----------------------------------------------------------------------------
(* Split.                                                                   *)

FreeId(v) == Append(v, CHOOSE n \in 2..(Cardinality(Ids) + 2) :
                         Append(v, n) \notin Ids /\ \A m \in 2..(n - 1) : Append(v, m) \in Ids)

\* The merges into a VOD whose join is at this point, and that nothing blocks.
Joins(a, at) ==
  {k \in Active : /\ splices[k].kind = "merge" /\ splices[k].vod = a /\ ~Blocked(k)
                  /\ splices[k].join[1] - Slack <= at /\ at <= splices[k].join[2] + Slack}

SplitChecks(c, a, at) ==
  /\ Idle(c) /\ Room /\ Unlocked({a}) /\ vods[a].merged = NoVod /\ NoActiveJobs({a})
  /\ Joins(a, at) = {} /\ CanSplit(vods[a].side, at)
  /\ \A g \in Games : games[g].vod = a => ~(games[g].start < at /\ at < games[g].end)
  /\ Ask(c, [op |-> "split", pc |-> "locked", ids |-> {a}, a |-> a, at |-> at])
  /\ UNCHANGED <<Rows, job, edit, edits>>

\* At a merge's join the split undoes that merge, in the same transaction.
SplitAtJoin(c, a, at, force) ==
  /\ Idle(c) /\ Unlocked({a}) /\ vods[a].merged = NoVod /\ NoActiveJobs({a})
  /\ Joins(a, at) # {}
  /\ LET k == Max(Joins(a, at))
     IN  /\ Unlocked(Touched(k)) /\ CanUndo(k, force)
         /\ Ask(c, [op |-> "undo", pc |-> "locked", ids |-> Touched(k), splice |-> k, force |-> force])
  /\ UNCHANGED <<Rows, job, edit, edits>>

\* What a split leaves of the rows, its half a row of its own, and the splice it records.
SplitRows(a, at) ==
  LET plan == PlanSplit(vods[a].side, at)
      kept == [Repointed(Pointing(a, at), FreeId(a), -at) EXCEPT
                 ![a] = [vods[a] EXCEPT !.side = plan.first, !.locked = TRUE]]
      half == [vods[a] EXCEPT !.start = vods[a].start + at, !.side = plan.second, !.locked = TRUE]
  IN  [v \in Ids \cup {FreeId(a)} |-> IF v = FreeId(a) THEN half ELSE kept[v]]

GamesFrom(a, at) == {g \in GamesOf(a) : games[g].start >= at}
SplitRecord(a, at) ==
  [kind |-> "split", vod |-> a, other |-> FreeId(a), offset |-> at, undone |-> FALSE,
   join |-> <<0, 0>>, members |-> {}, games |-> GamesFrom(a, at),
   target |-> Fields(vods[a]), source |-> Fields(vods[a]), emotes |-> vods[a].emotes,
   repointed |-> OldPoints(Pointing(a, at)),
   result |-> [v \in {a, FreeId(a)} |-> Editable(SplitRows(a, at)[v])]]

SplitCommits(c) ==
  /\ call[c] # NoCall /\ call[c].op = "split"
  /\ LET a == call[c].a
         at == call[c].at
     IN  /\ Unheld(Callers \ {c}, Pointing(a, at))
         /\ vods' = SplitRows(a, at)
         /\ chat' = MovedChat(FreeId(a), -at, {m \in CommentsOf(a) : chat[m].at >= at})
         /\ games' = MovedGames(FreeId(a), -at, GamesFrom(a, at))
         /\ splices' = Append(splices, SplitRecord(a, at))
  /\ call' = [call EXCEPT ![c] = NoCall]
  /\ UNCHANGED <<job, edit, edits>>

----------------------------------------------------------------------------
(* Undo: unmerge of a named pair, unsplit of the latest or a named half.    *)

PickUndo(c, k, force) ==
  /\ Idle(c) /\ k \in Active
  /\ Ask(c, [op |-> "undo", pc |-> "picked", ids |-> Touched(k), splice |-> k, force |-> force])
  /\ UNCHANGED <<Rows, job, edit, edits>>

UndoChecks(c) ==
  /\ call[c] # NoCall /\ call[c].pc = "picked" /\ Unlocked(call[c].ids)
  /\ call' = [call EXCEPT ![c] = IF CanUndo(call[c].splice, call[c].force) THEN [@ EXCEPT !.pc = "locked"] ELSE NoCall]
  /\ UNCHANGED <<Rows, job, edit, edits>>

\* Mutant: a merge's chat is told apart by its offset.
UnmergedByOffset(sp) ==
  [chat  |-> MovedChat(sp.other, -sp.offset, {m \in CommentsOf(sp.vod) : chat[m].at >= sp.offset}),
   games |-> MovedGames(sp.other, -sp.offset, sp.games),
   vods  |-> [vods EXCEPT ![sp.vod] = [vods[sp.vod] EXCEPT !.emotes = sp.emotes],
                          ![sp.other] = [Restored(vods[sp.other], sp.source) EXCEPT !.merged = NoVod]]]

\* _unmerge_rows: the comments and games the merge recorded.
Unmerged(sp) ==
  [chat  |-> MovedChat(sp.other, -sp.offset, sp.members),
   games |-> MovedGames(sp.other, -sp.offset, sp.games),
   vods  |-> [vods EXCEPT ![sp.vod] = [vods[sp.vod] EXCEPT !.emotes = sp.emotes],
                          ![sp.other] = [Restored(vods[sp.other], sp.source) EXCEPT !.merged = NoVod]]]

\* _unsplit_rows: everything on the half.
Unsplit(sp) ==
  [chat  |-> MovedChat(sp.vod, sp.offset, CommentsOf(sp.other)),
   games |-> MovedGames(sp.vod, sp.offset, GamesOf(sp.other)),
   vods  |-> [v \in Ids \ {sp.other} |-> vods[v]]]

UndoCommits(c) ==
  /\ call[c] # NoCall /\ call[c].op = "undo" /\ call[c].pc = "locked"
  /\ LET k  == call[c].splice
         sp == splices[k]
         undone == IF sp.kind = "merge" THEN Unmerged(sp) ELSE Unsplit(sp)
     IN  /\ Unheld(Callers \ {c}, DOMAIN sp.repointed)
         /\ chat' = undone.chat /\ games' = undone.games
         /\ vods' = [Unpointed(undone.vods, sp.repointed) EXCEPT ![sp.vod] = Restored(@, sp.target)]
         /\ splices' = [splices EXCEPT ![k] = [sp EXCEPT !.undone = TRUE, !.members = {}]]
  /\ call' = [call EXCEPT ![c] = NoCall]
  /\ UNCHANGED <<job, edit, edits>>

----------------------------------------------------------------------------
(* Others that write the rows: an admin's edit, and a job's refetch.        *)

\* patch_vod: a merged VOD is refused, and the fields are saved in a transaction of their own.
AskEdit(v, title) ==
  /\ edit = NoEdit /\ edits < MaxEdits /\ vods[v].merged = NoVod /\ title # vods[v].title
  /\ edit' = [vod |-> v, title |-> title]
  /\ UNCHANGED <<Rows, call, job, edits>>

SaveEdit ==
  /\ edit # NoEdit /\ Unlocked({edit.vod})
  /\ vods' = IF edit.vod \in Ids THEN [vods EXCEPT ![edit.vod].title = edit.title] ELSE vods
  /\ edit' = NoEdit /\ edits' = edits + 1
  /\ UNCHANGED <<chat, games, splices, call, job>>

AskJob(j, v) ==
  /\ job[j] = NoJob /\ ~SpliceReason(v)
  /\ job' = [job EXCEPT ![j] = [vod |-> v, pc |-> "asked"]]
  /\ UNCHANGED <<Rows, call, edit, edits>>

InsertJob(j) ==
  /\ job[j] # NoJob /\ job[j].pc = "asked"
  /\ job' = [job EXCEPT ![j].pc = "queued"]
  /\ UNCHANGED <<Rows, call, edit, edits>>

\* refuse_if_spliced: the step refuses for good, or fetches.
StartStep(j) ==
  /\ job[j] # NoJob /\ job[j].pc = "queued"
  /\ job' = [job EXCEPT ![j] = IF SpliceReason(@.vod) THEN NoJob ELSE [@ EXCEPT !.pc = "fetching"]]
  /\ UNCHANGED <<Rows, call, edit, edits>>

\* The chapters step with "force": Twitch's chapters of the VOD of that id.
WriteStep(j) ==
  /\ job[j] # NoJob /\ job[j].pc = "fetching" /\ Unlocked({job[j].vod})
  /\ vods' = [vods EXCEPT ![job[j].vod].side.chapters = SideOf[job[j].vod[1]].chapters]
  /\ job' = [job EXCEPT ![j] = NoJob]
  /\ UNCHANGED <<chat, games, splices, call, edit, edits>>

----------------------------------------------------------------------------
\* The whole seconds of a VOD.
Points(a) == {at \in 1..(vods[a].side.duration - 1) : at % Second = 0}

Request(c) ==
  \/ \E a, b \in Ids, gap \in GapOverrides \cup {Computed} : MergeChecks(c, a, b, gap)
  \/ \E a \in Ids : \E at \in Points(a) :
       SplitChecks(c, a, at) \/ \E force \in Forces : SplitAtJoin(c, a, at, force)
  \/ \E k \in DOMAIN splices, force \in Forces : PickUndo(c, k, force)
  \/ MergeCommits(c) \/ SplitCommits(c) \/ UndoChecks(c) \/ UndoCommits(c)

Refetch(j) == (\E v \in JobVods : AskJob(j, v)) \/ InsertJob(j) \/ StartStep(j) \/ WriteStep(j)

Next ==
  \/ \E c \in Callers : Request(c)
  \/ \E v \in Ids \cap EditVods, title \in Titles : AskEdit(v, title)
  \/ SaveEdit
  \/ \E j \in Jobs : Refetch(j)

Spec == Init /\ [][Next]_vars

----------------------------------------------------------------------------
(* Properties                                                               *)

Places == [vod : Ids, at : Nat]

TypeOK ==
  /\ \A v \in Ids : /\ vods[v].side.duration \in Nat /\ vods[v].start \in Nat
                     /\ vods[v].merged \in {NoVod} \cup [id : Ids, offset : Nat]
                     /\ \A ch \in vods[v].side.chapters : ch.start \in Nat /\ ch.len \in Nat
                     /\ \A e, f \in vods[v].side.uploads : e.type = f.type /\ e.part = f.part => e = f
  /\ chat \in [Comments -> Places]
  /\ \A g \in Games : games[g].vod \in Ids /\ games[g].start \in Nat /\ games[g].end >= games[g].start

\* A splice takes some places elsewhere: those of the source, or those past the cut.
Moves(sp, place) ==
  IF sp.kind = "merge" THEN place.vod = sp.other ELSE place.vod = sp.vod /\ place.at >= sp.offset
Landing(sp, place) ==
  IF sp.kind = "merge" THEN [vod |-> sp.vod, at |-> place.at + sp.offset]
                       ELSE [vod |-> sp.other, at |-> place.at - sp.offset]

\* Where a place is after each of some splices, the undone ones aside.
Trail(sps, place) ==
  LET along[k \in 0..Len(sps)] ==
        IF k = 0 THEN place
        ELSE IF sps[k].undone \/ ~Moves(sps[k], along[k - 1]) THEN along[k - 1] ELSE Landing(sps[k], along[k - 1])
  IN  along

Carried(vod, at) == Trail(splices, [vod |-> vod, at |-> at])[Len(splices)]

\* "Undo restores every row as it was, chat included" (README.md): everything is where the splices
\* that are not undone, and only they, put it, in whatever order the others came and went: each
\* comment, each per-game upload, each redirect, the VODs there are, and the uploads and length of
\* a VOD no splice touches.
UndoLeavesNoTrace ==
  /\ \A c \in Comments : chat[c] = Carried(CommentAt[c].vod, CommentAt[c].at)
  /\ \A g \in Games :
       LET place == Carried(GameAt[g].vod, GameAt[g].start)
       IN  games[g] = [vod |-> place.vod, start |-> place.at, end |-> place.at + GameAt[g].end - GameAt[g].start]
  /\ \A v \in Ids :
       LET place == Carried(v, 0)
       IN  vods[v].merged = IF place.vod = v THEN NoVod ELSE [id |-> place.vod, offset |-> place.at]
  /\ Ids = {<<v>> : v \in Originals} \cup {splices[k].other : k \in {m \in Active : splices[m].kind = "split"}}
  /\ \A v \in Originals : (\A k \in Active : <<v>> \notin Touched(k)) =>
       /\ vods[<<v>>].side.duration = SideOf[v].duration /\ vods[<<v>>].side.uploads = SideOf[v].uploads
       /\ vods[<<v>>].emotes = {v}

\* The first frame of an upload, on the VOD that lists it.
FrameOf(side, e) ==
  VodTime(Laid(side, e.type), Total([i \in 1..Cardinality({f \in side.uploads : f.type = e.type /\ f.part < e.part}) |->
                                       Parts(side.uploads, e.type)[i].dur]))

\* The upload that plays, or played last, at a moment of a VOD as it was archived.
PlaysAt(side, at) ==
  {e \in side.uploads : /\ e.type = PlayedType(UploadTypes(side.uploads)) /\ FrameOf(side, e) <= at
                        /\ \A f \in side.uploads : f.type = e.type /\ f.part > e.part => FrameOf(side, f) > at}

\* How far into which upload a comment was said, nowhere if after the VOD's end.
SaidOver ==
  [c \in Comments |->
     LET side == SideOf[CommentAt[c].vod[1]]
         at   == CommentAt[c].at
     IN  IF at >= side.duration THEN {} ELSE {[id |-> e.id, into |-> at - FrameOf(side, e)] : e \in PlaysAt(side, at)}]

\* "So every comment keeps its place against the video" (splices.py): a comment said before the end
\* of a VOD is as far into the upload it was said over as it ever was, wherever that is listed now.
ChatKeepsSync ==
  \A c \in Comments : \A said \in SaidOver[c] :
    \E f \in vods[chat[c].vod].side.uploads :
      f.id = said.id /\ chat[c].at - FrameOf(vods[chat[c].vod].side, f) = said.into

\* "An undo that would throw away edits made since is refused" (README.md): only an edit, or an
\* undo that was forced, changes a title.
EditsKept ==
  [][\A v \in Ids \cap Ids' : vods'[v].title # vods[v].title =>
       edits' # edits \/ \E c \in Callers : call[c] # NoCall /\ call'[c] = NoCall /\ call[c].force]_vars

=============================================================================
