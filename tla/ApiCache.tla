------------------------------- MODULE ApiCache -------------------------------
(****************************************************************************)
(* The public API's cached responses (middleware.py), dropped when the      *)
(* database says that a VOD, its games or its chat changed                  *)
(* (invalidation.py, the notices of synthetic.py and vods.py).              *)
(*                                                                          *)
(* A response is the versions of the rows it is made from.  Entries do not  *)
(* touch each other: a behaviour follows one of them.                       *)
(****************************************************************************)
EXTENDS Integers, Sequences, SequencesExt

CONSTANTS
  RealVods,
  SourcesOf,      \* synthetic VOD -> the real VODs it is made of
  None,
  MaxWrites       \* bound

SyntheticVods == DOMAIN SourcesOf
Vods == RealVods \cup SyntheticVods
NoVod == "none"

\* A synthetic VOD is made of real ones.
CacheAssumption ==
  /\ NoVod \notin Vods
  /\ \A s \in SyntheticVods : IsFiniteSet(SourcesOf[s]) /\ SourcesOf[s] \subseteq RealVods

VARIABLES
  rows,      \* VOD -> [row, shown, chat, segments]: versions of its row and games, chat and emotes, segments
  key,       \* the entry followed: <<kind, VOD>>
  cached,    \* its response, or None
  render,    \* [step, body, passed]: the render under way; passed: an invalidation came after its read
  outdated,  \* history: the cached response was read before an invalidation of it, and cached after
  listener,  \* "down", "listening" (before the caches are cleared) or "up"
  notices,   \* sent to the listener: <<"changed" or "moved", VOD>>
  writes     \* a count, for the bound

cacheVars == <<rows, key, cached, render, outdated, listener, notices, writes>>

NoRender == [step |-> "none", body |-> None, passed |-> FALSE]

Keys == {<<"vods?", NoVod>>, <<"games", NoVod>>} \cup ({"vods/", "emotes", "chat"} \X Vods)

----------------------------------------------------------------------------
(* What a response is made from.                                            *)

MadeOf(v)  == IF v \in SyntheticVods THEN SourcesOf[v] ELSE {}
MadeFrom(v) == {s \in SyntheticVods : v \in SourcesOf[s]}

\* attach_games and attach_segments: a synthetic VOD's sources, and what a source appears in.
OwnAndSources(v) ==
  [own |-> <<rows[v].row, rows[v].segments>>,
   sources |-> [u \in MadeOf(v) |-> rows[u].row],
   appears |-> [s \in MadeFrom(v) |-> rows[s].segments]]

\* ... with the title of each synthetic VOD it appears in, unless that one is hidden.
Titles(v) == [s \in MadeFrom(v) |-> IF rows[s].shown THEN rows[s].row ELSE None]

\* A hidden VOD is left out, or answers as missing, which is not cached.
Missing(k) == k[2] \in Vods /\ ~rows[k[2]].shown

Body(k) ==
  CASE k[1] = "vods/"  -> OwnAndSources(k[2])
    [] k[1] \in {"vods?", "games"} -> [v \in {u \in Vods : rows[u].shown} |-> OwnAndSources(v)]
    [] k[1] = "emotes" -> rows[k[2]].chat
    [] k[1] = "chat"   -> <<rows[k[2]].chat, rows[k[2]].segments>>

Response(k) == IF Missing(k) THEN None ELSE <<Body(k), IF k[1] = "vods/" THEN Titles(k[2]) ELSE None>>

----------------------------------------------------------------------------
(* get_or_render: concurrent misses share a render.                         *)

Miss ==
  /\ cached = None /\ render = NoRender
  /\ render' = [render EXCEPT !.step = "reading"]
  /\ UNCHANGED <<rows, key, cached, outdated, listener, notices, writes>>

ReadRows ==
  /\ render.step = "reading"
  /\ render' = IF Missing(key) THEN NoRender ELSE [render EXCEPT !.step = "read", !.body = Response(key)]
  /\ UNCHANGED <<rows, key, cached, outdated, listener, notices, writes>>

Fill ==
  /\ render.step = "read"
  /\ cached' = render.body /\ outdated' = render.passed
  /\ render' = NoRender
  /\ UNCHANGED <<rows, key, listener, notices, writes>>

\* The time to live, or the least recently used entry of a full cache.
Expire ==
  /\ cached # None
  /\ cached' = None /\ outdated' = FALSE
  /\ UNCHANGED <<rows, key, render, listener, notices, writes>>

----------------------------------------------------------------------------
(* VodInvalidator.                                                          *)

\* Mutant: a change drops the VOD's own entries and the lists.
DropsOwn(notice, k) ==
  IF notice[1] = "changed"
  THEN k \in {<<"vods?", NoVod>>, <<"games", NoVod>>, <<"vods/", notice[2]>>}
  ELSE k \in {<<"emotes", notice[2]>>, <<"chat", notice[2]>>}

\* invalidate, and rows_moved.
Drops(notice, k) ==
  LET v == notice[2]
  IN  \/ /\ notice[1] = "changed"
         /\ \/ k \in {<<"vods?", NoVod>>, <<"games", NoVod>>, <<"vods/", v>>}
            \/ k[1] = "vods/" /\ k[2] \in SyntheticVods
            \/ k = <<"chat", v>> /\ v \in SyntheticVods
      \/ notice[1] = "moved" /\ k \in {<<"emotes", v>>, <<"chat", v>>}

Invalidated ==
  /\ cached' = None /\ outdated' = FALSE
  /\ render' = [render EXCEPT !.passed = render.step = "read"]

Notified ==
  /\ notices # <<>>
  /\ notices' = Tail(notices)
  /\ IF Drops(Head(notices), key) THEN Invalidated ELSE UNCHANGED <<cached, render, outdated>>
  /\ UNCHANGED <<rows, key, listener, writes>>

Listen ==
  /\ listener = "down"
  /\ listener' = "listening"
  /\ UNCHANGED <<rows, key, cached, render, outdated, notices, writes>>

\* Anything edited while nothing was heard.
ClearAll ==
  /\ listener = "listening"
  /\ listener' = "up"
  /\ Invalidated
  /\ UNCHANGED <<rows, key, notices, writes>>

Lost ==
  /\ listener # "down"
  /\ listener' = "down" /\ notices' = <<>>
  /\ UNCHANGED <<rows, key, cached, render, outdated, writes>>

----------------------------------------------------------------------------
(* Commits and the notices they send.                                       *)

Commit(new, sent) ==
  /\ writes < MaxWrites
  /\ rows' = new /\ writes' = writes + 1
  /\ notices' = IF listener = "down" THEN notices ELSE notices \o sent
  /\ UNCHANGED <<key, cached, render, outdated, listener>>

\* Any write to the row or its games: the triggers of migration 0006.
WriteRow(v) == Commit([rows EXCEPT ![v].row = @ + 1], <<<<"changed", v>>>>)

\* save_vod, update_vod: a VOD hidden or shown.
Hide(v) == Commit([rows EXCEPT ![v].shown = ~@], <<<<"moved", v>>, <<"changed", v>>>>)

\* A merge or split, a chat or emotes job: notify_rows_moved.
MoveRows(v) == Commit([rows EXCEPT ![v].chat = @ + 1], <<<<"moved", v>>>>)

\* synthetic.change: the VOD's row, and a notice for each source.
ChangeSegments(s) ==
  LET ids == SetToSeq(SourcesOf[s])
  IN  Commit([rows EXCEPT ![s].segments = @ + 1, ![s].row = @ + 1],
             Append([i \in DOMAIN ids |-> <<"changed", ids[i]>>], <<"changed", s>>))

----------------------------------------------------------------------------

Init ==
  /\ rows = [v \in Vods |-> [row |-> 0, shown |-> TRUE, chat |-> 0, segments |-> 0]]
  /\ key \in Keys
  /\ cached = None /\ render = NoRender /\ outdated = FALSE
  /\ listener = "down" /\ notices = <<>> /\ writes = 0

Next ==
  \/ Miss \/ ReadRows \/ Fill \/ Expire
  \/ Notified \/ Listen \/ ClearAll \/ Lost
  \/ \E v \in Vods : WriteRow(v) \/ Hide(v)
  \/ \E v \in RealVods : MoveRows(v)
  \/ \E s \in SyntheticVods : ChangeSegments(s)

Spec == Init /\ [][Next]_cacheVars

----------------------------------------------------------------------------

TypeOK ==
  /\ key \in Keys /\ listener \in {"down", "listening", "up"}
  /\ render.step \in {"none", "reading", "read"} /\ outdated \in BOOLEAN
  /\ \A i \in DOMAIN notices : notices[i] \in {"changed", "moved"} \X Vods

Heard == listener = "up" /\ ~\E i \in DOMAIN notices : Drops(notices[i], key)

\* While the listener is connected, a cached response is what its rows say, or a notice on its way
\* drops it: whichever VOD, source or synthetic VOD was edited, hidden or moved, and however often the
\* connection was lost (invalidation.py), unless its rows were read before an invalidation that came
\* before it was cached. A source keeps the titles of the synthetic VODs it appears in.
CacheIsCurrent == Heard /\ cached # None => outdated \/ (~Missing(key) /\ cached[1] = Body(key))
=============================================================================
