------------------------------- MODULE VodEdits -------------------------------
(****************************************************************************)
(* The hand edits of one VOD (the routes of admin.py, with the checks of    *)
(* vod_edits.py): its duration, chapters and games rows, each read in one   *)
(* session and written in another; and what writes the same columns beside  *)
(* them: the PATCH of /api/v2, which holds the row's lock from its read to  *)
(* its commit, the chapters step (steps/metadata.py), a duration from       *)
(* Twitch.                                                                  *)
(*                                                                          *)
(* Times are seconds; a chapter is [start, end], its end being its length,  *)
(* as stored. A games row has no more than its [start, end] in the VOD.     *)
(****************************************************************************)
EXTENDS Integers, Sequences, FiniteSets, FiniteSetsExt

CONSTANTS
  Calls,                 \* requests and jobs at a time
  Durations,             \* HH:MM:SS that are set, 0: unknown
  Chapters, Games,       \* the lists that are sent
  TwitchDuration, FromTwitch,  \* the VOD's on Twitch, and its chapters there
  DURATION_SLACK,
  MaxEdits               \* bound

EditsAssumption ==
  /\ Durations \subseteq Nat /\ TwitchDuration \in Nat /\ DURATION_SLACK \in Nat
  /\ FromTwitch \in Seq([start : Nat, end : Nat])
  /\ Chapters \subseteq Seq([start : Nat, end : Nat]) /\ Games \subseteq Seq([start : Nat, end : Nat])

Ops == {"chapters", "games", "duration", "step", "forced", "twitch"}

VARIABLES
  vod,        \* [duration, chapters, locked]: the row
  games,      \* its games rows
  calls,      \* call -> [op, step, vod, gamesEnd]: vod as it was read
  byHand,     \* history: the duration was set by hand last
  overtaken,  \* history: those of "chapters", "games" that were written or left beside a duration that
              \* whoever wrote last had not read, or that come from Twitch
  lockedTo,   \* history: the chapters last locked
  stepped,    \* history: since then a step wrote that was forced, or had read the row before the lock
  edits       \* for the bound

editVars == <<vod, games, calls, byHand, overtaken, lockedTo, stepped, edits>>

Idle == [op |-> "none", step |-> "idle", vod |-> [duration |-> 0, chapters |-> <<>>, locked |-> FALSE], gamesEnd |-> 0, games |-> <<>>]
Elements(list) == {list[i] : i \in DOMAIN list}

----------------------------------------------------------------------------
(* vod_edits.py                                                             *)

\* Mutant: a chapter's end is taken for where it ends.
ContentEndOfEnds(list) == Max({0} \cup {ch.end : ch \in Elements(list)})
ContentEnd(list)       == Max({0} \cup {ch.start + ch.end : ch \in Elements(list)})
GamesEnd(rows)         == Max({0} \cup {g.end : g \in Elements(rows)})

\* chapters, games: sorted, without overlaps, inside a duration that is known.
ChaptersFit(list, duration) ==
  /\ \A i, k \in DOMAIN list : i < k => list[i].start + list[i].end <= list[k].start
  /\ duration > 0 => \A ch \in Elements(list) : ch.start + ch.end <= duration + DURATION_SLACK
GamesFit(rows, duration) ==
  /\ \A i, k \in DOMAIN rows : i < k => rows[i].end <= rows[k].start
  /\ duration > 0 => \A g \in Elements(rows) : g.end <= duration + DURATION_SLACK

\* check_fits
CheckFits(list, gamesEnd, seconds) ==
  ContentEnd(list) <= seconds + DURATION_SLACK /\ gamesEnd <= seconds + DURATION_SLACK

----------------------------------------------------------------------------

Ends(c)     == calls' = [calls EXCEPT ![c] = Idle]
At(c, op)   == calls[c].op = op /\ calls[c].step = "read"
History     == <<byHand, overtaken, lockedTo, stepped>>

\* require_vod, and get_vod of the step: without force it leaves locked chapters alone.
Read(c) ==
  \E op \in Ops :
    /\ calls[c] = Idle /\ edits < MaxEdits
    /\ op = "step" => ~vod.locked
    /\ calls' = [calls EXCEPT ![c] = [Idle EXCEPT !.op = op, !.step = "read", !.vod = vod]]
    /\ edits' = edits + 1
    /\ UNCHANGED <<vod, games, History>>

\* An UPDATE of the row, or an INSERT of a row that refers to it, waits for the lock.
RowFree == \A c \in Calls : calls[c].step # "locked"

\* PATCH of /api/v2: SELECT ... FOR UPDATE, and the games rows in the same transaction.
Lock(c) ==
  /\ calls[c] = Idle /\ RowFree /\ edits < MaxEdits
  /\ calls' = [calls EXCEPT ![c] = [Idle EXCEPT !.op = "patch", !.step = "locked", !.vod = vod, !.gamesEnd = GamesEnd(games)]]
  /\ edits' = edits + 1
  /\ UNCHANGED <<vod, games, History>>

LockedPatch(c) ==
  \E seconds \in Durations :
    /\ calls[c].step = "locked"
    /\ CheckFits(calls[c].vod.chapters, calls[c].gamesEnd, seconds)
    /\ vod' = [vod EXCEPT !.duration = seconds]
    /\ byHand' = TRUE /\ overtaken' = {}
    /\ Ends(c)
    /\ UNCHANGED <<games, lockedTo, stepped, edits>>

\* The request is refused, or the step finds no chapters on Twitch.
Refused(c) ==
  /\ calls[c] # Idle
  /\ Ends(c)
  /\ UNCHANGED <<vod, games, History, edits>>

\* What stands beside a duration it was not checked with.
Beside(what, checked) == overtaken' = IF checked THEN overtaken \ {what} ELSE overtaken \cup {what}

PutChapters(c) ==
  \E list \in Chapters, locked \in BOOLEAN :
    /\ At(c, "chapters") /\ RowFree
    /\ ChaptersFit(list, calls[c].vod.duration)
    /\ vod' = [vod EXCEPT !.chapters = list, !.locked = locked]
    /\ Beside("chapters", calls[c].vod.duration = vod.duration)
    /\ lockedTo' = IF locked THEN list ELSE lockedTo
    /\ stepped' = FALSE
    /\ Ends(c)
    /\ UNCHANGED <<games, byHand, edits>>

PutGames(c) ==
  \E rows \in Games :
    /\ At(c, "games") /\ (rows # <<>> => RowFree)
    /\ GamesFit(rows, calls[c].vod.duration)
    /\ games' = rows
    /\ Beside("games", calls[c].vod.duration = vod.duration)
    /\ Ends(c)
    /\ UNCHANGED <<vod, byHand, lockedTo, stepped, edits>>

\* patch_vod: check_fits reads the games rows in a session of its own.
ReadGames(c) ==
  /\ At(c, "duration")
  /\ calls' = [calls EXCEPT ![c].step = "games", ![c].gamesEnd = GamesEnd(games), ![c].games = games]
  /\ UNCHANGED <<vod, games, History, edits>>

PatchDuration(c) ==
  \E seconds \in Durations :
    /\ calls[c].op = "duration" /\ calls[c].step = "games" /\ RowFree
    /\ CheckFits(calls[c].vod.chapters, calls[c].gamesEnd, seconds)
    /\ vod' = [vod EXCEPT !.duration = seconds]
    /\ byHand' = TRUE
    /\ overtaken' = {w \in {"chapters"} : calls[c].vod.chapters # vod.chapters}
                    \cup {w \in {"games"} : calls[c].games # games}
    /\ Ends(c)
    /\ UNCHANGED <<games, lockedTo, stepped, edits>>

\* POST /admin/duration: as Twitch says, unchecked.
SaveDuration(c) ==
  /\ At(c, "twitch") /\ RowFree
  /\ vod' = [vod EXCEPT !.duration = TwitchDuration]
  /\ byHand' = FALSE
  /\ Ends(c)
  /\ UNCHANGED <<games, overtaken, lockedTo, stepped, edits>>

\* The chapters step, with Twitch's answers: over what the row has by now.
StepWrites(c) ==
  /\ At(c, "step") \/ At(c, "forced")
  /\ RowFree
  /\ vod' = [vod EXCEPT !.chapters = FromTwitch]
  /\ Beside("chapters", FALSE)
  /\ stepped' = (stepped \/ calls[c].op = "forced" \/ ~calls[c].vod.locked)
  /\ Ends(c)
  /\ UNCHANGED <<games, byHand, lockedTo, edits>>

----------------------------------------------------------------------------

Init ==
  /\ vod = [duration |-> TwitchDuration, chapters |-> FromTwitch, locked |-> FALSE]
  /\ games = <<>> /\ calls = [c \in Calls |-> Idle]
  /\ byHand = FALSE /\ overtaken = {} /\ lockedTo = <<>> /\ stepped = FALSE /\ edits = 0

Next ==
  \E c \in Calls : \/ Read(c) \/ Refused(c) \/ PutChapters(c) \/ PutGames(c)
                   \/ ReadGames(c) \/ PatchDuration(c) \/ SaveDuration(c) \/ StepWrites(c)
                   \/ Lock(c) \/ LockedPatch(c)

Spec == Init /\ [][Next]_editVars

----------------------------------------------------------------------------

\* The row holds lists that were sent, or Twitch's.
TypeOK ==
  /\ vod.duration \in Durations \cup {TwitchDuration} /\ vod.locked \in BOOLEAN
  /\ vod.chapters \in Chapters \cup {FromTwitch} /\ games \in Games \cup {<<>>}
  /\ \A c \in Calls : calls[c].step \in {"idle", "read", "games", "locked"} /\ calls[c].op \in Ops \cup {"none", "patch"}

\* Chapters locked by hand are what was locked until a forced job, or one that had read the row before
\* the lock, writes its own. A duration set by hand holds the chapters and the games rows, but those that
\* were written after the duration was read and before it was written, or the reverse, and chapters
\* from Twitch (patch_vod, update_vod, put_chapters, put_games, check_fits, the chapters step).
EditsHold ==
  /\ vod.locked /\ ~stepped => vod.chapters = lockedTo
  /\ byHand /\ vod.duration > 0 =>
       /\ "chapters" \notin overtaken =>
            \A ch \in Elements(vod.chapters) : ch.start + ch.end <= vod.duration + DURATION_SLACK
       /\ "games" \notin overtaken => \A g \in Elements(games) : g.end <= vod.duration + DURATION_SLACK
===============================================================================
