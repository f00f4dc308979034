-------------------------------- MODULE BotChat --------------------------------
(****************************************************************************)
(* steps/bot_chat.py: jobs that read a VOD's stretch of the chat bot's log  *)
(* page by page (doomtp.py), fold the moderation into the messages, and     *)
(* store all of it in one transaction, while the bot learns more.  A VOD's  *)
(* own job and a backfill's have different locks: both may run at a time.   *)
(*                                                                          *)
(* Times are numbered.  The numbers that order the rows are Chat's; what is *)
(* folded into a row's data (rewards, reasons) is left out.                 *)
(****************************************************************************)
EXTENDS Integers, FiniteSets

CONSTANTS
  Messages,               \* message -> [at, user]
  Streams,                \* VOD -> [start, length]
  Moderation,             \* what a moderator may do: {[type, target]}
  PAGE,                   \* how much time a page holds
  MaxTime, MaxActions, MaxReads   \* bounds

Vods  == DOMAIN Streams
Locks == {"vod", "backfill"}

\* A channel has one stream at a time.
BotAssumption ==
  /\ PAGE \in Nat /\ MaxTime \in Nat
  /\ \A m \in DOMAIN Messages : Messages[m].at \in Int
  /\ \A v \in Vods : Streams[v].start \in Int /\ Streams[v].length \in Nat
  /\ \A v, w \in Vods : v # w =>
       Streams[v].start + Streams[v].length <= Streams[w].start \/ Streams[w].start + Streams[w].length <= Streams[v].start

VARIABLES
  now,
  actions,  \* the bot's log of moderation: {[type, at, target]}
  flagged,  \* messages the bot's log shows as removed
  rows,     \* bot_logs: message -> [vod, gone]
  reads,    \* lock -> [step, vod, keyed, open, until, at, got, acts]
  vods,     \* VOD -> [info, asked, whole]: vods.bot_chat is set, the monitor asked;
            \* history: read in full, with a key, once it had ended
  seenGone, \* history: messages some stored read had as removed
  strayed,  \* history: a read with no known end took in a later stream
  begun     \* history: reads begun

botVars == <<now, actions, flagged, rows, reads, vods, seenGone, strayed, begun>>

NoRows == [m \in {} |-> {}]
NoRead == [step |-> "idle", vod |-> "", keyed |-> FALSE, open |-> FALSE, late |-> FALSE, until |-> 0, at |-> 0,
           got |-> {}, acts |-> {}]

End(v)       == Streams[v].start + Streams[v].length
MessagesOf(v) == {m \in DOMAIN Messages : Messages[m].at \in Streams[v].start..(End(v) - 1)}

\* What an action removes: annotate's targets.
Hits(a, m) ==
  \/ a.type = "delete" /\ m = a.target
  \/ a.type = "chat_clear" /\ Messages[m].at <= a.at
  \/ a.type = "timeout" /\ Messages[m].user = a.target /\ Messages[m].at <= a.at

----------------------------------------------------------------------------
(* The chat and the bot.                                                    *)

Tick == now < MaxTime /\ now' = now + 1 /\ UNCHANGED <<actions, flagged, rows, reads, vods, seenGone, strayed, begun>>

\* A moderator acts; the bot may show it on the messages too.
Moderate ==
  /\ Cardinality(actions) < MaxActions
  /\ \E what \in Moderation :
       LET a   == [type |-> what.type, at |-> now, target |-> what.target]
           hit == {m \in DOMAIN Messages : Messages[m].at < now /\ Hits(a, m)}
       IN  /\ hit # {}
           /\ actions' = actions \cup {a}
           /\ \E shown \in BOOLEAN : flagged' = IF shown THEN flagged \cup hit ELSE flagged
  /\ UNCHANGED <<now, rows, reads, vods, seenGone, strayed, begun>>

----------------------------------------------------------------------------
(* read_vod.                                                                *)

\* vod_duration is the job's own (the stream's final length), the row's, or not known: until now then.
Start(lock, v, known, keyed) ==
  /\ reads[lock] = NoRead /\ begun < MaxReads /\ now >= Streams[v].start
  /\ reads' = [reads EXCEPT ![lock] =
       [step |-> "read", vod |-> v, keyed |-> keyed, open |-> ~known, late |-> now >= End(v),
        until |-> IF known THEN End(v) ELSE now, at |-> Streams[v].start, got |-> {}, acts |-> {}]]
  /\ begun' = begun + 1
  /\ UNCHANGED <<now, actions, flagged, rows, seenGone, strayed>>

ActiveOf(v) == \E l \in Locks : reads[l].vod = v

\* The monitor asks once a stream, when it has ended, and looks at no job but its own.
MonitorAsks(v) ==
  /\ ~vods[v].asked /\ now >= End(v)
  /\ vods' = [vods EXCEPT ![v].asked = TRUE]
  /\ \E keyed \in BOOLEAN : Start("vod", v, TRUE, keyed)

ReadByHand(v) == ~ActiveOf(v) /\ UNCHANGED vods /\ \E known, keyed \in BOOLEAN : Start("vod", v, known, keyed)

\* bot_chat_backfill: the VODs that have none.
Backfill(v) ==
  /\ ~vods[v].info /\ ~ActiveOf(v)
  /\ UNCHANGED vods
  /\ \E known, keyed \in BOOLEAN : Start("backfill", v, known, keyed)

\* Doomtp.log: without a key the log has no moderation, and leaves out what was removed.
ReadPage(l) ==
  LET r    == reads[l]
      page == {t \in r.at..(r.at + PAGE - 1) : t < r.until /\ t < now}
      sent == {m \in DOMAIN Messages : Messages[m].at \in page /\ (r.keyed \/ \A a \in actions : ~Hits(a, m))}
  IN  /\ r.step = "read"
      /\ reads' = [reads EXCEPT ![l].at = @ + PAGE,
                     ![l].step = IF r.at + PAGE < r.until THEN "read" ELSE "store",
                     ![l].got = @ \cup {[id |-> m, gone |-> m \in flagged] : m \in sent},
                     ![l].acts = @ \cup {a \in actions : r.keyed /\ a.at \in page}]
      /\ UNCHANGED <<now, actions, flagged, rows, vods, seenGone, strayed, begun>>

\* annotate
Annotated(r) == {[e EXCEPT !.gone = @ \/ \E a \in r.acts : Hits(a, e.id)] : e \in r.got}

\* _upsert: nothing is cleared.  Mutant: what was read replaces what is stored.
MergedAsRead(old, gone) == [old EXCEPT !.gone = gone]
Merged(old, gone) == [old EXCEPT !.gone = @ \/ gone]

Upserted(v, entries) ==
  [m \in DOMAIN rows \cup {e.id : e \in entries} |->
     LET new == {e \in entries : e.id = m}
     IN  IF new = {} THEN rows[m]
         ELSE LET gone == \E e \in new : e.gone
              IN  IF m \in DOMAIN rows THEN Merged(rows[m], gone) ELSE [vod |-> v, gone |-> gone]]

\* One transaction: the rows, their numbers, and vods.bot_chat.
Store(l) ==
  LET r == reads[l]
      entries == Annotated(r)
  IN  /\ r.step = "store"
      /\ rows' = Upserted(r.vod, entries)
      /\ vods' = [vods EXCEPT ![r.vod].info = TRUE,
                              ![r.vod].whole = @ \/ (r.keyed /\ r.late /\ ~r.open)]
      /\ reads' = [reads EXCEPT ![l] = NoRead]
      /\ seenGone' = seenGone \cup {e.id : e \in {d \in entries : d.gone}}
      /\ strayed' = (strayed \/ \E e \in entries : e.id \notin MessagesOf(r.vod))
      /\ UNCHANGED <<now, actions, flagged, begun>>

\* The bot does not answer, the worker stops: nothing is stored.
ReadFails(l) ==
  /\ reads[l] # NoRead
  /\ reads' = [reads EXCEPT ![l] = NoRead]
  /\ UNCHANGED <<now, actions, flagged, rows, vods, seenGone, strayed, begun>>

Init ==
  /\ now = 0 /\ actions = {} /\ flagged = {} /\ rows = NoRows
  /\ reads = [l \in Locks |-> NoRead]
  /\ vods = [v \in Vods |-> [info |-> FALSE, asked |-> FALSE, whole |-> FALSE]]
  /\ seenGone = {} /\ strayed = FALSE /\ begun = 0

Next ==
  \/ Tick \/ Moderate
  \/ \E v \in Vods : MonitorAsks(v) \/ ReadByHand(v) \/ Backfill(v)
  \/ \E l \in Locks : ReadPage(l) \/ Store(l) \/ ReadFails(l)

Spec == Init /\ [][Next]_botVars

----------------------------------------------------------------------------

TypeOK ==
  /\ flagged \subseteq DOMAIN Messages /\ DOMAIN rows \subseteq DOMAIN Messages
  /\ \A m \in DOMAIN rows : rows[m] \in [vod : Vods, gone : BOOLEAN]
  /\ \A l \in Locks : reads[l].vod \in Vods \cup {""} /\ reads[l].step \in {"idle", "read", "store"}

\* A message that a read stored as removed stays so, whichever read ends after it with what it saw before;
\* and once a read of an ended VOD is through, all of the VOD's messages are stored, and as the VOD's own
\* unless a read that knew no length ran on into its stream first.
BotChatKept ==
  /\ \A m \in seenGone : m \in DOMAIN rows /\ rows[m].gone
  /\ \A v \in Vods : vods[v].whole =>
       \A m \in MessagesOf(v) : m \in DOMAIN rows /\ (rows[m].vod = v \/ strayed)
================================================================================
