--------------------------------- MODULE Chat ---------------------------------
(****************************************************************************)
(* A VOD's chat: the steps that store it (metadata.chat, which crawls       *)
(* Twitch's replay in batches, and bot_chat, which reads the bot's log in   *)
(* one transaction), and the pages the public API makes of it meanwhile,    *)
(* caches and hands to a viewer (comments.py).                              *)
(*                                                                          *)
(* A comment is its place in time order; Offsets gives its second.          *)
(****************************************************************************)
EXTENDS Integers, Sequences, FiniteSets, FiniteSetsExt, SequencesExt

CONSTANTS
  Offsets,        \* second of each comment, in order
  None,
  TwitchPage, CHAT_BATCH, PAGE,
  MaxCrawls, MaxSeeks   \* bounds

\* Twitch answers at least a comment a page.
ChatAssumption ==
  /\ Offsets \in Seq(Nat) /\ \A c, d \in 1..Len(Offsets) : c <= d => Offsets[c] <= Offsets[d]
  /\ TwitchPage \in Nat \ {0} /\ CHAT_BATCH \in Nat

VARIABLES
  source,    \* "replay" or "bot": the table the viewer reads
  seq,       \* stored comment -> its number (_id, seq)
  next,      \* the table's next number
  crawl,     \* [step, at, rows, runs]: the chat or bot_chat step
  moved,     \* a ROWS_MOVED notice is on its way
  cache,     \* comments.py's caches: [key, body]
  view,      \* [shown, cursor, seeks, sure]; sure: the comments stored, and not just now, at the seek
  recent     \* history: stored since the caches were dropped

chatVars == <<source, seq, next, crawl, moved, cache, view, recent>>

Smaller(a, b) == IF a <= b THEN a ELSE b

Comments == DOMAIN Offsets
Stored   == DOMAIN seq
NoCrawl  == [step |-> "idle", at |-> 0, rows |-> <<>>, runs |-> 0]

----------------------------------------------------------------------------
(* The chat step.                                                           *)

MaxOffset == IF Stored = {} THEN 0 ELSE Max({Offsets[c] : c \in Stored})

\* Mutant: resume after the last stored second.
ResumeAfter == IF Stored = {} THEN 0 ELSE MaxOffset + 1
ResumeAt == MaxOffset

\* Twitch answers from the first comment at or after an offset.
FirstFrom(offset) == Min({c \in Comments : Offsets[c] >= offset} \cup {Len(Offsets) + 1})

StartCrawl ==
  /\ source = "replay" /\ crawl.step \in {"idle", "failed"} /\ crawl.runs < MaxCrawls
  /\ crawl' = [crawl EXCEPT !.step = "crawling", !.at = FirstFrom(ResumeAt), !.rows = <<>>, !.runs = @ + 1]
  /\ UNCHANGED <<source, seq, next, moved, cache, view, recent>>

\* INSERT ... ON CONFLICT DO NOTHING: a row already there keeps its number, and uses one up.
Inserted(rows) ==
  /\ seq' = [c \in Stored \cup ToSet(rows) |->
              IF c \in Stored THEN seq[c] ELSE (next + (CHOOSE i \in DOMAIN rows : rows[i] = c)) - 1]
  /\ next' = next + Len(rows)
  /\ recent' = recent \cup (ToSet(rows) \ Stored)

CrawlPage ==
  LET last == Smaller((crawl.at + TwitchPage) - 1, Len(Offsets))
      rows == crawl.rows \o [i \in 1..((last - crawl.at) + 1) |-> (crawl.at + i) - 1]
      full == Len(rows) >= CHAT_BATCH
      more == last < Len(Offsets)
  IN  /\ crawl.step = "crawling"
      /\ IF full \/ ~more THEN Inserted(rows) ELSE UNCHANGED <<seq, next, recent>>
      /\ crawl' = [crawl EXCEPT !.step = IF more THEN "crawling" ELSE "done", !.at = last + 1,
                                !.rows = IF full THEN <<>> ELSE rows]
      /\ UNCHANGED <<source, moved, cache, view>>

\* Twitch refuses, the worker stops: what was not inserted is asked for again by the next attempt.
CrawlFails ==
  /\ crawl.step = "crawling"
  /\ crawl' = [crawl EXCEPT !.step = "failed", !.rows = <<>>]
  /\ UNCHANGED <<source, seq, next, moved, cache, view, recent>>

----------------------------------------------------------------------------
(* bot_chat: read_vod stores what the bot has, numbers the rows again when  *)
(* they are out of order, and says so, in one transaction.                  *)

Numbered(rows, from) == [c \in rows |-> from + Cardinality({d \in rows : d < c})]

BotRead ==
  \E has \in SUBSET Comments :
    LET new == has \ Stored
        all == Stored \cup new
        fresh == [c \in all |-> IF c \in Stored THEN seq[c] ELSE next + Cardinality({d \in new : d < c})]
        ordered == \A c, d \in all : c < d => fresh[c] < fresh[d]
    IN  /\ source = "bot" /\ crawl.runs < MaxCrawls
        /\ seq' = IF ordered THEN fresh ELSE Numbered(all, next + Cardinality(new))
        /\ next' = next + Cardinality(new) + IF ordered THEN 0 ELSE Cardinality(all)
        /\ moved' = (moved \/ new # {})
        /\ recent' = recent \cup new
        /\ crawl' = [crawl EXCEPT !.runs = @ + 1]
        /\ UNCHANGED <<source, cache, view>>

----------------------------------------------------------------------------
(* comments.py.                                                             *)

Before(c, d) == Offsets[c] < Offsets[d] \/ (Offsets[c] = Offsets[d] /\ seq[c] < seq[d])
Ordered(rows) == SetToSortSeq(rows, Before)

\* _page: one row more is fetched for the cursor.
PageOf(rows) ==
  LET all == Ordered(rows)
  IN  [rows |-> SubSeq(all, 1, Smaller(PAGE, Len(all))),
       cursor |-> IF Len(all) > PAGE THEN <<seq[all[PAGE + 1]], Offsets[all[PAGE + 1]]>> ELSE None]

Cached(key) == {e \in cache : e.key = key}
Body(key)   == (CHOOSE e \in Cached(key) : TRUE).body

\* _starting_id, kept for a day.
StartingId == IF Cached(<<"start">>) # {} THEN Body(<<"start">>) ELSE seq[Ordered(Stored)[1]]

\* _offset_search: the page, counted from the first comment in steps of PAGE numbers, with the offset's comment.
OffsetPage(offset) ==
  LET found == seq[Ordered({c \in Stored : Offsets[c] >= offset})[1]]
      from  == StartingId + ((found - StartingId) \div PAGE) * PAGE
  IN  PageOf({c \in Stored : seq[c] >= from})

Shown(shown, body) == [view EXCEPT !.shown = shown \o body.rows, !.cursor = body.cursor]

Seek(offset) ==
  LET key == <<"offset", offset>>
      body == IF Cached(key) # {} THEN Body(key) ELSE OffsetPage(offset)
  IN  /\ view.seeks < MaxSeeks
      /\ Cached(key) # {} \/ \E c \in Stored : Offsets[c] >= offset
      /\ body.rows # <<>>
      /\ view' = [Shown(<<>>, body) EXCEPT !.seeks = @ + 1, !.sure = Stored \ recent]
      /\ cache' = IF Cached(key) # {} THEN cache
                  ELSE {e \in cache : e.key # <<"start">>}
                       \cup {[key |-> key, body |-> body], [key |-> <<"start">>, body |-> StartingId]}
      /\ UNCHANGED <<source, seq, next, crawl, moved, recent>>

\* Mutant: the next page starts after the cursor's row.
CursorRowsAfter(cursor) == {c \in Stored : seq[c] > cursor[1] /\ Offsets[c] >= cursor[2]}

\* _cursor_search
CursorRows(cursor) == {c \in Stored : seq[c] >= cursor[1] /\ Offsets[c] >= cursor[2]}

Follow ==
  LET key == <<"cursor", view.cursor>>
      body == IF Cached(key) # {} THEN Body(key) ELSE PageOf(CursorRows(view.cursor))
  IN  /\ view.cursor # None
      /\ body.rows # <<>>
      /\ view' = Shown(view.shown, body)
      /\ cache' = cache \cup {[key |-> key, body |-> body]}
      /\ UNCHANGED <<source, seq, next, crawl, moved, recent>>

Expire(e) ==
  /\ cache' = cache \ {e}
  /\ UNCHANGED <<source, seq, next, crawl, moved, view, recent>>

\* Comments.invalidate, by the listener.
Dropped ==
  /\ moved
  /\ moved' = FALSE /\ cache' = {} /\ recent' = {}
  /\ UNCHANGED <<source, seq, next, crawl, view>>

----------------------------------------------------------------------------

Init ==
  /\ source \in {"replay", "bot"}
  /\ seq = <<>> /\ next = 1 /\ crawl = NoCrawl /\ moved = FALSE /\ cache = {} /\ recent = {}
  /\ view = [shown |-> <<>>, cursor |-> None, seeks |-> 0, sure |-> {}]

Next ==
  \/ StartCrawl \/ CrawlPage \/ CrawlFails \/ BotRead
  \/ \E offset \in ToSet(Offsets) : Seek(offset)
  \/ Follow \/ Dropped
  \/ \E e \in cache : Expire(e)

Spec == Init /\ [][Next]_chatVars

----------------------------------------------------------------------------

TypeOK ==
  /\ Stored \subseteq Comments /\ \A c \in Stored : seq[c] \in 1..(next - 1)
  /\ crawl.step \in {"idle", "crawling", "failed", "done"}
  /\ ToSet(view.shown) \subseteq Stored

\* A crawl that ends has stored every comment Twitch has, whatever attempts failed before it and
\* wherever they stopped, and numbered them in time order, which the pages count by (metadata.chat).
ChatIsWhole ==
  /\ crawl.step = "done" => Stored = Comments
  /\ \A c, d \in Stored : c < d => seq[c] < seq[d]

\* A viewer who follows the cursors is shown every comment from where the first page starts, in order,
\* though the chat is still being stored, read again and numbered anew meanwhile; only a comment of
\* the second the cursor is at may come twice, after the rows were numbered anew (comments.py).
PagesFollow ==
  LET shown == view.shown
  IN  shown # <<>> =>
        /\ \A c \in view.sure : shown[1] <= c /\ c <= shown[Len(shown)] => c \in ToSet(shown)
        /\ \A i, j \in DOMAIN shown : i < j => shown[i] < shown[j] \/ Offsets[shown[i]] = Offsets[shown[j]]
=============================================================================
