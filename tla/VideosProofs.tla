----------------------------- MODULE VideosProofs ----------------------------
(****************************************************************************)
(* What TLAPS proves of the parts that keep a VOD's videos, uploads and chat:*)
(* each is an instance of its module.                                       *)
(****************************************************************************)
EXTENDS Integers, Sequences, FiniteSets, Functions, FiniteSetsExt, SequencesExt, FiniteSetTheorems, WellFoundedInduction, TLAPS

CONSTANTS
  Calls, None, halvingLength, MaxSplits, MaxChanges, MaxFaults, Listed, MaxRequests, MaxReuploads,
  LastStream, MaxOddities, Messages, Streams, Moderation, botPAGE, MaxTime, MaxActions, MaxReads,
  Offsets, TwitchPage, CHAT_BATCH, chatOfPAGE, MaxCrawls, MaxSeeks, cacheRealVods, SourcesOf,
  MaxWrites, synthRealVods, SyntheticVods, Requests, AtFirst, Kept, Txs, RealLength, MaxBegins,
  ToTheEnd, MaxDepth, Second, VideoTypes, PlayedFirst

VARIABLES
  halvingMade, used, calls, halvingWhole, left, halvingCounts, list, channel, links,
  removalRequest, describes, cutShort, untold, doomed, removalCounts, twitch, monitorRows, queue,
  active, tick, live, byHand, settings, absent, oddities, now, actions, flagged, botRows, reads,
  vods, seenGone, strayed, begun, source, seq, next, crawl, moved, cache, view, recent, cacheRows,
  key, cached, render, outdated, listener, notices, writes, synthRows, tx, synthTodo, clock,
  unseen, retitled, together

Halving == INSTANCE SplitRoute WITH
  made <- halvingMade, whole <- halvingWhole, counts <- halvingCounts, Length <- halvingLength
Removal == INSTANCE UploadRemoval WITH request <- removalRequest, counts <- removalCounts
Monitor == INSTANCE StreamJobs WITH rows <- monitorRows
Bot == INSTANCE BotChat WITH rows <- botRows, PAGE <- botPAGE
ChatOf == INSTANCE Chat WITH PAGE <- chatOfPAGE
Cache == INSTANCE ApiCache WITH rows <- cacheRows, RealVods <- cacheRealVods
Synth == INSTANCE Synthetic WITH rows <- synthRows, todo <- synthTodo, RealVods <- synthRealVods

------------------------------------------------------------------------------
(* SplitRoute.                                                              *)

SplitRows == [id : Halving!Ids, start : Int, end : Int, by : Nat, beside : SUBSET Halving!Ids]
SplitSteps ==
  [step : {"idle", "first", "second", "undo", "other"}, at : Nat, no : Nat, adds : SplitRows \cup {None}]

\* What the variables hold.
SplitTypes ==
  /\ halvingMade \in [Halving!Ids -> SplitRows \cup {None}]
  /\ calls \in [Calls -> SplitSteps]
  /\ halvingCounts \in [splits : Nat, changes : Nat, faults : Nat]
  /\ halvingWhole \cup left \subseteq 1..halvingCounts.splits

\* Rows are windows, in their place; a split under way has a point inside the VOD and a number of its own.
SplitNumbers ==
  /\ \A id \in Halving!Ids : halvingMade[id] # None => halvingMade[id].start < halvingMade[id].end /\ halvingMade[id].by <= halvingCounts.splits
  /\ \A c \in Calls : calls[c].step \in {"first", "second", "undo"} =>
       calls[c].at \in 1..(halvingLength - 1) /\ calls[c].no \in 1..halvingCounts.splits
  /\ \A c \in Calls : calls[c].step = "idle" => calls[c] = Halving!Idle
  /\ \A c \in Calls : calls[c].step = "other" => calls[c].no = 0
  /\ \A c, d \in Calls : c # d /\ calls[c].no = calls[d].no => calls[c].no = 0

\* What a call adds is what its step makes.
SplitAdds ==
  \A c \in Calls : calls[c].adds # None =>
    /\ calls[c].adds.start < calls[c].adds.end /\ calls[c].adds.by = calls[c].no
    /\ calls[c].step \in {"first", "second", "other"}
    /\ calls[c].step \in {"first", "second"} => calls[c].adds.id = calls[c].step

\* A split has made nothing before its first half, and only that before its second.
SplitHalves ==
  \A c \in Calls : \A id \in Halving!Ids :
    /\ calls[c].step = "first" /\ halvingMade[id] # None => halvingMade[id].by # calls[c].no
    /\ calls[c].step \in {"second", "undo"} /\ halvingMade[id] # None /\ halvingMade[id].by = calls[c].no => id = "first"

SplitUsed == used \subseteq Halving!There

\* Of two rows, committed or to be, that overlap, one was checked while the other was not committed.
Beside(a, b) == Halving!Apart(a, b) \/ a.id \in b.beside \/ b.id \in a.beside

SplitApart ==
  /\ \A a \in Halving!There : halvingMade[a].id = a
  /\ \A a, b \in Halving!There : a # b => Beside(halvingMade[a], halvingMade[b])
  /\ \A c \in Calls, a \in Halving!There : calls[c].adds # None /\ calls[c].adds.id # a => Beside(calls[c].adds, halvingMade[a])
  /\ \A c, d \in Calls : c # d /\ calls[c].adds # None /\ calls[d].adds # None => Beside(calls[c].adds, calls[d].adds)

SplitOrigin ==
  \A id \in Halving!Ids : halvingMade[id] # None =>
    \/ halvingMade[id].by = 0
    \/ halvingMade[id].by \in halvingWhole \cup left
    \/ \E c \in Calls : calls[c].no = halvingMade[id].by

SplitInv == SplitTypes /\ SplitNumbers /\ SplitAdds /\ SplitHalves /\ SplitUsed /\ SplitApart /\ SplitOrigin

SplitCounts == [splits : Nat, changes : Nat, faults : Nat]

\* Nothing happens to the other calls.
OnlyCall(c) ==
  /\ calls' \in [Calls -> SplitSteps]
  /\ \A d \in Calls \ {c} : calls'[d] = calls[d]

\* Rows stay or go, but for what this call makes.
RowsOf(c) ==
  \A id \in Halving!Ids : halvingMade'[id] # None => halvingMade'[id] = halvingMade[id] \/ halvingMade'[id].by = calls[c].no

----------------------------------------------------------------------------

LEMMA IdleSplit ==
  /\ Halving!Idle \in SplitSteps /\ Halving!Idle.step = "idle" /\ Halving!Idle.at = 0 /\ Halving!Idle.no = 0 /\ Halving!Idle.adds = None
BY DEF Halving!Idle, SplitSteps

LEMMA SplitFields ==
  ASSUME SplitTypes
  PROVE  /\ halvingCounts.splits \in Nat
         /\ \A c \in Calls : /\ calls[c].no \in Nat /\ calls[c].at \in Nat
                             /\ calls[c].step \in {"idle", "first", "second", "undo", "other"}
                             /\ calls[c].adds # None => calls[c].adds \in SplitRows
         /\ \A id \in Halving!Ids : halvingMade[id] # None => halvingMade[id] \in SplitRows
BY DEF SplitTypes, SplitSteps

\* No number is one that was not given out.
LEMMA SplitGiven ==
  ASSUME SplitTypes, SplitNumbers
  PROVE  \A c \in Calls : calls[c].no \in 0..halvingCounts.splits
<1>1. TAKE c \in Calls
<1>2. CASE calls[c].step \in {"first", "second", "undo"}
  BY <1>2, SplitFields DEF SplitNumbers
<1>3. CASE calls[c].step \in {"idle", "other"}
  BY <1>3, SplitFields, IdleSplit DEF SplitNumbers
<1>4. QED BY <1>2, <1>3, SplitFields

\* A call that goes on keeps its point and its number, and one that ends has neither.
LEMMA GotoSplit ==
  ASSUME SplitTypes, NEW c \in Calls, NEW step \in {"second", "undo"}, Halving!Goto(c, step)
  PROVE  /\ OnlyCall(c)
         /\ calls'[c].step = step /\ calls'[c].at = calls[c].at /\ calls'[c].no = calls[c].no /\ calls'[c].adds = None
<1>1. PICK x \in SplitSteps : x = [calls[c] EXCEPT !.step = step, !.adds = None]
  BY DEF SplitTypes, SplitSteps
<1>2. x.step = step /\ x.at = calls[c].at /\ x.no = calls[c].no /\ x.adds = None
  BY <1>1 DEF SplitTypes, SplitSteps
<1>3. calls' = [calls EXCEPT ![c] = x]
  BY <1>1, ZenonT(30) DEF Halving!Goto
<1>4. QED BY <1>2, <1>3 DEF SplitTypes, OnlyCall

LEMMA EndSplit ==
  ASSUME SplitTypes, NEW c \in Calls, Halving!Ends(c)
  PROVE  OnlyCall(c) /\ calls'[c] = Halving!Idle
BY IdleSplit DEF Halving!Ends, SplitTypes, OnlyCall

\* A row that is put or removed.
LEMMA PutRow ==
  ASSUME halvingMade \in [Halving!Ids -> SplitRows \cup {None}], NEW id \in Halving!Ids, NEW row \in SplitRows \cup {None},
         halvingMade' = [halvingMade EXCEPT ![id] = row]
  PROVE  /\ halvingMade' \in [Halving!Ids -> SplitRows \cup {None}] /\ halvingMade'[id] = row
         /\ \A other \in Halving!Ids \ {id} : halvingMade'[other] = halvingMade[other]
OBVIOUS

LEMMA BesideSym == \A a, b : Beside(a, b) <=> Beside(b, a)
BY DEF Beside, Halving!Apart

----------------------------------------------------------------------------
(* What keeps each part of the invariant, when one call goes on.            *)

LEMMA NumbersOf ==
  ASSUME SplitInv, NEW c \in Calls, OnlyCall(c), halvingCounts' \in SplitCounts, halvingCounts.splits <= halvingCounts'.splits,
         \A id \in Halving!Ids : halvingMade'[id] # None =>
           halvingMade'[id] = halvingMade[id] \/ (halvingMade'[id].start < halvingMade'[id].end /\ halvingMade'[id].by <= halvingCounts'.splits),
         calls'[c].step \in {"first", "second", "undo"} =>
           calls'[c].at \in 1..(halvingLength - 1) /\ calls'[c].no \in 1..halvingCounts'.splits,
         calls'[c].step = "idle" => calls'[c] = Halving!Idle, calls'[c].step = "other" => calls'[c].no = 0,
         calls'[c].no \in {0, calls[c].no, halvingCounts.splits + 1}
  PROVE  SplitNumbers'
<1>1. SplitTypes /\ SplitNumbers /\ halvingCounts.splits \in Nat /\ halvingCounts'.splits \in Nat
  BY SplitFields DEF SplitInv, SplitCounts
<1>2. \A id \in Halving!Ids : halvingMade'[id] # None => halvingMade'[id].start < halvingMade'[id].end /\ halvingMade'[id].by <= halvingCounts'.splits
  <2>1. TAKE id \in Halving!Ids
  <2>2. HAVE halvingMade'[id] # None
  <2>3. CASE halvingMade'[id] = halvingMade[id]
    <3>1. halvingMade[id].by \in Nat /\ halvingMade[id].by <= halvingCounts.splits /\ halvingMade[id].start < halvingMade[id].end
      BY <1>1, <2>2, <2>3, SplitFields DEF SplitNumbers, SplitRows
    <3>2. QED BY <1>1, <2>3, <3>1
  <2>4. QED BY <2>2, <2>3
<1>3. \A d \in Calls : calls'[d].step \in {"first", "second", "undo"} =>
        calls'[d].at \in 1..(halvingLength - 1) /\ calls'[d].no \in 1..halvingCounts'.splits
  <2>1. TAKE d \in Calls
  <2>2. CASE d # c
    <3>1. HAVE calls'[d].step \in {"first", "second", "undo"}
    <3>2. calls'[d] = calls[d] /\ calls[d].at \in 1..(halvingLength - 1) /\ calls[d].no \in 1..halvingCounts.splits
      BY <1>1, <2>2, <3>1 DEF OnlyCall, SplitNumbers
    <3>3. QED BY <1>1, <3>2
  <2>3. QED BY <2>2
<1>4. \A d, e \in Calls : d # e /\ calls'[d].no = calls'[e].no => calls'[d].no = 0
  <2>1. \A d \in Calls : calls[d].no \in 0..halvingCounts.splits /\ calls[d].no # halvingCounts.splits + 1
    BY <1>1, SplitGiven
  <2>2. QED BY <1>1, <2>1 DEF OnlyCall, SplitNumbers
<1>5. QED BY <1>1, <1>2, <1>3, <1>4 DEF OnlyCall, SplitNumbers

LEMMA AddsOf ==
  ASSUME SplitInv, NEW c \in Calls, OnlyCall(c),
         calls'[c].adds # None =>
           /\ calls'[c].adds.start < calls'[c].adds.end /\ calls'[c].adds.by = calls'[c].no
           /\ calls'[c].step \in {"first", "second", "other"}
           /\ calls'[c].step \in {"first", "second"} => calls'[c].adds.id = calls'[c].step
  PROVE  SplitAdds'
BY DEF SplitInv, SplitAdds, OnlyCall

LEMMA HalvesOf ==
  ASSUME SplitInv, NEW c \in Calls, OnlyCall(c), RowsOf(c),
         \A id \in Halving!Ids : halvingMade'[id] # None =>
           /\ calls'[c].step = "first" => halvingMade'[id].by # calls'[c].no
           /\ calls'[c].step \in {"second", "undo"} /\ halvingMade'[id].by = calls'[c].no => id = "first"
  PROVE  SplitHalves'
<1>1. SUFFICES ASSUME NEW d \in Calls, NEW id \in Halving!Ids, halvingMade'[id] # None, d # c
               PROVE  /\ calls'[d].step = "first" => halvingMade'[id].by # calls'[d].no
                      /\ calls'[d].step \in {"second", "undo"} /\ halvingMade'[id].by = calls'[d].no => id = "first"
  BY DEF SplitHalves
<1>2. calls'[d] = calls[d]
  BY <1>1 DEF OnlyCall
<1>3. CASE halvingMade'[id] = halvingMade[id]
  BY <1>1, <1>2, <1>3 DEF SplitInv, SplitHalves
<1>4. CASE halvingMade'[id].by = calls[c].no
  <2>1. calls[d].step \in {"first", "second", "undo"} => calls[d].no # 0
    BY DEF SplitInv, SplitNumbers
  <2>2. QED BY <1>1, <1>2, <1>4, <2>1 DEF SplitInv, SplitNumbers
<1>5. QED BY <1>1, <1>3, <1>4 DEF RowsOf

LEMMA OriginOf ==
  ASSUME SplitInv, NEW c \in Calls, OnlyCall(c), RowsOf(c), halvingWhole \subseteq halvingWhole', left \subseteq left',
         \/ calls'[c].no = calls[c].no
         \/ calls[c].no \in {0} \cup halvingWhole' \cup left'
         \/ \A id \in Halving!Ids : halvingMade'[id] # None => halvingMade'[id].by # calls[c].no
  PROVE  SplitOrigin'
<1>1. SUFFICES ASSUME NEW id \in Halving!Ids, halvingMade'[id] # None, halvingMade'[id].by # 0, halvingMade'[id].by \notin halvingWhole' \cup left'
               PROVE  \E d \in Calls : calls'[d].no = halvingMade'[id].by
  BY DEF SplitOrigin
<1>2. PICK d \in Calls : calls[d].no = halvingMade'[id].by
  BY <1>1 DEF SplitInv, SplitOrigin, RowsOf
<1>3. CASE d # c
  BY <1>2, <1>3 DEF OnlyCall
<1>4. CASE d = c
  BY <1>1, <1>2, <1>4
<1>5. QED BY <1>3, <1>4

\* Rows go and calls are over: what stays is as it was.
LEMMA ApartFewer ==
  ASSUME SplitInv, NEW c \in Calls, OnlyCall(c), calls'[c].adds \in {None, calls[c].adds},
         \A id \in Halving!Ids : halvingMade'[id] # None => halvingMade'[id] = halvingMade[id]
  PROVE  SplitApart'
<1>1. \A a \in Halving!There' : a \in Halving!There /\ halvingMade'[a] = halvingMade[a]
  BY DEF Halving!There
<1>2. \A d \in Calls : calls'[d].adds # None => calls'[d].adds = calls[d].adds
  BY DEF OnlyCall
<1>3. (\A a \in Halving!There' : halvingMade'[a].id = a) /\ \A a, b \in Halving!There' : a # b => Beside(halvingMade'[a], halvingMade'[b])
  BY <1>1 DEF SplitInv, SplitApart
<1>4. \A d \in Calls, a \in Halving!There' : calls'[d].adds # None /\ calls'[d].adds.id # a => Beside(calls'[d].adds, halvingMade'[a])
  BY <1>1, <1>2 DEF SplitInv, SplitApart
<1>5. \A d, e \in Calls : d # e /\ calls'[d].adds # None /\ calls'[e].adds # None => Beside(calls'[d].adds, calls'[e].adds)
  BY <1>2 DEF SplitInv, SplitApart
<1>6. QED BY <1>3, <1>4, <1>5 DEF SplitApart, Beside, Halving!Apart

\* What is checked is apart from what is committed, and knows what is checked already.
LEMMA ApartCheck ==
  ASSUME SplitInv, NEW c \in Calls, OnlyCall(c), UNCHANGED halvingMade, calls[c].adds = None,
         NEW row \in SplitRows, calls'[c].adds = row, Halving!CanCreate(row), row.beside = {calls[d].adds.id : d \in Halving!Adding}
  PROVE  SplitApart'
<1>1. \A d \in Calls \ {c} : calls'[d].adds = calls[d].adds
  BY DEF OnlyCall
<1>2. Halving!There' = Halving!There
  BY DEF Halving!There
<1>3. \A d \in Calls, a \in Halving!There : calls'[d].adds # None /\ calls'[d].adds.id # a => Beside(calls'[d].adds, halvingMade[a])
  <2>1. \A a \in Halving!There : Beside(row, halvingMade[a])
    BY DEF Halving!CanCreate, Beside
  <2>2. QED BY <1>1, <2>1 DEF SplitInv, SplitApart
<1>4. \A d \in Calls : d # c /\ calls[d].adds # None => Beside(row, calls[d].adds)
  BY DEF Halving!Adding, Beside
<1>5. \A d, e \in Calls : d # e /\ calls'[d].adds # None /\ calls'[e].adds # None => Beside(calls'[d].adds, calls'[e].adds)
  <2>1. TAKE d, e \in Calls
  <2>2. HAVE d # e /\ calls'[d].adds # None /\ calls'[e].adds # None
  <2>3. CASE d = c
    BY <1>1, <1>4, <2>2, <2>3
  <2>4. CASE e = c
    BY <1>1, <1>4, <2>2, <2>4, BesideSym
  <2>5. CASE d # c /\ e # c
    BY <1>1, <2>2, <2>5 DEF SplitInv, SplitApart
  <2>6. QED BY <2>3, <2>4, <2>5
<1>6. (\A a \in Halving!There' : halvingMade'[a].id = a) /\ \A a, b \in Halving!There' : a # b => Beside(halvingMade'[a], halvingMade'[b])
  BY <1>2 DEF SplitInv, SplitApart
<1>7. \A d \in Calls, a \in Halving!There' : calls'[d].adds # None /\ calls'[d].adds.id # a => Beside(calls'[d].adds, halvingMade'[a])
  BY <1>2, <1>3
<1>8. QED BY <1>5, <1>6, <1>7 DEF SplitApart, Beside, Halving!Apart

\* What is committed was beside the others before.
LEMMA ApartPut ==
  ASSUME Halving!SplitAssumption, SplitInv, NEW c \in Calls, OnlyCall(c), calls[c].adds # None, calls'[c].adds = None,
         NEW row \in SplitRows, row = calls[c].adds, halvingMade[row.id] = None, UNCHANGED used,
         halvingMade' = [halvingMade EXCEPT ![row.id] = row]
  PROVE  SplitApart' /\ SplitUsed'
<1>1. /\ row.id \in Halving!Ids /\ halvingMade'[row.id] = row
      /\ \A other \in Halving!Ids \ {row.id} : halvingMade'[other] = halvingMade[other]
  BY PutRow DEF SplitInv, SplitTypes, SplitRows
<1>2. row # None
  OBVIOUS
<1>3. Halving!There' = Halving!There \cup {row.id} /\ Halving!There \subseteq Halving!Ids /\ row.id \notin Halving!There
  BY <1>1, <1>2 DEF Halving!There
<1>4. \A a \in Halving!There' : halvingMade'[a].id = a
  BY <1>1, <1>3 DEF SplitInv, SplitApart
<1>5. \A a \in Halving!There : halvingMade'[a] = halvingMade[a] /\ Beside(row, halvingMade[a])
  <2>1. \A a \in Halving!There : row.id # a
    BY <1>3
  <2>2. QED BY <1>1, <1>3, <2>1 DEF SplitInv, SplitApart
<1>6. \A a, b \in Halving!There' : a # b => Beside(halvingMade'[a], halvingMade'[b])
  <2>1. TAKE a, b \in Halving!There'
  <2>2. HAVE a # b
  <2>3. CASE a = row.id
    BY <1>1, <1>3, <1>5, <2>2, <2>3
  <2>4. CASE b = row.id
    BY <1>1, <1>3, <1>5, <2>2, <2>4, BesideSym
  <2>5. CASE a # row.id /\ b # row.id
    BY <1>3, <1>5, <2>2, <2>5 DEF SplitInv, SplitApart
  <2>6. QED BY <2>3, <2>4, <2>5
<1>7. \A d \in Calls : calls'[d].adds # None => d # c /\ calls'[d].adds = calls[d].adds /\ Beside(calls[d].adds, row)
  BY DEF OnlyCall, SplitInv, SplitApart
<1>8. \A d \in Calls, a \in Halving!There' : calls'[d].adds # None /\ calls'[d].adds.id # a => Beside(calls'[d].adds, halvingMade'[a])
  <2>1. TAKE d \in Calls, a \in Halving!There'
  <2>2. HAVE calls'[d].adds # None /\ calls'[d].adds.id # a
  <2>3. CASE a = row.id
    BY <1>1, <1>7, <2>2, <2>3
  <2>4. CASE a # row.id
    BY <1>3, <1>5, <1>7, <2>2, <2>4 DEF SplitInv, SplitApart
  <2>5. QED BY <2>3, <2>4
<1>9. \A d, e \in Calls : d # e /\ calls'[d].adds # None /\ calls'[e].adds # None => Beside(calls'[d].adds, calls'[e].adds)
  BY <1>7 DEF SplitInv, SplitApart
<1>10. SplitApart'
  BY <1>4, <1>6, <1>8, <1>9 DEF SplitApart, Beside, Halving!Apart
<1>11. SplitUsed'
  <2>1. used' = used
    OBVIOUS
  <2>2. QED BY <1>3, <2>1 DEF SplitInv, SplitUsed
<1>12. QED BY <1>10, <1>11

----------------------------------------------------------------------------
(* Each step keeps the invariant.                                           *)

LEMMA HalvingInitInv == ASSUME Halving!SplitAssumption, Halving!Init PROVE SplitInv
<1>1. SplitTypes /\ SplitNumbers
  BY IdleSplit DEF Halving!Init, SplitTypes, SplitNumbers
<1>2. Halving!There = {}
  BY DEF Halving!Init, Halving!There
<1>3. SplitAdds /\ SplitHalves /\ SplitUsed /\ SplitApart /\ SplitOrigin
  BY <1>2, IdleSplit DEF Halving!Init, SplitAdds, SplitHalves, SplitUsed, SplitApart, SplitOrigin
<1>4. QED BY <1>1, <1>3 DEF SplitInv

\* A call goes on or ends, and no row is made.
LEMMA CallsOnly ==
  ASSUME SplitInv, NEW c \in Calls, OnlyCall(c), UNCHANGED <<halvingMade, used>>, halvingCounts' \in SplitCounts,
         halvingCounts'.splits = halvingCounts.splits,
         \/ calls'[c] = Halving!Idle
         \/ /\ calls[c].step = "second" /\ calls'[c].step = "undo" /\ calls'[c].at = calls[c].at
            /\ calls'[c].no = calls[c].no /\ calls'[c].adds = None,
         halvingWhole' = halvingWhole, left' \in {left, left \cup {calls[c].no}}, left' # left => calls[c].no # 0,
         calls'[c] = Halving!Idle =>
           calls[c].no \in left' \/ \A id \in Halving!Ids : halvingMade[id] # None => halvingMade[id].by # calls[c].no \/ calls[c].no = 0
  PROVE  SplitInv'
<1>1. SplitTypes'
  <2>1. calls[c].no \in 0..halvingCounts.splits /\ halvingCounts.splits \in Nat
    BY SplitGiven, SplitFields DEF SplitInv
  <2>2. left' \subseteq 1..halvingCounts.splits
    BY <2>1 DEF SplitInv, SplitTypes
  <2>3. QED BY <2>2 DEF SplitInv, SplitTypes, OnlyCall, SplitCounts
<1>2. SplitNumbers'
  <2>1. halvingCounts.splits \in Nat /\ halvingCounts.splits <= halvingCounts'.splits
    BY SplitFields DEF SplitInv
  <2>2. calls'[c] # Halving!Idle => calls[c].at \in 1..(halvingLength - 1) /\ calls[c].no \in 1..halvingCounts.splits
    BY DEF SplitInv, SplitNumbers
  <2>3. calls'[c].no \in {0, calls[c].no}
    BY IdleSplit
  <2>4. calls'[c].step \in {"first", "second", "undo"} =>
          calls'[c].at \in 1..(halvingLength - 1) /\ calls'[c].no \in 1..halvingCounts'.splits
    BY <2>2, IdleSplit
  <2>5. (calls'[c].step = "idle" => calls'[c] = Halving!Idle) /\ (calls'[c].step = "other" => calls'[c].no = 0)
    BY IdleSplit
  <2>6. QED BY <2>1, <2>3, <2>4, <2>5, NumbersOf
<1>3. SplitAdds'
  BY AddsOf, IdleSplit
<1>4. RowsOf(c)
  BY DEF RowsOf
<1>5. SplitHalves'
  BY <1>4, HalvesOf, IdleSplit DEF SplitInv, SplitHalves
<1>6. SplitOrigin'
  BY <1>4, OriginOf
<1>7. SplitApart' /\ SplitUsed'
  BY ApartFewer, IdleSplit DEF SplitInv, SplitUsed, Halving!There
<1>8. QED BY <1>1, <1>2, <1>3, <1>5, <1>6, <1>7 DEF SplitInv

LEMMA SplitStep == ASSUME Halving!SplitAssumption, SplitInv, NEW c \in Calls, Halving!Split(c) PROVE SplitInv'
<1>1. PICK at \in 1..(halvingLength - 1) :
        /\ calls[c] = Halving!Idle /\ halvingCounts' = [halvingCounts EXCEPT !.splits = @ + 1]
        /\ calls' = [calls EXCEPT ![c] = [step |-> "first", at |-> at, no |-> halvingCounts.splits + 1, adds |-> None]]
        /\ UNCHANGED <<halvingMade, used, halvingWhole, left>>
  BY DEF Halving!Split
<1>2. /\ halvingCounts' \in SplitCounts /\ halvingCounts'.splits = halvingCounts.splits + 1 /\ halvingCounts.splits \in Nat
      /\ at \in Nat /\ at \in 1..(halvingLength - 1)
  BY <1>1 DEF SplitInv, SplitTypes, Halving!SplitAssumption, SplitCounts
<1>3. PICK x \in SplitSteps : x = [step |-> "first", at |-> at, no |-> halvingCounts.splits + 1, adds |-> None]
  <2>1. halvingCounts.splits + 1 \in Nat
    BY <1>2
  <2>2. [step |-> "first", at |-> at, no |-> halvingCounts.splits + 1, adds |-> None] \in SplitSteps
    BY <1>2, <2>1 DEF SplitSteps
  <2>3. QED BY <2>2
<1>4. x.step = "first" /\ x.at = at /\ x.no = halvingCounts.splits + 1 /\ x.adds = None
  BY <1>3
<1>5. OnlyCall(c) /\ calls'[c] = x
  BY <1>1, <1>3 DEF SplitInv, SplitTypes, OnlyCall
<1>6. SplitTypes'
  <2>1. 1..halvingCounts.splits \subseteq 1..halvingCounts'.splits
    BY <1>2
  <2>2. QED BY <1>1, <1>2, <1>5, <2>1 DEF SplitInv, SplitTypes, OnlyCall, SplitCounts
<1>7. SplitNumbers'
  <2>1. halvingCounts.splits <= halvingCounts'.splits /\ x.no \in 1..halvingCounts'.splits
    BY <1>2, <1>4
  <2>2. QED BY <1>1, <1>2, <1>4, <1>5, <2>1, NumbersOf
<1>8. SplitAdds'
  BY <1>4, <1>5, AddsOf
<1>9. RowsOf(c)
  BY <1>1 DEF RowsOf
<1>10. SplitHalves'
  <2>1. \A id \in Halving!Ids : halvingMade[id] # None => halvingMade[id].by # halvingCounts.splits + 1
    BY <1>2, SplitFields DEF SplitInv, SplitNumbers, SplitRows
  <2>2. QED BY <1>1, <1>4, <1>5, <1>9, <2>1, HalvesOf
<1>11. SplitOrigin'
  BY <1>1, <1>5, <1>9, OriginOf, IdleSplit
<1>12. SplitApart' /\ SplitUsed'
  BY <1>1, <1>4, <1>5, ApartFewer, IdleSplit DEF SplitInv, SplitUsed, Halving!There
<1>13. QED BY <1>6, <1>7, <1>8, <1>10, <1>11, <1>12 DEF SplitInv

LEMMA RefuseFirstInv == ASSUME SplitInv, NEW c \in Calls, Halving!RefuseFirst(c) PROVE SplitInv'
<1>1. calls[c].step = "first" /\ Halving!Ends(c) /\ UNCHANGED <<halvingMade, used, halvingWhole, left, halvingCounts>>
  BY DEF Halving!RefuseFirst
<1>2. OnlyCall(c) /\ calls'[c] = Halving!Idle
  BY <1>1, EndSplit DEF SplitInv
<1>3. \A id \in Halving!Ids : halvingMade[id] # None => halvingMade[id].by # calls[c].no
  BY <1>1 DEF SplitInv, SplitHalves
<1>4. halvingCounts' \in SplitCounts
  BY <1>1 DEF SplitInv, SplitTypes, SplitCounts
<1>5. QED BY <1>1, <1>2, <1>3, <1>4, CallsOnly

LEMMA RefuseSecondInv == ASSUME SplitInv, NEW c \in Calls, Halving!RefuseSecond(c) PROVE SplitInv'
<1>1. calls[c].step = "second" /\ Halving!Goto(c, "undo") /\ UNCHANGED <<halvingMade, used, halvingWhole, left, halvingCounts>>
  BY DEF Halving!RefuseSecond
<1>2. /\ OnlyCall(c)
      /\ calls'[c].step = "undo" /\ calls'[c].at = calls[c].at /\ calls'[c].no = calls[c].no /\ calls'[c].adds = None
  BY <1>1, GotoSplit DEF SplitInv
<1>3. calls'[c] # Halving!Idle
  BY <1>2, IdleSplit
<1>4. halvingCounts' \in SplitCounts
  BY <1>1 DEF SplitInv, SplitTypes, SplitCounts
<1>5. QED BY <1>1, <1>2, <1>3, <1>4, CallsOnly

\* What fails is over, and what it leaves is known; but a first half that is not committed leaves nothing.
LEMMA BreaksInv ==
  ASSUME SplitInv, NEW c \in Calls, calls[c] # Halving!Idle, Halving!Breaks(c), halvingCounts' \in SplitCounts, halvingCounts'.splits = halvingCounts.splits
  PROVE  SplitInv'
<1>1. /\ left' = (IF calls[c].step \in {"second", "undo"} THEN left \cup {calls[c].no} ELSE left)
      /\ Halving!Ends(c) /\ UNCHANGED <<halvingMade, used, halvingWhole>>
  BY DEF Halving!Breaks
<1>2. OnlyCall(c) /\ calls'[c] = Halving!Idle
  BY <1>1, EndSplit DEF SplitInv
<1>3. CASE calls[c].step \in {"second", "undo"}
  <2>1. calls[c].no # 0
    BY <1>3, SplitFields DEF SplitInv, SplitNumbers
  <2>2. QED BY <1>1, <1>2, <1>3, <2>1, CallsOnly
<1>4. CASE calls[c].step \notin {"second", "undo"}
  <2>1. calls[c].step \in {"first", "other"}
    BY <1>4, SplitFields DEF SplitInv, SplitNumbers
  <2>2. \A id \in Halving!Ids : halvingMade[id] # None => halvingMade[id].by # calls[c].no \/ calls[c].no = 0
    BY <2>1 DEF SplitInv, SplitHalves, SplitNumbers
  <2>3. QED BY <1>1, <1>2, <1>4, <2>2, CallsOnly
<1>5. QED BY <1>3, <1>4

LEMMA ConflictInv == ASSUME SplitInv, NEW c \in Calls, Halving!Conflict(c) PROVE SplitInv'
<1>1. calls[c].adds # None /\ Halving!Breaks(c) /\ UNCHANGED halvingCounts
  BY DEF Halving!Conflict, Halving!Adding
<1>2. calls[c] # Halving!Idle /\ halvingCounts' \in SplitCounts
  BY <1>1, IdleSplit DEF SplitInv, SplitTypes, SplitCounts
<1>3. QED BY <1>1, <1>2, BreaksInv

LEMMA FailsInv == ASSUME SplitInv, NEW c \in Calls, Halving!Fails(c) PROVE SplitInv'
<1>1. calls[c] # Halving!Idle /\ halvingCounts' = [halvingCounts EXCEPT !.faults = @ + 1] /\ Halving!Breaks(c)
  BY DEF Halving!Fails
<1>2. halvingCounts' \in SplitCounts /\ halvingCounts'.splits = halvingCounts.splits
  BY <1>1 DEF SplitInv, SplitTypes, SplitCounts
<1>3. QED BY <1>1, <1>2, BreaksInv

\* A row is checked, by a split or another request.
LEMMA Checks ==
  ASSUME SplitInv, NEW c \in Calls, OnlyCall(c), UNCHANGED <<halvingMade, used, halvingWhole, left>>,
         halvingCounts' \in SplitCounts, halvingCounts'.splits = halvingCounts.splits,
         calls[c].adds = None, NEW row \in SplitRows, calls'[c].adds = row, Halving!CanCreate(row),
         row.beside = {calls[d].adds.id : d \in Halving!Adding}, row.start < row.end, row.by = calls[c].no,
         calls'[c].no = calls[c].no, calls'[c].at = calls[c].at,
         \/ calls[c].step \in {"first", "second"} /\ calls'[c].step = calls[c].step /\ row.id = calls[c].step
         \/ calls[c].step = "idle" /\ calls'[c].step = "other"
  PROVE  SplitInv'
<1>1. SplitTypes'
  BY DEF SplitInv, SplitTypes, OnlyCall, SplitCounts
<1>2. SplitNumbers'
  <2>1. halvingCounts.splits \in Nat /\ halvingCounts.splits <= halvingCounts'.splits
    BY SplitFields DEF SplitInv
  <2>2. calls[c].step = "idle" => calls[c].no = 0
    BY IdleSplit DEF SplitInv, SplitNumbers
  <2>3. calls[c].step \in {"first", "second"} => calls[c].at \in 1..(halvingLength - 1) /\ calls[c].no \in 1..halvingCounts'.splits
    BY DEF SplitInv, SplitNumbers
  <2>4. QED BY <2>1, <2>2, <2>3, NumbersOf
<1>3. SplitAdds'
  BY AddsOf
<1>4. RowsOf(c)
  BY DEF RowsOf
<1>5. SplitHalves'
  BY <1>4, HalvesOf DEF SplitInv, SplitHalves
<1>6. SplitOrigin'
  BY <1>4, OriginOf
<1>7. SplitApart' /\ SplitUsed'
  BY ApartCheck DEF SplitInv, SplitUsed, Halving!There
<1>8. QED BY <1>1, <1>2, <1>3, <1>5, <1>6, <1>7 DEF SplitInv

LEMMA RowOf ==
  ASSUME SplitTypes, NEW id \in Halving!Ids, NEW start \in Int, NEW end \in Int, NEW no \in Nat
  PROVE  /\ Halving!Row(id, start, end, no) \in SplitRows
         /\ Halving!Row(id, start, end, no).id = id /\ Halving!Row(id, start, end, no).start = start /\ Halving!Row(id, start, end, no).end = end
         /\ Halving!Row(id, start, end, no).by = no /\ Halving!Row(id, start, end, no).beside = {calls[d].adds.id : d \in Halving!Adding}
<1>1. {calls[d].adds.id : d \in Halving!Adding} \in SUBSET Halving!Ids
  BY SplitFields DEF Halving!Adding, SplitRows
<1>2. QED BY <1>1 DEF Halving!Row, SplitRows

LEMMA CheckHalfInv ==
  ASSUME Halving!SplitAssumption, SplitInv, NEW c \in Calls, Halving!CheckHalf(c, "first", Halving!First(c)) \/ Halving!CheckHalf(c, "second", Halving!Second(c))
  PROVE  SplitInv'
<1>1. PICK step \in {"first", "second"}, row \in {Halving!First(c), Halving!Second(c)} :
        /\ row = (IF step = "first" THEN Halving!First(c) ELSE Halving!Second(c))
        /\ calls[c].step = step /\ calls[c].adds = None /\ Halving!CanCreate(row)
        /\ calls' = [calls EXCEPT ![c].adds = row]
        /\ UNCHANGED <<halvingMade, used, halvingWhole, left, halvingCounts>>
  BY DEF Halving!CheckHalf
<1>2. calls[c].at \in 1..(halvingLength - 1) /\ calls[c].no \in 1..halvingCounts.splits /\ halvingCounts.splits \in Nat /\ halvingLength \in Nat
  BY <1>1, SplitFields DEF SplitInv, SplitNumbers, Halving!SplitAssumption
<1>3. /\ row \in SplitRows /\ row.id = step /\ row.start < row.end /\ row.by = calls[c].no
      /\ row.beside = {calls[d].adds.id : d \in Halving!Adding}
  <2>1. calls[c].at \in Int /\ calls[c].no \in Nat /\ 0 < calls[c].at /\ calls[c].at < halvingLength
    BY <1>2
  <2>2. SplitTypes /\ halvingLength \in Int /\ 0 \in Int /\ "first" \in Halving!Ids /\ "second" \in Halving!Ids
    BY <1>2 DEF SplitInv, Halving!Ids, Halving!Halves
  <2>3. CASE step = "first"
    <3>1. row = Halving!Row("first", 0, calls[c].at, calls[c].no)
      BY <1>1, <2>3 DEF Halving!First
    <3>2. /\ row \in SplitRows /\ row.id = "first" /\ row.start = 0 /\ row.end = calls[c].at
          /\ row.by = calls[c].no /\ row.beside = {calls[d].adds.id : d \in Halving!Adding}
      BY <2>1, <2>2, <3>1, RowOf
    <3>3. QED BY <2>1, <2>3, <3>2
  <2>4. CASE step = "second"
    <3>1. row = Halving!Row("second", calls[c].at, halvingLength, calls[c].no)
      BY <1>1, <2>4 DEF Halving!Second
    <3>2. QED BY <2>1, <2>2, <2>4, <3>1, RowOf
  <2>5. QED BY <2>3, <2>4
<1>4. PICK x \in SplitSteps : x = [calls[c] EXCEPT !.adds = row]
  BY <1>3 DEF SplitInv, SplitTypes, SplitSteps
<1>5. x.step = step /\ x.at = calls[c].at /\ x.no = calls[c].no /\ x.adds = row
  BY <1>1, <1>4 DEF SplitInv, SplitTypes, SplitSteps
<1>6. calls' = [calls EXCEPT ![c] = x]
  BY <1>1, <1>4, ZenonT(30)
<1>7. OnlyCall(c) /\ calls'[c] = x
  BY <1>6 DEF SplitInv, SplitTypes, OnlyCall
<1>8. halvingCounts' \in SplitCounts
  BY <1>1 DEF SplitInv, SplitTypes, SplitCounts
<1>9. QED BY <1>1, <1>3, <1>5, <1>7, <1>8, Checks

LEMMA ChangedCounts ==
  ASSUME SplitInv, Halving!Changed
  PROVE  halvingCounts' \in SplitCounts /\ halvingCounts'.splits = halvingCounts.splits
BY DEF SplitInv, SplitTypes, Halving!Changed, SplitCounts

LEMMA HalvingCreateInv == ASSUME Halving!SplitAssumption, SplitInv, NEW c \in Calls, NEW id \in Halving!Ids, Halving!Create(c, id) PROVE SplitInv'
<1>1. PICK start \in 0..(halvingLength - 1), end \in 1..halvingLength :
        /\ calls[c] = Halving!Idle /\ start < end /\ Halving!CanCreate(Halving!Row(id, start, end, 0)) /\ Halving!Changed
        /\ calls' = [calls EXCEPT ![c] = [step |-> "other", at |-> 0, no |-> 0, adds |-> Halving!Row(id, start, end, 0)]]
        /\ UNCHANGED <<halvingMade, used, halvingWhole, left>>
  BY DEF Halving!Create
<1>2. PICK row \in SplitRows : row = Halving!Row(id, start, end, 0)
  <2>1. start \in Int /\ end \in Int
    BY DEF Halving!SplitAssumption
  <2>2. QED BY <2>1, RowOf DEF SplitInv
<1>3. row.start < row.end /\ row.by = 0 /\ row.beside = {calls[d].adds.id : d \in Halving!Adding}
  BY <1>1, <1>2 DEF Halving!Row
<1>4. PICK x \in SplitSteps : x = [step |-> "other", at |-> 0, no |-> 0, adds |-> row]
  BY DEF SplitSteps
<1>5. OnlyCall(c) /\ calls'[c] = x
  BY <1>1, <1>2, <1>4 DEF SplitInv, SplitTypes, OnlyCall
<1>6. x.step = "other" /\ x.at = 0 /\ x.no = 0 /\ x.adds = row
  BY <1>4
<1>7. calls[c].adds = None /\ calls[c].no = 0 /\ calls[c].at = 0 /\ calls[c].step = "idle"
  BY <1>1, IdleSplit
<1>8. QED BY <1>1, <1>2, <1>3, <1>5, <1>6, <1>7, ChangedCounts, Checks

LEMMA CommitInv == ASSUME Halving!SplitAssumption, SplitInv, NEW c \in Calls, Halving!Commit(c) PROVE SplitInv'
<1>1. /\ calls[c].adds # None /\ halvingMade[calls[c].adds.id] = None
      /\ halvingMade' = [halvingMade EXCEPT ![calls[c].adds.id] = calls[c].adds]
      /\ \/ calls[c].step = "first" /\ Halving!Goto(c, "second") /\ UNCHANGED halvingWhole
         \/ calls[c].step = "second" /\ Halving!Ends(c) /\ halvingWhole' = halvingWhole \cup {calls[c].no}
         \/ calls[c].step = "other" /\ Halving!Ends(c) /\ UNCHANGED halvingWhole
      /\ UNCHANGED <<used, left, halvingCounts>>
  BY DEF Halving!Commit, Halving!Adding
<1>2. PICK row \in SplitRows : row = calls[c].adds
  BY <1>1, SplitFields DEF SplitInv
<1>3. /\ row.start < row.end /\ row.by = calls[c].no
      /\ calls[c].step \in {"first", "second"} => row.id = calls[c].step
  BY <1>1, <1>2 DEF SplitInv, SplitAdds
<1>4. /\ OnlyCall(c) /\ calls'[c].adds = None
      /\ \/ /\ calls[c].step = "first" /\ calls'[c].step = "second" /\ calls'[c].at = calls[c].at
            /\ calls'[c].no = calls[c].no
         \/ calls[c].step \in {"second", "other"} /\ calls'[c] = Halving!Idle
  BY <1>1, GotoSplit, EndSplit, IdleSplit DEF SplitInv
<1>5. /\ row.id \in Halving!Ids /\ halvingMade' \in [Halving!Ids -> SplitRows \cup {None}] /\ halvingMade'[row.id] = row
      /\ \A other \in Halving!Ids \ {row.id} : halvingMade'[other] = halvingMade[other]
  BY <1>1, <1>2, PutRow DEF SplitInv, SplitTypes, SplitRows
<1>6. calls[c].no \in 0..halvingCounts.splits /\ halvingCounts.splits \in Nat /\ halvingCounts' = halvingCounts
  BY <1>1, SplitGiven, SplitFields DEF SplitInv
<1>7. RowsOf(c)
  BY <1>3, <1>5 DEF RowsOf
<1>8. SplitTypes'
  <2>1. calls[c].step = "second" => calls[c].no \in 1..halvingCounts.splits
    BY DEF SplitInv, SplitNumbers
  <2>2. halvingWhole' \subseteq 1..halvingCounts.splits
    BY <1>1, <2>1 DEF SplitInv, SplitTypes
  <2>3. QED BY <1>1, <1>4, <1>5, <2>2 DEF SplitInv, SplitTypes, OnlyCall
<1>9. SplitNumbers'
  <2>1. halvingCounts' \in SplitCounts /\ halvingCounts.splits <= halvingCounts'.splits
    BY <1>6 DEF SplitInv, SplitTypes, SplitCounts
  <2>2. \A id \in Halving!Ids : halvingMade'[id] # None =>
          halvingMade'[id] = halvingMade[id] \/ (halvingMade'[id].start < halvingMade'[id].end /\ halvingMade'[id].by <= halvingCounts'.splits)
    BY <1>3, <1>5, <1>6
  <2>3. calls'[c].step \in {"first", "second", "undo"} =>
          calls'[c].at \in 1..(halvingLength - 1) /\ calls'[c].no \in 1..halvingCounts'.splits
    BY <1>4, <1>6, IdleSplit DEF SplitInv, SplitNumbers
  <2>4. (calls'[c].step = "idle" => calls'[c] = Halving!Idle) /\ (calls'[c].step = "other" => calls'[c].no = 0)
    BY <1>4, IdleSplit
  <2>5. calls'[c].no \in {0, calls[c].no, halvingCounts.splits + 1}
    BY <1>4, IdleSplit
  <2>6. QED BY <1>4, <2>1, <2>2, <2>3, <2>4, <2>5, NumbersOf
<1>10. SplitAdds'
  BY <1>4, AddsOf
<1>11. SplitHalves'
  <2>1. CASE calls'[c] = Halving!Idle
    BY <1>4, <1>7, <2>1, HalvesOf, IdleSplit
  <2>2. CASE calls[c].step = "first" /\ calls'[c].step = "second" /\ calls'[c].no = calls[c].no
    <3>1. \A id \in Halving!Ids : halvingMade'[id] # None /\ halvingMade'[id].by = calls[c].no => id = "first"
      BY <1>3, <1>5, <2>2 DEF SplitInv, SplitHalves
    <3>2. QED BY <1>4, <1>7, <2>2, <3>1, HalvesOf
  <2>3. QED BY <1>4, <2>1, <2>2
<1>12. SplitOrigin'
  <2>1. \/ calls'[c].no = calls[c].no
        \/ calls[c].no \in {0} \cup halvingWhole' \cup left'
    BY <1>1, <1>4 DEF SplitInv, SplitNumbers
  <2>2. halvingWhole \subseteq halvingWhole' /\ left \subseteq left'
    BY <1>1
  <2>3. QED BY <1>4, <1>7, <2>1, <2>2, OriginOf
<1>13. SplitApart' /\ SplitUsed'
  BY <1>1, <1>2, <1>4, ApartPut
<1>14. QED BY <1>8, <1>9, <1>10, <1>11, <1>12, <1>13 DEF SplitInv

LEMMA RemoveFirstInv == ASSUME SplitInv, NEW c \in Calls, Halving!RemoveFirst(c) PROVE SplitInv'
<1>1. calls[c].step = "undo" /\ Halving!Ends(c) /\ UNCHANGED <<used, halvingWhole, halvingCounts>>
  BY DEF Halving!RemoveFirst
<1>2. OnlyCall(c) /\ calls'[c] = Halving!Idle
  BY <1>1, EndSplit DEF SplitInv
<1>3. halvingCounts' \in SplitCounts /\ halvingCounts.splits \in Nat /\ halvingCounts.splits <= halvingCounts'.splits
  BY <1>1, SplitFields DEF SplitInv, SplitTypes, SplitCounts
<1>4. CASE "first" \in used
  <2>1. left' = left \cup {calls[c].no} /\ UNCHANGED halvingMade
    BY <1>4 DEF Halving!RemoveFirst
  <2>2. calls[c].no # 0
    BY <1>1, SplitFields DEF SplitInv, SplitNumbers
  <2>3. QED BY <1>1, <1>2, <1>3, <2>1, <2>2, CallsOnly
<1>5. CASE "first" \notin used
  <2>1. halvingMade' = [halvingMade EXCEPT !["first"] = None] /\ UNCHANGED left
    BY <1>5 DEF Halving!RemoveFirst
  <2>2. /\ halvingMade' \in [Halving!Ids -> SplitRows \cup {None}] /\ halvingMade'["first"] = None
        /\ \A other \in Halving!Ids \ {"first"} : halvingMade'[other] = halvingMade[other]
    BY <2>1, PutRow DEF SplitInv, SplitTypes, Halving!Ids, Halving!Halves
  <2>3. \A id \in Halving!Ids : halvingMade'[id] # None => halvingMade'[id] = halvingMade[id] /\ id # "first"
    BY <2>2
  <2>4. SplitTypes'
    BY <1>1, <1>2, <2>1, <2>2 DEF SplitInv, SplitTypes, OnlyCall
  <2>5. SplitNumbers'
    BY <1>2, <1>3, <2>3, NumbersOf, IdleSplit
  <2>6. SplitAdds'
    BY <1>2, AddsOf, IdleSplit
  <2>7. RowsOf(c)
    BY <2>3 DEF RowsOf
  <2>8. SplitHalves'
    BY <1>2, <2>7, HalvesOf, IdleSplit
  <2>9. SplitOrigin'
    <3>1. \A id \in Halving!Ids : halvingMade'[id] # None => halvingMade'[id].by # calls[c].no
      BY <1>1, <2>3 DEF SplitInv, SplitHalves
    <3>2. halvingWhole \subseteq halvingWhole' /\ left \subseteq left'
      BY <1>1, <2>1
    <3>3. QED BY <1>2, <2>7, <3>1, <3>2, OriginOf
  <2>10. SplitApart'
    BY <1>2, <2>3, ApartFewer, IdleSplit
  <2>11. SplitUsed'
    BY <1>1, <1>5, <2>2 DEF SplitInv, SplitUsed, Halving!There
  <2>12. QED BY <2>4, <2>5, <2>6, <2>8, <2>9, <2>10, <2>11 DEF SplitInv
<1>6. QED BY <1>4, <1>5

LEMMA HalvingDeleteInv == ASSUME SplitInv, NEW id \in Halving!Ids, Halving!Delete(id) PROVE SplitInv'
<1>1. /\ id \notin used /\ Halving!Changed /\ halvingMade' = [halvingMade EXCEPT ![id] = None]
      /\ UNCHANGED <<used, calls, halvingWhole, left>>
  BY DEF Halving!Delete
<1>2. /\ halvingMade' \in [Halving!Ids -> SplitRows \cup {None}] /\ halvingMade'[id] = None
      /\ \A other \in Halving!Ids \ {id} : halvingMade'[other] = halvingMade[other]
  BY <1>1, PutRow DEF SplitInv, SplitTypes
<1>3. \A other \in Halving!Ids : halvingMade'[other] # None => halvingMade'[other] = halvingMade[other] /\ other # id
  BY <1>2
<1>4. SplitTypes' /\ SplitNumbers' /\ SplitAdds'
  BY <1>1, <1>2, <1>3, ChangedCounts DEF SplitInv, SplitTypes, SplitNumbers, SplitAdds, SplitCounts
<1>5. SplitHalves' /\ SplitOrigin'
  BY <1>1, <1>3 DEF SplitInv, SplitHalves, SplitOrigin
<1>6. Halving!There' \subseteq Halving!There /\ (\A a \in Halving!There' : halvingMade'[a] = halvingMade[a]) /\ SplitUsed'
  BY <1>1, <1>2, <1>3 DEF Halving!There, SplitInv, SplitUsed
<1>7. SplitApart'
  BY <1>1, <1>6 DEF SplitInv, SplitApart, Beside, Halving!Apart
<1>8. QED BY <1>4, <1>5, <1>6, <1>7 DEF SplitInv

LEMMA UseInv == ASSUME SplitInv, NEW id \in Halving!Ids, Halving!Use(id) PROVE SplitInv'
<1>1. /\ id \in Halving!There /\ Halving!Changed /\ used' = used \cup {id}
      /\ UNCHANGED <<halvingMade, calls, halvingWhole, left>>
  BY DEF Halving!Use
<1>2. SplitTypes' /\ SplitNumbers' /\ SplitAdds'
  BY <1>1, ChangedCounts DEF SplitInv, SplitTypes, SplitNumbers, SplitAdds, SplitCounts
<1>3. SplitHalves' /\ SplitUsed' /\ SplitApart' /\ SplitOrigin'
  BY <1>1 DEF SplitInv, SplitHalves, SplitUsed, SplitApart, SplitOrigin, Halving!There, Beside, Halving!Apart
<1>4. QED BY <1>2, <1>3 DEF SplitInv

LEMMA HalvingNextInv == ASSUME Halving!SplitAssumption, SplitInv, [Halving!Next]_(Halving!splitVars) PROVE SplitInv'
<1>1. ASSUME NEW c \in Calls, Halving!Split(c) \/ Halving!CheckHalf(c, "first", Halving!First(c)) \/ Halving!CheckHalf(c, "second", Halving!Second(c))
      PROVE  SplitInv'
  BY <1>1, SplitStep, CheckHalfInv
<1>2. ASSUME NEW c \in Calls, Halving!RefuseFirst(c) \/ Halving!RefuseSecond(c) \/ Halving!RemoveFirst(c) PROVE SplitInv'
  BY <1>2, RefuseFirstInv, RefuseSecondInv, RemoveFirstInv
<1>3. ASSUME NEW c \in Calls, Halving!Commit(c) \/ Halving!Conflict(c) \/ Halving!Fails(c) PROVE SplitInv'
  BY <1>3, CommitInv, ConflictInv, FailsInv
<1>4. ASSUME NEW c \in Calls, NEW id \in Halving!Ids, Halving!Create(c, id) PROVE SplitInv'
  BY <1>4, HalvingCreateInv
<1>5. ASSUME NEW id \in Halving!Ids, Halving!Delete(id) \/ Halving!Use(id) PROVE SplitInv'
  BY <1>5, HalvingDeleteInv, UseInv
<1>6. CASE UNCHANGED Halving!splitVars
  BY <1>6 DEF SplitInv, SplitTypes, SplitNumbers, SplitAdds, SplitHalves, SplitUsed, SplitApart, SplitOrigin, Halving!There,
     Beside, Halving!Apart, Halving!splitVars
<1>7. QED BY <1>1, <1>2, <1>3, <1>4, <1>5, <1>6 DEF Halving!Next

LEMMA InvSplit == ASSUME SplitInv PROVE Halving!TypeOK /\ Halving!SplitIsWhole
<1>1. Halving!TypeOK
  <2>1. \A id \in Halving!There : halvingMade[id].start < halvingMade[id].end /\ halvingMade[id].by \in 0..halvingCounts.splits
    BY DEF SplitInv, SplitTypes, SplitNumbers, SplitRows, Halving!There
  <2>2. QED BY <2>1 DEF SplitInv, SplitTypes, SplitUsed, Halving!TypeOK
<1>2. Halving!SplitIsWhole
  <2>1. \A a, b \in Halving!There : a # b => Halving!Apart(halvingMade[a], halvingMade[b]) \/ a \in halvingMade[b].beside \/ b \in halvingMade[a].beside
    BY DEF SplitInv, SplitApart, Beside
  <2>2. SUFFICES ASSUME NEW half \in Halving!Halves \cap Halving!There, halvingMade[half].by # 0, halvingMade[half].by \notin halvingWhole \cup left
                 PROVE  \E c \in Calls : calls[c].no = halvingMade[half].by
    BY <2>1 DEF Halving!SplitIsWhole
  <2>3. half \in Halving!Ids /\ halvingMade[half] # None
    BY DEF Halving!There
  <2>4. QED BY <2>2, <2>3 DEF SplitInv, SplitOrigin
<1>3. QED BY <1>1, <1>2

\* "Both or neither" (split_vod, api_v2_routes.py), for any length of the VOD and any number of splits and
\* other requests that create side by side, each checked and committed at moments of its own: a half of a
\* split that is over is one of two, unless the split failed or its half was in use; and of two that
\* supersede one second, one was checked while the other was checked and not committed.
THEOREM SplitsAreWhole == ASSUME Halving!SplitAssumption PROVE Halving!Spec => [](Halving!TypeOK /\ Halving!SplitIsWhole)
<1>1. Halving!Init => SplitInv
  BY HalvingInitInv
<1>2. SplitInv /\ [Halving!Next]_(Halving!splitVars) => SplitInv'
  BY HalvingNextInv
<1>3. SplitInv => Halving!TypeOK /\ Halving!SplitIsWhole
  BY InvSplit
<1>4. QED BY <1>1, <1>2, <1>3, PTL DEF Halving!Spec

------------------------------------------------------------------------------
(* UploadRemoval.                                                           *)

Videos == Removal!Types(Listed) \X {e[2] : e \in Listed} \X Nat
RemovalRequests ==
  [step : {"idle", "deleting", "dropped"}, todo : SUBSET Videos, deleted : SUBSET Videos, failed : SUBSET Videos,
   types : SUBSET Removal!Types(Listed)]
RemovalCounts == [requests : Nat, reuploads : Nat, faults : Nat]

RemovalTypes ==
  /\ list \in SUBSET Videos /\ channel \in SUBSET Videos /\ doomed \in SUBSET Videos
  /\ removalRequest \in RemovalRequests /\ removalCounts \in RemovalCounts

\* No upload is of a generation to come.
Generations == \A e \in list \cup channel \cup doomed \cup removalRequest.todo \cup removalRequest.deleted : e[3] <= removalCounts.reuploads + 1

\* What is deleted or replaced does not come back: on YouTube, or on the list.
GoneStaysGone ==
  /\ removalRequest.deleted \cap channel = {} /\ doomed \cap list = {}
  /\ removalRequest.step = "dropped" => list \cap removalRequest.deleted = {}
  /\ removalRequest.step = "idle" => removalRequest = Removal!Idle
  /\ removalRequest.step = "deleting" => removalRequest.types = {}

\* A listed upload is there, or its deletion is known of.
ListedOrKnown == list \subseteq channel \cup cutShort \cup removalRequest.deleted

\* Whose description does not link to the other parts has a describe job queued, or to be queued, or missed.
LinkedOrAsked ==
  \A e \in list \cap channel :
    \/ e[1] \in untold \cup describes \cup removalRequest.types
    \/ e \in DOMAIN links /\ links[e] = Removal!Others(e)

RemovalInv == RemovalTypes /\ Generations /\ GoneStaysGone /\ ListedOrKnown /\ LinkedOrAsked

----------------------------------------------------------------------------

LEMMA IdleRemoval ==
  Removal!Idle \in RemovalRequests /\ Removal!Idle.step = "idle" /\ Removal!Idle.todo = {} /\ Removal!Idle.deleted = {} /\ Removal!Idle.types = {}
BY DEF Removal!Idle, RemovalRequests

LEMMA Counting ==
  ASSUME removalCounts \in RemovalCounts
  PROVE  /\ Removal!Count("requests") \/ Removal!Count("faults") =>
              removalCounts' \in RemovalCounts /\ removalCounts'.reuploads = removalCounts.reuploads
         /\ Removal!Count("reuploads") => removalCounts' \in RemovalCounts /\ removalCounts'.reuploads = removalCounts.reuploads + 1
BY DEF RemovalCounts, Removal!Count

LEMMA OfVideos ==
  ASSUME NEW e \in Videos
  PROVE  e[1] \in Removal!Types(Listed) /\ e[3] \in Nat /\ e = <<e[1], e[2], e[3]>> /\ e[2] \in {v[2] : v \in Listed}
BY DEF Videos

\* A request goes on to r: its conditions, apart from those on the list and the links.
LEMMA RequestTypes ==
  ASSUME RemovalInv, removalRequest' \in RemovalRequests, channel' \subseteq channel, list' \subseteq list, doomed' = doomed,
         removalCounts' \in RemovalCounts, removalCounts'.reuploads = removalCounts.reuploads,
         removalRequest'.todo \subseteq removalRequest.todo \cup list, removalRequest'.deleted \subseteq removalRequest.deleted \cup removalRequest.todo
  PROVE  RemovalTypes' /\ Generations'
<1>1. RemovalTypes'
  BY DEF RemovalInv, RemovalTypes
<1>2. Generations'
  BY DEF RemovalInv, Generations
<1>3. QED BY <1>1, <1>2

LEMMA RemovalInitInv == ASSUME Removal!RemovalAssumption, Removal!Init PROVE RemovalInv
<1>1. \A e \in Listed : e \in Videos /\ e[3] = 1
  <2>1. TAKE e \in Listed
  <2>2. e[1] \in Removal!Types(Listed) /\ e[2] \in {v[2] : v \in Listed} /\ e = <<e[1], e[2], 1>>
    BY DEF Removal!RemovalAssumption, Removal!Types
  <2>3. e[3] = 1
    BY <2>2
  <2>4. QED BY <2>2, <2>3 DEF Videos
<1>2. RemovalTypes
  BY <1>1, IdleRemoval DEF Removal!Init, RemovalTypes, RemovalCounts
<1>3. Generations /\ GoneStaysGone /\ ListedOrKnown
  BY <1>1, IdleRemoval DEF Removal!Init, Generations, GoneStaysGone, ListedOrKnown
<1>4. LinkedOrAsked
  BY DEF Removal!Init, LinkedOrAsked, Removal!Others
<1>5. QED BY <1>2, <1>3, <1>4 DEF RemovalInv

LEMMA BeginInv == ASSUME RemovalInv, Removal!Begin PROVE RemovalInv'
<1>1. PICK ids \in SUBSET list : removalRequest' = [Removal!Idle EXCEPT !.step = "deleting", !.todo = ids]
  BY DEF Removal!Begin
<1>2. /\ removalRequest = Removal!Idle /\ Removal!Count("requests") /\ list \in SUBSET Videos
      /\ UNCHANGED <<list, channel, links, describes, cutShort, untold, doomed>>
  BY DEF Removal!Begin, RemovalInv, RemovalTypes
<1>3. /\ removalRequest' \in RemovalRequests /\ removalRequest'.step = "deleting" /\ removalRequest'.todo = ids
      /\ removalRequest'.deleted = {} /\ removalRequest'.types = {}
  BY <1>1, <1>2 DEF Removal!Idle, RemovalRequests
<1>4. removalCounts' \in RemovalCounts /\ removalCounts'.reuploads = removalCounts.reuploads
  BY <1>2, Counting DEF RemovalInv, RemovalTypes
<1>5. RemovalTypes' /\ Generations'
  BY <1>2, <1>3, <1>4, RequestTypes
<1>6. GoneStaysGone' /\ ListedOrKnown' /\ LinkedOrAsked'
  BY <1>2, <1>3, IdleRemoval DEF RemovalInv, GoneStaysGone, ListedOrKnown, LinkedOrAsked, Removal!Others
<1>7. QED BY <1>5, <1>6 DEF RemovalInv

LEMMA RemovalDeleteInv == ASSUME RemovalInv, NEW e \in removalRequest.todo, Removal!Delete(e) PROVE RemovalInv'
<1>1. /\ removalRequest.step = "deleting" /\ channel' = channel \ {e}
      /\ UNCHANGED <<list, links, describes, cutShort, untold, doomed, removalCounts>>
      /\ removalRequest \in RemovalRequests
  BY DEF Removal!Delete, RemovalInv, RemovalTypes
<1>2. /\ removalRequest' \in RemovalRequests /\ removalRequest'.step = "deleting" /\ removalRequest'.todo = removalRequest.todo \ {e}
      /\ removalRequest'.deleted = removalRequest.deleted \cup {e} /\ removalRequest'.types = removalRequest.types
  <2>1. PICK todo \in SUBSET Videos, deleted \in SUBSET Videos :
          todo = removalRequest.todo \ {e} /\ deleted = removalRequest.deleted \cup {e}
    BY <1>1 DEF RemovalRequests
  <2>2. removalRequest' = [[removalRequest EXCEPT !.todo = todo] EXCEPT !.deleted = deleted]
    BY <1>1, <2>1, ZenonT(30) DEF Removal!Delete, RemovalRequests
  <2>3. /\ removalRequest' \in RemovalRequests /\ removalRequest'.step = removalRequest.step /\ removalRequest'.todo = todo
        /\ removalRequest'.deleted = deleted /\ removalRequest'.types = removalRequest.types
    BY <1>1, <2>2, ZenonT(30) DEF RemovalRequests
  <2>4. QED BY <1>1, <2>1, <2>3
<1>3. RemovalTypes' /\ Generations'
  BY <1>1, <1>2, RequestTypes DEF RemovalInv, RemovalTypes
<1>4. GoneStaysGone' /\ ListedOrKnown' /\ LinkedOrAsked'
  BY <1>1, <1>2 DEF RemovalInv, GoneStaysGone, ListedOrKnown, LinkedOrAsked, Removal!Others
<1>5. QED BY <1>3, <1>4 DEF RemovalInv

LEMMA DeleteFailsInv == ASSUME RemovalInv, NEW e \in removalRequest.todo, Removal!DeleteFails(e) PROVE RemovalInv'
<1>1. /\ removalRequest.step = "deleting" /\ channel' \in {channel, channel \ {e}}
      /\ cutShort' = (IF e \in channel' THEN cutShort ELSE cutShort \cup {e})
      /\ Removal!Count("faults")
      /\ UNCHANGED <<list, links, describes, untold, doomed>>
      /\ removalRequest \in RemovalRequests
  BY DEF Removal!DeleteFails, RemovalInv, RemovalTypes
<1>2. /\ removalRequest' \in RemovalRequests /\ removalRequest'.step = "deleting" /\ removalRequest'.todo = removalRequest.todo \ {e}
      /\ removalRequest'.deleted = removalRequest.deleted /\ removalRequest'.types = removalRequest.types
  <2>1. PICK todo \in SUBSET Videos, failed \in SUBSET Videos :
          todo = removalRequest.todo \ {e} /\ failed = removalRequest.failed \cup {e}
    BY <1>1 DEF RemovalRequests
  <2>2. removalRequest' = [[removalRequest EXCEPT !.todo = todo] EXCEPT !.failed = failed]
    BY <1>1, <2>1, ZenonT(30) DEF Removal!DeleteFails, RemovalRequests
  <2>3. /\ removalRequest' \in RemovalRequests /\ removalRequest'.step = removalRequest.step /\ removalRequest'.todo = todo
        /\ removalRequest'.deleted = removalRequest.deleted /\ removalRequest'.types = removalRequest.types
    BY <1>1, <2>2, ZenonT(30) DEF RemovalRequests
  <2>4. QED BY <1>1, <2>1, <2>3
<1>3. removalCounts' \in RemovalCounts /\ removalCounts'.reuploads = removalCounts.reuploads
  BY <1>1, Counting DEF RemovalInv, RemovalTypes
<1>4. RemovalTypes' /\ Generations'
  BY <1>1, <1>2, <1>3, RequestTypes
<1>5. GoneStaysGone' /\ ListedOrKnown' /\ LinkedOrAsked'
  BY <1>1, <1>2 DEF RemovalInv, GoneStaysGone, ListedOrKnown, LinkedOrAsked, Removal!Others
<1>6. QED BY <1>4, <1>5 DEF RemovalInv

LEMMA EndsEarlyInv == ASSUME RemovalInv, Removal!EndsEarly PROVE RemovalInv'
<1>1. /\ cutShort' = cutShort \cup (removalRequest.deleted \cap list) /\ untold' = untold \cup removalRequest.types
      /\ removalRequest' = Removal!Idle /\ Removal!Count("faults")
      /\ UNCHANGED <<list, channel, links, describes, doomed>>
  BY DEF Removal!EndsEarly
<1>2. removalCounts' \in RemovalCounts /\ removalCounts'.reuploads = removalCounts.reuploads
  BY <1>1, Counting DEF RemovalInv, RemovalTypes
<1>3. RemovalTypes' /\ Generations'
  BY <1>1, <1>2, IdleRemoval, RequestTypes
<1>4. GoneStaysGone' /\ ListedOrKnown' /\ LinkedOrAsked'
  BY <1>1, IdleRemoval DEF RemovalInv, GoneStaysGone, ListedOrKnown, LinkedOrAsked, Removal!Others
<1>5. QED BY <1>3, <1>4 DEF RemovalInv

\* The types that lose an upload are to be told of; the other parts of an upload of another type are as they were.
LEMMA DropInv == ASSUME RemovalInv, Removal!Drop PROVE RemovalInv'
<1>1. /\ removalRequest.step = "deleting" /\ removalRequest.todo = {} /\ list' = list \ removalRequest.deleted
      /\ UNCHANGED <<channel, links, describes, cutShort, untold, doomed, removalCounts>>
      /\ removalRequest \in RemovalRequests /\ list \in SUBSET Videos
  BY DEF Removal!Drop, Removal!Left, RemovalInv, RemovalTypes
<1>2. PICK types \in SUBSET Removal!Types(Listed) : types = Removal!Types(list \cap removalRequest.deleted)
  BY <1>1, OfVideos DEF Removal!Types
<1>3. /\ removalRequest' \in RemovalRequests /\ removalRequest'.step = "dropped" /\ removalRequest'.todo = {}
      /\ removalRequest'.deleted = removalRequest.deleted /\ removalRequest'.types = types
  <2>1. removalRequest' = [[removalRequest EXCEPT !.step = "dropped"] EXCEPT !.types = types]
    BY <1>1, <1>2, ZenonT(30) DEF Removal!Drop, RemovalRequests
  <2>2. /\ removalRequest' \in RemovalRequests /\ removalRequest'.step = "dropped" /\ removalRequest'.todo = removalRequest.todo
        /\ removalRequest'.deleted = removalRequest.deleted /\ removalRequest'.types = types
    BY <1>1, <2>1, ZenonT(30) DEF RemovalRequests
  <2>3. QED BY <1>1, <2>2
<1>4. RemovalTypes' /\ Generations'
  BY <1>1, <1>3, RequestTypes DEF RemovalInv, RemovalTypes
<1>5. GoneStaysGone' /\ ListedOrKnown'
  BY <1>1, <1>3 DEF RemovalInv, GoneStaysGone, ListedOrKnown
<1>6. LinkedOrAsked'
  <2>1. SUFFICES ASSUME NEW e \in list' \cap channel, e[1] \notin untold \cup describes \cup types
                 PROVE  e \in DOMAIN links /\ links[e] = Removal!Others(e)'
    BY <1>1, <1>3 DEF LinkedOrAsked
  <2>2. Removal!Of(list', e[1]) = Removal!Of(list, e[1])
    BY <1>1, <1>2, <2>1 DEF Removal!Of, Removal!Types
  <2>3. Removal!Others(e)' = Removal!Others(e)
    BY <2>2 DEF Removal!Others
  <2>4. e \in DOMAIN links /\ links[e] = Removal!Others(e)
    BY <1>1, <2>1 DEF RemovalInv, GoneStaysGone, LinkedOrAsked
  <2>5. QED BY <2>3, <2>4
<1>7. QED BY <1>4, <1>5, <1>6 DEF RemovalInv

LEMMA DescribeInv == ASSUME RemovalInv, Removal!Describe PROVE RemovalInv'
<1>1. /\ removalRequest.step = "dropped" /\ describes' = describes \cup (removalRequest.types \cap Removal!Types(list))
      /\ removalRequest' = Removal!Idle
      /\ UNCHANGED <<list, channel, links, cutShort, untold, doomed, removalCounts>>
  BY DEF Removal!Describe
<1>2. RemovalTypes' /\ Generations'
  BY <1>1, IdleRemoval, RequestTypes DEF RemovalInv, RemovalTypes
<1>3. GoneStaysGone' /\ ListedOrKnown'
  BY <1>1, IdleRemoval DEF RemovalInv, GoneStaysGone, ListedOrKnown
<1>4. LinkedOrAsked'
  <2>1. \A e \in list : e[1] \in Removal!Types(list)
    BY DEF Removal!Types
  <2>2. QED BY <1>1, <2>1 DEF RemovalInv, LinkedOrAsked, Removal!Others
<1>5. QED BY <1>2, <1>3, <1>4 DEF RemovalInv

\* The new upload is of a generation there was not, and its type is to be described.
LEMMA ReuploadInv == ASSUME RemovalInv, NEW e \in list, Removal!Reupload(e) PROVE RemovalInv'
<1>1. PICK new : new = <<e[1], e[2], removalCounts.reuploads + 2>>
  OBVIOUS
<1>2. /\ list' = (list \ {e}) \cup {new} /\ channel' = channel \cup {new} /\ doomed' = doomed \cup {e}
      /\ describes' = describes \cup {e[1]} /\ Removal!Count("reuploads")
      /\ UNCHANGED <<links, removalRequest, cutShort, untold>>
  BY <1>1 DEF Removal!Reupload
<1>3. /\ removalCounts' \in RemovalCounts /\ removalCounts'.reuploads = removalCounts.reuploads + 1 /\ removalCounts.reuploads \in Nat
      /\ list \in SUBSET Videos /\ removalRequest \in RemovalRequests
  BY <1>2, Counting DEF RemovalInv, RemovalTypes, RemovalCounts
<1>4. new \in Videos /\ new[1] = e[1] /\ new[3] = removalCounts.reuploads + 2
  <2>1. e[1] \in Removal!Types(Listed) /\ e[2] \in {v[2] : v \in Listed}
    BY <1>3, OfVideos
  <2>2. removalCounts.reuploads + 2 \in Nat
    BY <1>3
  <2>3. QED BY <1>1, <2>1, <2>2 DEF Videos
<1>5. new \notin list \cup channel \cup doomed \cup removalRequest.todo \cup removalRequest.deleted
  BY <1>3, <1>4 DEF RemovalInv, Generations
<1>6. RemovalTypes'
  BY <1>2, <1>3, <1>4 DEF RemovalInv, RemovalTypes
<1>7. Generations'
  <2>1. \A v \in list \cup channel \cup doomed \cup removalRequest.todo \cup removalRequest.deleted :
          v[3] \in Nat /\ v[3] <= removalCounts.reuploads + 1
    <3>1. list \cup channel \cup doomed \cup removalRequest.todo \cup removalRequest.deleted \subseteq Videos
      BY <1>3 DEF RemovalInv, RemovalTypes, RemovalRequests
    <3>2. QED BY <3>1, OfVideos DEF RemovalInv, Generations
  <2>2. QED BY <1>2, <1>3, <1>4, <2>1 DEF Generations
<1>8. GoneStaysGone' /\ ListedOrKnown'
  BY <1>2, <1>5 DEF RemovalInv, GoneStaysGone, ListedOrKnown
<1>9. LinkedOrAsked'
  <2>1. SUFFICES ASSUME NEW v \in list' \cap channel', v[1] \notin untold \cup describes' \cup removalRequest.types
                 PROVE  v \in DOMAIN links /\ links[v] = Removal!Others(v)'
    BY <1>2 DEF LinkedOrAsked
  <2>2. v[1] # e[1] /\ v \in list \cap channel
    BY <1>2, <1>4, <2>1
  <2>3. Removal!Of(list', v[1]) = Removal!Of(list, v[1])
    BY <1>2, <1>4, <2>2 DEF Removal!Of
  <2>4. Removal!Others(v)' = Removal!Others(v)
    BY <2>3 DEF Removal!Others
  <2>5. QED BY <1>2, <2>1, <2>2, <2>4 DEF RemovalInv, LinkedOrAsked
<1>10. QED BY <1>6, <1>7, <1>8, <1>9 DEF RemovalInv

LEMMA DeleteReplacedInv == ASSUME RemovalInv, NEW e \in doomed, Removal!DeleteReplaced(e) PROVE RemovalInv'
<1>1. /\ channel' = channel \ {e} /\ UNCHANGED <<list, links, removalRequest, describes, cutShort, untold, doomed, removalCounts>>
  BY DEF Removal!DeleteReplaced
<1>2. RemovalTypes' /\ Generations'
  BY <1>1, RequestTypes DEF RemovalInv, RemovalTypes
<1>3. GoneStaysGone' /\ ListedOrKnown' /\ LinkedOrAsked'
  BY <1>1 DEF RemovalInv, GoneStaysGone, ListedOrKnown, LinkedOrAsked, Removal!Others
<1>4. QED BY <1>2, <1>3 DEF RemovalInv

LEMMA RunDescribeInv == ASSUME RemovalInv, NEW type \in describes, Removal!RunDescribe(type) PROVE RemovalInv'
<1> DEFINE told == Removal!Of(list, type) \cap channel
<1>1. /\ links' = [e \in DOMAIN links \cup told |-> IF e \in told THEN Removal!Others(e) ELSE links[e]]
      /\ describes' = describes \ {type} /\ untold' = untold \ {type}
      /\ UNCHANGED <<list, channel, removalRequest, cutShort, doomed, removalCounts>>
  BY DEF Removal!RunDescribe
<1>2. RemovalTypes' /\ Generations' /\ GoneStaysGone' /\ ListedOrKnown'
  BY <1>1 DEF RemovalInv, RemovalTypes, Generations, GoneStaysGone, ListedOrKnown
<1>3. LinkedOrAsked'
  <2>1. SUFFICES ASSUME NEW e \in list \cap channel, e[1] \notin untold' \cup describes' \cup removalRequest.types
                 PROVE  e \in DOMAIN links' /\ links'[e] = Removal!Others(e)
    BY <1>1 DEF LinkedOrAsked, Removal!Others
  <2>2. CASE e[1] = type
    <3>1. e \in told
      BY <2>1, <2>2 DEF Removal!Of
    <3> HIDE DEF told
    <3>2. QED BY <1>1, <3>1
  <2>3. CASE e[1] # type
    <3>1. e \notin told
      BY <2>3 DEF Removal!Of
    <3>2. e \in DOMAIN links /\ links[e] = Removal!Others(e)
      BY <1>1, <2>1, <2>3 DEF RemovalInv, LinkedOrAsked
    <3> HIDE DEF told
    <3>3. QED BY <1>1, <3>1, <3>2
  <2>4. QED BY <2>2, <2>3
<1>4. QED BY <1>2, <1>3 DEF RemovalInv

LEMMA RemovalNextInv == ASSUME RemovalInv, [Removal!Next]_(Removal!removalVars) PROVE RemovalInv'
<1>1. CASE UNCHANGED Removal!removalVars
  <2>1. RemovalTypes' /\ Generations' /\ GoneStaysGone' /\ ListedOrKnown'
    BY <1>1 DEF Removal!removalVars, RemovalInv, RemovalTypes, Generations, GoneStaysGone, ListedOrKnown
  <2>2. LinkedOrAsked'
    BY <1>1 DEF Removal!removalVars, RemovalInv, LinkedOrAsked, Removal!Others
  <2>3. QED BY <2>1, <2>2 DEF RemovalInv
<1>2. CASE Removal!Next
  BY <1>2, BeginInv, DropInv, DescribeInv, EndsEarlyInv, RemovalDeleteInv, DeleteFailsInv, ReuploadInv, DeleteReplacedInv,
     RunDescribeInv DEF Removal!Next
<1>3. QED BY <1>1, <1>2

LEMMA InvRemoval == ASSUME RemovalInv PROVE Removal!RemovalIsWhole
  BY IdleRemoval DEF RemovalInv, ListedOrKnown, LinkedOrAsked, Removal!RemovalIsWhole

\* Uploads deleted by hand (delete_uploads, admin.py), for any uploads, however many requests, re-archives
\* and faults: between them what is listed is on YouTube and links to the other listed parts, but for what a
\* request that failed left.
THEOREM RemovalsAreWhole == ASSUME Removal!RemovalAssumption PROVE Removal!Spec => []Removal!RemovalIsWhole
<1>1. Removal!Init => RemovalInv
  BY RemovalInitInv
<1>2. RemovalInv /\ [Removal!Next]_(Removal!removalVars) => RemovalInv'
  BY RemovalNextInv
<1>3. RemovalInv => Removal!RemovalIsWhole
  BY InvRemoval
<1>4. QED BY <1>1, <1>2, <1>3, PTL DEF Removal!Spec

------------------------------------------------------------------------------
(* StreamJobs.                                                              *)

Jobs == Monitor!Kinds \X Monitor!Streams \X {"monitor", "admin"}
Ticks ==
  [step : {"idle", "ended", "bot", "live", "record", "vod", "archive"}, seen : Monitor!Streams \cup {0}, ended : SUBSET Monitor!Streams,
   reading : Monitor!Streams \cup {0}]

StreamTypes ==
  /\ twitch \in [on : Monitor!Streams \cup {0}, last : Monitor!Streams \cup {0}, videos : SUBSET Monitor!Streams]
  /\ monitorRows \in [live : SUBSET Monitor!Streams, vods : SUBSET Monitor!Streams]
  /\ monitorRows.live = {} \/ \E s \in Monitor!Streams : monitorRows.live = {s}
  /\ queue \in [Jobs -> Nat] /\ active \in SUBSET Monitor!Streams
  /\ tick \in Ticks
  /\ live \in [Monitor!Streams -> {"none", "recording", "resolving", "done"}]
  /\ byHand \in [step : {"idle", "checked"}, stream : Monitor!Streams \cup {0}]
  /\ byHand.step = "checked" => byHand.stream \in Monitor!Streams

ByMonitor(kind, s) == queue[<<kind, s, "monitor">>]
AtMostOne == \A kind \in Monitor!Kinds, s \in Monitor!Streams : ByMonitor(kind, s) <= 1

\* A job that is about to be queued has not been.
NotQueuedYet ==
  /\ tick.step = "bot" => tick.reading \in Monitor!Streams /\ ByMonitor("bot_chat", tick.reading) = 0
  /\ tick.step = "record" => ByMonitor("live", tick.seen) = 0
  /\ tick.step = "archive" => ByMonitor("archive", tick.seen) = 0
  /\ tick.step \in {"live", "record", "vod", "archive"} => tick.seen \in Monitor!Streams /\ monitorRows.live = {tick.seen}

AskedFor(s) == Monitor!ExistsAny("bot_chat", s) \/ s \in absent

\* Of the streams marked live, those that the round has found ended and gone through were asked for.
RoundAsks ==
  tick.step \in {"ended", "bot"} =>
    \A s \in monitorRows.live \ (tick.ended \cup {tick.seen}) : AskedFor(s) \/ (tick.step = "bot" /\ s = tick.reading)

\* A stream that was recorded is marked live until then.
OfflineAsked == \A s \in Monitor!Streams : live[s] # "none" /\ s \notin monitorRows.live => AskedFor(s)

StreamInv == StreamTypes /\ AtMostOne /\ NotQueuedYet /\ RoundAsks /\ OfflineAsked

----------------------------------------------------------------------------

LEMMA IdleTick == Monitor!Idle \in Ticks /\ Monitor!Idle.step = "idle"
BY DEF Monitor!Idle, Ticks

LEMMA TickStep ==
  ASSUME tick \in Ticks, NEW step \in {"live", "record", "vod", "archive"}, Monitor!Step(step)
  PROVE  tick' \in Ticks /\ tick'.step = step /\ tick'.seen = tick.seen
BY ZenonT(30) DEF Monitor!Step, Ticks

LEMMA QueuedOne ==
  ASSUME queue \in [Jobs -> Nat], NEW kind \in Monitor!Kinds, NEW s \in Monitor!Streams, NEW who \in {"monitor", "admin"},
         Monitor!Queued(kind, s, who)
  PROVE  /\ queue' \in [Jobs -> Nat]
         /\ \A k \in Monitor!Kinds, t \in Monitor!Streams, w \in {"monitor", "admin"} :
              queue'[<<k, t, w>>] = IF k = kind /\ t = s /\ w = who THEN queue[<<k, t, w>>] + 1 ELSE queue[<<k, t, w>>]
         /\ \A k \in Monitor!Kinds, t \in Monitor!Streams : Monitor!ExistsAny(k, t) => Monitor!ExistsAny(k, t)'
         /\ who = "monitor" => Monitor!ExistsAny(kind, s)'
<1>1. <<kind, s, who>> \in Jobs /\ queue[<<kind, s, who>>] \in Nat
  BY DEF Jobs
<1>2. queue' \in [Jobs -> Nat]
  BY <1>1 DEF Monitor!Queued
<1>3. \A k \in Monitor!Kinds, t \in Monitor!Streams, w \in {"monitor", "admin"} :
        queue'[<<k, t, w>>] = IF k = kind /\ t = s /\ w = who THEN queue[<<k, t, w>>] + 1 ELSE queue[<<k, t, w>>]
  BY <1>1 DEF Monitor!Queued, Jobs
<1>4. ASSUME NEW k \in Monitor!Kinds, NEW t \in Monitor!Streams, Monitor!ExistsAny(k, t) PROVE Monitor!ExistsAny(k, t)'
  <2>1. PICK w \in {"monitor", "admin"} : queue[<<k, t, w>>] > 0
    BY <1>4 DEF Monitor!ExistsAny
  <2>2. <<k, t, w>> \in Jobs /\ queue[<<k, t, w>>] \in Nat
    BY DEF Jobs
  <2>3. queue'[<<k, t, w>>] = queue[<<k, t, w>>] \/ queue'[<<k, t, w>>] = queue[<<k, t, w>>] + 1
    BY <1>3
  <2>4. queue'[<<k, t, w>>] > 0
    BY <2>1, <2>2, <2>3
  <2>5. QED BY <2>4 DEF Monitor!ExistsAny
<1>5. ASSUME who = "monitor" PROVE Monitor!ExistsAny(kind, s)'
  <2>1. queue'[<<kind, s, who>>] = queue[<<kind, s, who>>] + 1
    BY <1>3
  <2>2. queue'[<<kind, s, who>>] > 0
    BY <1>1, <2>1
  <2>3. QED BY <2>2 DEF Monitor!ExistsAny
<1>6. QED BY <1>2, <1>3, <1>4, <1>5

\* What was queued or asked for stays so.
LEMMA NoneExists ==
  ASSUME queue \in [Jobs -> Nat], NEW kind \in Monitor!Kinds, NEW s \in Monitor!Streams, ~Monitor!ExistsAny(kind, s)
  PROVE  ByMonitor(kind, s) = 0
<1>1. <<kind, s, "monitor">> \in Jobs /\ queue[<<kind, s, "monitor">>] \in Nat
  BY DEF Jobs
<1>2. ~(queue[<<kind, s, "monitor">>] > 0)
  BY DEF Monitor!ExistsAny
<1>3. QED BY <1>1, <1>2 DEF ByMonitor

LEMMA Marked ==
  ASSUME monitorRows \in [live : SUBSET Monitor!Streams, vods : SUBSET Monitor!Streams], NEW s \in Monitor!Streams, Monitor!UpsertVod(s)
  PROVE  monitorRows' \in [live : SUBSET Monitor!Streams, vods : SUBSET Monitor!Streams] /\ monitorRows'.live = monitorRows.live
BY DEF Monitor!UpsertVod

----------------------------------------------------------------------------
(* Each step keeps the invariant.                                           *)

LEMMA MonitorInitInv == ASSUME Monitor!StreamsAssumption, Monitor!Init PROVE StreamInv
<1>1. /\ twitch \in [on : Monitor!Streams \cup {0}, last : Monitor!Streams \cup {0}, videos : SUBSET Monitor!Streams]
      /\ monitorRows \in [live : SUBSET Monitor!Streams, vods : SUBSET Monitor!Streams] /\ monitorRows.live = {}
      /\ queue \in [Jobs -> Nat] /\ active \in SUBSET Monitor!Streams /\ tick \in Ticks /\ tick.step = "idle"
      /\ live \in [Monitor!Streams -> {"none", "recording", "resolving", "done"}]
      /\ \A s \in Monitor!Streams : live[s] = "none"
      /\ byHand \in [step : {"idle", "checked"}, stream : Monitor!Streams \cup {0}] /\ byHand.step = "idle"
  BY IdleTick DEF Monitor!Init, Jobs, Monitor!NoRequest
<1>2. AtMostOne
  <2>1. \A kind \in Monitor!Kinds, s \in Monitor!Streams : <<kind, s, "monitor">> \in Jobs
    BY DEF Jobs
  <2>2. \A j \in Jobs : queue[j] = 0
    BY DEF Monitor!Init, Jobs
  <2>3. \A kind \in Monitor!Kinds, s \in Monitor!Streams : ByMonitor(kind, s) = 0
    BY <2>1, <2>2 DEF ByMonitor
  <2>4. QED BY <2>3 DEF AtMostOne
<1>3. StreamTypes
  BY <1>1 DEF StreamTypes
<1>4. NotQueuedYet /\ RoundAsks /\ OfflineAsked
  BY <1>1 DEF NotQueuedYet, RoundAsks, OfflineAsked
<1>5. QED BY <1>2, <1>3, <1>4 DEF StreamInv

\* Twitch, admins, and jobs that go on: no row is marked, no job is queued, and no recording begins.
LEMMA QuietStep ==
  ASSUME StreamInv, UNCHANGED <<queue, tick, absent>>, monitorRows'.live = monitorRows.live, StreamTypes',
         \A s \in Monitor!Streams : live'[s] # "none" => live[s] # "none"
  PROVE  StreamInv'
<1>1. AtMostOne' /\ NotQueuedYet'
  BY DEF StreamInv, AtMostOne, NotQueuedYet, ByMonitor
<1>2. RoundAsks' /\ OfflineAsked'
  BY DEF StreamInv, RoundAsks, OfflineAsked, AskedFor, Monitor!ExistsAny
<1>3. QED BY <1>1, <1>2 DEF StreamInv

LEMMA TwitchInv == ASSUME Monitor!StreamsAssumption, StreamInv, Monitor!GoesOn \/ Monitor!VideoAppears \/ Monitor!GoesOff PROVE StreamInv'
<1>1. UNCHANGED <<monitorRows, queue, active, tick, live, byHand, absent>>
  BY DEF Monitor!GoesOn, Monitor!VideoAppears, Monitor!GoesOff
<1>2. twitch \in [on : Monitor!Streams \cup {0}, last : Monitor!Streams \cup {0}, videos : SUBSET Monitor!Streams]
  BY DEF StreamInv, StreamTypes
<1>3. twitch' \in [on : Monitor!Streams \cup {0}, last : Monitor!Streams \cup {0}, videos : SUBSET Monitor!Streams]
  <2>1. CASE Monitor!GoesOn
    <3>1. twitch.last + 1 \in Monitor!Streams
      BY <1>2, <2>1 DEF Monitor!GoesOn, Monitor!Streams, Monitor!StreamsAssumption
    <3>2. twitch' = [[twitch EXCEPT !.on = twitch.last + 1] EXCEPT !.last = twitch.last + 1]
      BY <1>2, <2>1, ZenonT(30) DEF Monitor!GoesOn
    <3>3. QED BY <1>2, <3>1, <3>2, ZenonT(30)
  <2>2. CASE Monitor!VideoAppears
    <3>1. twitch.on \in Monitor!Streams /\ twitch' = [twitch EXCEPT !.videos = @ \cup {twitch.on}]
      BY <1>2, <2>2 DEF Monitor!VideoAppears
    <3>2. QED BY <1>2, <3>1
  <2>3. CASE Monitor!GoesOff
    BY <1>2, <2>3 DEF Monitor!GoesOff
  <2>4. QED BY <2>1, <2>2, <2>3
<1>4. StreamTypes'
  BY <1>1, <1>3 DEF StreamInv, StreamTypes
<1>5. QED BY <1>1, <1>4, QuietStep

LEMMA JobsInv ==
  ASSUME StreamInv, NEW s \in Monitor!Streams, Monitor!Recorded(s) \/ Monitor!ResolveVod(s) \/ Monitor!ArchiveEnds(s) \/ Monitor!AskToArchive(s)
  PROVE  StreamInv'
<1>1. UNCHANGED <<twitch, queue, tick, absent>>
  BY DEF Monitor!Recorded, Monitor!ResolveVod, Monitor!ArchiveEnds, Monitor!AskToArchive
<1>2. monitorRows' \in [live : SUBSET Monitor!Streams, vods : SUBSET Monitor!Streams] /\ monitorRows'.live = monitorRows.live
  BY Marked DEF Monitor!Recorded, Monitor!ResolveVod, Monitor!ArchiveEnds, Monitor!AskToArchive, StreamInv, StreamTypes
<1>3. /\ live' \in [Monitor!Streams -> {"none", "recording", "resolving", "done"}]
      /\ \A t \in Monitor!Streams : live'[t] # "none" => live[t] # "none"
  BY DEF Monitor!Recorded, Monitor!ResolveVod, Monitor!ArchiveEnds, Monitor!AskToArchive, StreamInv, StreamTypes
<1>4. /\ active' \in SUBSET Monitor!Streams
      /\ byHand' \in [step : {"idle", "checked"}, stream : Monitor!Streams \cup {0}]
      /\ byHand'.step = "checked" => byHand'.stream \in Monitor!Streams
  BY DEF Monitor!Recorded, Monitor!ResolveVod, Monitor!ArchiveEnds, Monitor!AskToArchive, StreamInv, StreamTypes
<1>5. StreamTypes'
  BY <1>1, <1>2, <1>3, <1>4 DEF StreamInv, StreamTypes
<1>6. QED BY <1>1, <1>2, <1>3, <1>5, QuietStep

LEMMA ToggleInv == ASSUME StreamInv, NEW setting \in DOMAIN settings, Monitor!Toggle(setting) PROVE StreamInv'
<1>1. UNCHANGED <<twitch, monitorRows, queue, active, tick, live, byHand, absent>>
  BY DEF Monitor!Toggle
<1>2. StreamTypes'
  BY <1>1 DEF StreamInv, StreamTypes
<1>3. QED BY <1>1, <1>2, QuietStep

\* A step of the round that changes neither rows nor jobs nor recordings.
LEMMA RoundStep ==
  ASSUME StreamInv, UNCHANGED <<twitch, queue, live, active, byHand, absent>>,
         monitorRows' \in [live : SUBSET Monitor!Streams, vods : SUBSET Monitor!Streams], monitorRows'.live = monitorRows.live, tick' \in Ticks,
         NotQueuedYet', RoundAsks'
  PROVE  StreamInv'
<1>1. AtMostOne'
  BY DEF StreamInv, AtMostOne, ByMonitor
<1>2. OfflineAsked'
  BY DEF StreamInv, OfflineAsked, AskedFor, Monitor!ExistsAny
<1>3. StreamTypes'
  BY DEF StreamInv, StreamTypes
<1>4. QED BY <1>1, <1>2, <1>3 DEF StreamInv

LEMMA LookInv == ASSUME StreamInv, Monitor!Look PROVE StreamInv'
<1>1. PICK seen \in {twitch.on, 0, twitch.last} :
        tick' = [Monitor!Idle EXCEPT !.step = "ended", !.seen = seen, !.ended = monitorRows.live \ {seen}]
  BY DEF Monitor!Look
<1>2. UNCHANGED <<twitch, monitorRows, queue, active, live, byHand, settings, absent>>
  BY DEF Monitor!Look
<1>3. seen \in Monitor!Streams \cup {0} /\ monitorRows \in [live : SUBSET Monitor!Streams, vods : SUBSET Monitor!Streams]
  BY DEF StreamInv, StreamTypes
<1>4. PICK ended \in SUBSET Monitor!Streams : ended = monitorRows.live \ {seen}
  BY <1>3
<1>5. tick' = [step |-> "ended", seen |-> seen, ended |-> ended, reading |-> 0]
  BY <1>1, <1>4 DEF Monitor!Idle
<1>6. tick' \in Ticks /\ tick'.step = "ended" /\ tick'.seen = seen /\ tick'.ended = ended
  BY <1>3, <1>4, <1>5 DEF Ticks
<1>7. RoundAsks'
  BY <1>2, <1>4, <1>6 DEF RoundAsks
<1>8. NotQueuedYet'
  BY <1>6 DEF NotQueuedYet
<1>9. QED BY <1>2, <1>3, <1>6, <1>7, <1>8, RoundStep

LEMMA EndedInv == ASSUME StreamInv, Monitor!StreamEnded PROVE StreamInv'
<1> DEFINE found(s) == ~Monitor!ExistsAny("bot_chat", s) /\ s \in twitch.videos
<1>1. PICK stream \in tick.ended :
        /\ tick' = [tick EXCEPT !.ended = @ \ {stream}, !.step = IF found(stream) THEN "bot" ELSE "ended",
                                !.reading = IF found(stream) THEN stream ELSE 0]
        /\ IF found(stream) THEN Monitor!UpsertVod(stream) ELSE UNCHANGED monitorRows
        /\ absent' = IF stream \notin twitch.videos THEN absent \cup {stream} ELSE absent
        /\ tick.step = "ended" /\ UNCHANGED <<twitch, queue, active, live, byHand, settings, oddities>>
  BY DEF Monitor!StreamEnded
<1>2. tick \in Ticks /\ tick.ended \in SUBSET Monitor!Streams /\ stream \in Monitor!Streams
  BY DEF StreamInv, StreamTypes, Ticks
<1>3. PICK ended \in SUBSET Monitor!Streams : ended = tick.ended \ {stream}
  BY <1>2
<1>4. PICK step \in {"bot", "ended"} : step = (IF found(stream) THEN "bot" ELSE "ended")
  OBVIOUS
<1>5. PICK reading \in Monitor!Streams \cup {0} : reading = (IF found(stream) THEN stream ELSE 0)
  BY <1>2
<1>6. tick' = [tick EXCEPT !.ended = ended, !.step = step, !.reading = reading]
  BY <1>1, <1>3, <1>4, <1>5
<1>7. tick' = [step |-> step, seen |-> tick.seen, ended |-> ended, reading |-> reading]
  BY <1>2, <1>6, ZenonT(30) DEF Ticks
<1>8. /\ tick' \in Ticks /\ tick'.step = step /\ tick'.seen = tick.seen /\ tick'.ended = ended
      /\ tick'.reading = reading
  BY <1>2, <1>7 DEF Ticks
<1>9. monitorRows' \in [live : SUBSET Monitor!Streams, vods : SUBSET Monitor!Streams] /\ monitorRows'.live = monitorRows.live
  BY <1>1, <1>2, Marked DEF StreamInv, StreamTypes
<1>10. \A s \in Monitor!Streams : AskedFor(s) => AskedFor(s)'
  BY <1>1 DEF AskedFor, Monitor!ExistsAny
<1>11. step = "ended" => AskedFor(stream)'
  BY <1>1, <1>4 DEF AskedFor, Monitor!ExistsAny
<1>12. step = "bot" => reading = stream
  BY <1>4, <1>5
<1>13. RoundAsks'
  <2>1. SUFFICES ASSUME NEW s \in monitorRows.live, s \notin ended, s # tick.seen
                 PROVE  AskedFor(s)' \/ (step = "bot" /\ s = reading)
    BY <1>8, <1>9 DEF RoundAsks
  <2>2. CASE s = stream
    BY <1>11, <1>12, <2>2
  <2>3. CASE s # stream
    <3>1. AskedFor(s)
      BY <1>1, <1>3, <2>1, <2>3 DEF StreamInv, RoundAsks
    <3>2. s \in Monitor!Streams
      BY DEF StreamInv, StreamTypes
    <3>3. QED BY <1>10, <3>1, <3>2
  <2>4. QED BY <2>2, <2>3
<1>14. NotQueuedYet'
  <2>1. step = "bot" => ByMonitor("bot_chat", reading) = 0 /\ reading \in Monitor!Streams
    BY <1>2, <1>4, <1>12, NoneExists DEF StreamInv, StreamTypes, Monitor!Kinds
  <2>2. ByMonitor("bot_chat", reading)' = ByMonitor("bot_chat", reading)
    BY <1>1 DEF ByMonitor
  <2>3. QED BY <1>1, <1>8, <2>1, <2>2 DEF NotQueuedYet, ByMonitor
<1>15. OfflineAsked'
  BY <1>1, <1>9, <1>10 DEF StreamInv, OfflineAsked
<1>16. AtMostOne'
  BY <1>1 DEF StreamInv, AtMostOne, ByMonitor
<1>17. StreamTypes'
  BY <1>1, <1>8, <1>9 DEF StreamInv, StreamTypes
<1>18. QED BY <1>13, <1>14, <1>15, <1>16, <1>17 DEF StreamInv

\* What queueing a job does to the invariant: one more of its kind, and whatever was asked for still is.
LEMMA QueueInv ==
  ASSUME StreamInv, NEW kind \in Monitor!Kinds, NEW s \in Monitor!Streams, NEW who \in {"monitor", "admin"}, Monitor!Queued(kind, s, who),
         who = "monitor" => ByMonitor(kind, s) = 0, absent' = absent
  PROVE  /\ queue' \in [Jobs -> Nat] /\ AtMostOne'
         /\ \A t \in Monitor!Streams : AskedFor(t) => AskedFor(t)'
         /\ who = "monitor" /\ kind = "bot_chat" => AskedFor(s)'
         /\ \A k \in Monitor!Kinds, t \in Monitor!Streams : (who # "monitor" \/ k # kind) => ByMonitor(k, t)' = ByMonitor(k, t)
<1>1. queue \in [Jobs -> Nat]
  BY DEF StreamInv, StreamTypes
<1>2. /\ queue' \in [Jobs -> Nat]
      /\ \A k \in Monitor!Kinds, t \in Monitor!Streams, w \in {"monitor", "admin"} :
           queue'[<<k, t, w>>] = IF k = kind /\ t = s /\ w = who THEN queue[<<k, t, w>>] + 1 ELSE queue[<<k, t, w>>]
      /\ \A k \in Monitor!Kinds, t \in Monitor!Streams : Monitor!ExistsAny(k, t) => Monitor!ExistsAny(k, t)'
      /\ who = "monitor" => Monitor!ExistsAny(kind, s)'
  BY <1>1, QueuedOne
<1>3. \A k \in Monitor!Kinds, t \in Monitor!Streams :
        queue'[<<k, t, "monitor">>] =
          IF k = kind /\ t = s /\ who = "monitor" THEN queue[<<k, t, "monitor">>] + 1 ELSE queue[<<k, t, "monitor">>]
  BY <1>2
<1>4. \A t \in Monitor!Streams : AskedFor(t) => AskedFor(t)'
  BY <1>2 DEF AskedFor, Monitor!Kinds
<1>5. AtMostOne'
  <2>1. SUFFICES ASSUME NEW k \in Monitor!Kinds, NEW t \in Monitor!Streams PROVE queue'[<<k, t, "monitor">>] <= 1
    BY DEF AtMostOne, ByMonitor
  <2>2. CASE k = kind /\ t = s /\ who = "monitor"
    <3>1. queue'[<<k, t, "monitor">>] = queue[<<k, t, "monitor">>] + 1
      BY <1>3, <2>2
    <3>2. queue[<<k, t, "monitor">>] = 0
      BY <2>2 DEF ByMonitor
    <3>3. QED BY <3>1, <3>2
  <2>3. CASE ~(k = kind /\ t = s /\ who = "monitor")
    <3>1. queue'[<<k, t, "monitor">>] = queue[<<k, t, "monitor">>]
      BY <1>3, <2>3
    <3>2. QED BY <3>1 DEF StreamInv, AtMostOne, ByMonitor
  <2>4. QED BY <2>2, <2>3
<1>6. \A k \in Monitor!Kinds, t \in Monitor!Streams : (who # "monitor" \/ k # kind) => ByMonitor(k, t)' = ByMonitor(k, t)
  BY <1>3 DEF ByMonitor
<1>7. QED BY <1>2, <1>4, <1>5, <1>6 DEF AskedFor

LEMMA EnqueueBotChatInv == ASSUME StreamInv, Monitor!EnqueueBotChat PROVE StreamInv'
<1>1. /\ tick.step = "bot" /\ Monitor!Queued("bot_chat", tick.reading, "monitor")
      /\ tick' = [tick EXCEPT !.step = "ended", !.reading = 0]
      /\ UNCHANGED <<twitch, monitorRows, active, live, byHand, absent>>
  BY DEF Monitor!EnqueueBotChat
<1>2. PICK read \in Monitor!Streams : read = tick.reading
  BY <1>1 DEF StreamInv, NotQueuedYet
<1>3. /\ queue' \in [Jobs -> Nat] /\ AtMostOne'
      /\ \A t \in Monitor!Streams : AskedFor(t) => AskedFor(t)'
      /\ AskedFor(read)'
  <2>1. "bot_chat" \in Monitor!Kinds /\ Monitor!Queued("bot_chat", read, "monitor") /\ ByMonitor("bot_chat", read) = 0 /\ absent' = absent
    BY <1>1, <1>2 DEF Monitor!Kinds, StreamInv, NotQueuedYet
  <2>2. QED BY <2>1, QueueInv
<1>4. tick \in Ticks
  BY DEF StreamInv, StreamTypes
<1>5. tick' = [step |-> "ended", seen |-> tick.seen, ended |-> tick.ended, reading |-> 0]
  BY <1>1, <1>4, ZenonT(30) DEF Ticks
<1>6. tick' \in Ticks /\ tick'.step = "ended" /\ tick'.seen = tick.seen /\ tick'.ended = tick.ended
  BY <1>4, <1>5 DEF Ticks
<1>7. NotQueuedYet'
  BY <1>6 DEF NotQueuedYet
<1>8. RoundAsks'
  <2>1. SUFFICES ASSUME NEW s \in monitorRows.live \ (tick.ended \cup {tick.seen}) PROVE AskedFor(s)'
    BY <1>1, <1>6 DEF RoundAsks
  <2>2. AskedFor(s) \/ s = read
    BY <1>1, <1>2 DEF StreamInv, RoundAsks
  <2>3. s \in Monitor!Streams
    BY DEF StreamInv, StreamTypes
  <2>4. QED BY <1>3, <2>2, <2>3
<1>9. OfflineAsked'
  BY <1>1, <1>3 DEF StreamInv, OfflineAsked
<1>10. StreamTypes'
  BY <1>1, <1>3, <1>6 DEF StreamInv, StreamTypes
<1>11. QED BY <1>3, <1>7, <1>8, <1>9, <1>10 DEF StreamInv

LEMMA SetLiveInv == ASSUME StreamInv, Monitor!SetLive PROVE StreamInv'
<1>1. /\ tick.step = "ended" /\ tick.ended = {}
      /\ monitorRows' = [monitorRows EXCEPT !.live = IF tick.seen = 0 THEN {} ELSE {tick.seen}]
      /\ IF tick.seen = 0 THEN tick' = Monitor!Idle ELSE Monitor!Step("live")
      /\ UNCHANGED <<twitch, queue, active, live, byHand, absent>>
  BY DEF Monitor!SetLive
<1>2. tick \in Ticks /\ tick.seen \in Monitor!Streams \cup {0} /\ monitorRows \in [live : SUBSET Monitor!Streams, vods : SUBSET Monitor!Streams]
  BY DEF StreamInv, StreamTypes, Ticks
<1>3. PICK marked \in SUBSET Monitor!Streams : marked = IF tick.seen = 0 THEN {} ELSE {tick.seen}
  BY <1>2
<1>4. monitorRows' \in [live : SUBSET Monitor!Streams, vods : SUBSET Monitor!Streams] /\ monitorRows'.live = marked
  BY <1>1, <1>2, <1>3
<1>5. tick' \in Ticks /\ tick'.step \in {"idle", "live"} /\ (tick'.step = "live" => tick.seen # 0 /\ tick'.seen = tick.seen)
  BY <1>1, <1>2, IdleTick, TickStep
<1>6. marked = {} \/ \E s \in Monitor!Streams : marked = {s}
  BY <1>2, <1>3
<1>7. StreamTypes'
  BY <1>1, <1>4, <1>5, <1>6 DEF StreamInv, StreamTypes
<1>8. NotQueuedYet'
  BY <1>2, <1>3, <1>4, <1>5 DEF NotQueuedYet
<1>9. RoundAsks'
  BY <1>5 DEF RoundAsks
<1>10. OfflineAsked'
  <2>1. SUFFICES ASSUME NEW s \in Monitor!Streams, live[s] # "none", s \notin marked PROVE AskedFor(s)
    BY <1>1, <1>4 DEF OfflineAsked, AskedFor, Monitor!ExistsAny
  <2>2. s # tick.seen
    BY <1>3, <2>1 DEF Monitor!Streams
  <2>3. CASE s \notin monitorRows.live
    BY <2>1, <2>3 DEF StreamInv, OfflineAsked
  <2>4. CASE s \in monitorRows.live
    BY <1>1, <2>2, <2>4 DEF StreamInv, RoundAsks
  <2>5. QED BY <2>3, <2>4
<1>11. AtMostOne'
  BY <1>1 DEF StreamInv, AtMostOne, ByMonitor
<1>12. QED BY <1>7, <1>8, <1>9, <1>10, <1>11 DEF StreamInv

LEMMA CheckLiveInv == ASSUME StreamInv, Monitor!CheckLive PROVE StreamInv'
<1>1. PICK step \in {"record", "vod"} :
        Monitor!Step(step) /\ (step = "record" => ~Monitor!ExistsAny("live", tick.seen))
  BY DEF Monitor!CheckLive
<1>2. tick.step = "live" /\ UNCHANGED <<twitch, monitorRows, queue, active, live, byHand, absent>>
  BY DEF Monitor!CheckLive
<1>3. tick' \in Ticks /\ tick'.step = step /\ tick'.seen = tick.seen
  BY <1>1, TickStep DEF StreamInv, StreamTypes
<1>4. tick.seen \in Monitor!Streams /\ monitorRows.live = {tick.seen} /\ queue \in [Jobs -> Nat]
  BY <1>2 DEF StreamInv, StreamTypes, NotQueuedYet
<1>5. step = "record" => ByMonitor("live", tick.seen) = 0
  BY <1>1, <1>4, NoneExists DEF Monitor!Kinds
<1>6. NotQueuedYet'
  BY <1>2, <1>3, <1>4, <1>5 DEF NotQueuedYet, ByMonitor
<1>7. RoundAsks'
  BY <1>3 DEF RoundAsks
<1>8. QED BY <1>2, <1>3, <1>6, <1>7, RoundStep DEF StreamInv, StreamTypes

LEMMA EnqueueLiveInv == ASSUME StreamInv, Monitor!EnqueueLive PROVE StreamInv'
<1>1. /\ tick.step = "record" /\ Monitor!Queued("live", tick.seen, "monitor") /\ Monitor!Step("vod")
      /\ live' = [live EXCEPT ![tick.seen] = "recording"]
      /\ UNCHANGED <<twitch, monitorRows, active, byHand, absent>>
  BY DEF Monitor!EnqueueLive
<1>2. PICK seen \in Monitor!Streams : seen = tick.seen
  BY <1>1 DEF StreamInv, NotQueuedYet
<1>3. /\ queue' \in [Jobs -> Nat] /\ AtMostOne'
      /\ \A t \in Monitor!Streams : AskedFor(t) => AskedFor(t)'
  <2>1. "live" \in Monitor!Kinds /\ Monitor!Queued("live", seen, "monitor") /\ ByMonitor("live", seen) = 0 /\ absent' = absent
    BY <1>1, <1>2 DEF Monitor!Kinds, StreamInv, NotQueuedYet
  <2>2. QED BY <2>1, QueueInv
<1>4. tick' \in Ticks /\ tick'.step = "vod" /\ tick'.seen = tick.seen
  BY <1>1, TickStep DEF StreamInv, StreamTypes
<1>5. monitorRows.live = {seen}
  BY <1>1, <1>2 DEF StreamInv, NotQueuedYet
<1>6. NotQueuedYet' /\ RoundAsks'
  BY <1>1, <1>2, <1>4, <1>5 DEF NotQueuedYet, RoundAsks
<1>7. /\ live' \in [Monitor!Streams -> {"none", "recording", "resolving", "done"}]
      /\ \A s \in Monitor!Streams : s # seen => live'[s] = live[s]
  BY <1>1, <1>2 DEF StreamInv, StreamTypes
<1>8. OfflineAsked'
  <2>1. SUFFICES ASSUME NEW s \in Monitor!Streams, live'[s] # "none", s \notin monitorRows.live PROVE AskedFor(s)'
    BY <1>1 DEF OfflineAsked
  <2>2. live[s] # "none"
    BY <1>5, <1>7, <2>1
  <2>3. QED BY <1>3, <2>1, <2>2 DEF StreamInv, OfflineAsked
<1>9. StreamTypes'
  BY <1>1, <1>3, <1>4, <1>7 DEF StreamInv, StreamTypes
<1>10. QED BY <1>3, <1>6, <1>8, <1>9 DEF StreamInv

LEMMA CheckArchiveInv == ASSUME StreamInv, Monitor!CheckArchive PROVE StreamInv'
<1>1. tick.step = "vod" /\ UNCHANGED <<twitch, queue, active, live, byHand, absent>>
  BY DEF Monitor!CheckArchive
<1>2. (tick' = Monitor!Idle /\ UNCHANGED monitorRows) \/ (Monitor!UpsertVod(tick.seen) /\ (tick' = Monitor!Idle \/ (Monitor!Step("archive") /\ ~Monitor!Archived(tick.seen))))
  BY DEF Monitor!CheckArchive
<1>3. PICK seen \in Monitor!Streams : seen = tick.seen /\ monitorRows.live = {seen}
  BY <1>1 DEF StreamInv, NotQueuedYet
<1>4. monitorRows' \in [live : SUBSET Monitor!Streams, vods : SUBSET Monitor!Streams] /\ monitorRows'.live = monitorRows.live
  BY <1>2, <1>3, Marked DEF StreamInv, StreamTypes
<1>5. tick' \in Ticks /\ (tick'.step = "idle" \/ (tick'.step = "archive" /\ tick'.seen = seen /\ ~Monitor!Archived(seen)))
  BY <1>2, <1>3, IdleTick, TickStep DEF StreamInv, StreamTypes
<1>6. ~Monitor!Archived(seen) => ByMonitor("archive", seen) = 0
  BY NoneExists DEF Monitor!Archived, Monitor!Kinds, StreamInv, StreamTypes
<1>7. NotQueuedYet'
  <2>1. ByMonitor("archive", seen)' = ByMonitor("archive", seen)
    BY <1>1 DEF ByMonitor
  <2>2. QED BY <1>3, <1>4, <1>5, <1>6, <2>1 DEF NotQueuedYet, ByMonitor
<1>8. RoundAsks'
  BY <1>5 DEF RoundAsks
<1>9. QED BY <1>1, <1>4, <1>5, <1>7, <1>8, RoundStep

LEMMA EnqueueArchiveInv == ASSUME StreamInv, Monitor!EnqueueArchive PROVE StreamInv'
<1>1. /\ tick.step = "archive" /\ Monitor!Queued("archive", tick.seen, "monitor") /\ tick' = Monitor!Idle
      /\ active' = active \cup {tick.seen} /\ UNCHANGED <<twitch, monitorRows, live, byHand, absent>>
  BY DEF Monitor!EnqueueArchive
<1>2. PICK seen \in Monitor!Streams : seen = tick.seen
  BY <1>1 DEF StreamInv, NotQueuedYet
<1>3. /\ queue' \in [Jobs -> Nat] /\ AtMostOne'
      /\ \A t \in Monitor!Streams : AskedFor(t) => AskedFor(t)'
  <2>1. "archive" \in Monitor!Kinds /\ Monitor!Queued("archive", seen, "monitor") /\ ByMonitor("archive", seen) = 0 /\ absent' = absent
    BY <1>1, <1>2 DEF Monitor!Kinds, StreamInv, NotQueuedYet
  <2>2. QED BY <2>1, QueueInv
<1>4. NotQueuedYet' /\ RoundAsks'
  BY <1>1, IdleTick DEF NotQueuedYet, RoundAsks
<1>5. OfflineAsked'
  BY <1>1, <1>3 DEF StreamInv, OfflineAsked
<1>6. StreamTypes'
  BY <1>1, <1>2, <1>3, IdleTick DEF StreamInv, StreamTypes
<1>7. QED BY <1>3, <1>4, <1>5, <1>6 DEF StreamInv

LEMMA TickFailsInv == ASSUME StreamInv, Monitor!TickFails PROVE StreamInv'
<1>1. tick' = Monitor!Idle /\ UNCHANGED <<twitch, monitorRows, queue, active, live, byHand, absent>>
  BY DEF Monitor!TickFails, Monitor!GivenUp
<1>2. NotQueuedYet' /\ RoundAsks'
  BY <1>1, IdleTick DEF NotQueuedYet, RoundAsks
<1>3. monitorRows' \in [live : SUBSET Monitor!Streams, vods : SUBSET Monitor!Streams] /\ monitorRows'.live = monitorRows.live /\ tick' \in Ticks
  BY <1>1, IdleTick DEF StreamInv, StreamTypes
<1>4. QED BY <1>1, <1>2, <1>3, RoundStep

LEMMA ByHandInv == ASSUME StreamInv, Monitor!EnqueueByHand PROVE StreamInv'
<1>1. /\ Monitor!Queued("archive", byHand.stream, "admin") /\ byHand' = Monitor!NoRequest
      /\ active' = active \cup {byHand.stream} /\ UNCHANGED <<twitch, monitorRows, tick, live, absent>>
  BY DEF Monitor!EnqueueByHand
<1>2. PICK stream \in Monitor!Streams : stream = byHand.stream
  BY DEF Monitor!EnqueueByHand, StreamInv, StreamTypes
<1>3. /\ queue' \in [Jobs -> Nat] /\ AtMostOne'
      /\ \A t \in Monitor!Streams : AskedFor(t) => AskedFor(t)'
      /\ \A k \in Monitor!Kinds, t \in Monitor!Streams : ByMonitor(k, t)' = ByMonitor(k, t)
  <2>1. "archive" \in Monitor!Kinds /\ Monitor!Queued("archive", stream, "admin") /\ absent' = absent
    BY <1>1, <1>2 DEF Monitor!Kinds
  <2>2. QED BY <2>1, QueueInv
<1>4. NotQueuedYet'
  <2>1. \A k \in Monitor!Kinds, t \in Monitor!Streams : queue'[<<k, t, "monitor">>] = queue[<<k, t, "monitor">>]
    BY <1>3 DEF ByMonitor
  <2>2. tick' = tick /\ monitorRows' = monitorRows /\ "live" \in Monitor!Kinds /\ "archive" \in Monitor!Kinds /\ "bot_chat" \in Monitor!Kinds
    BY <1>1 DEF Monitor!Kinds
  <2>3. NotQueuedYet
    BY DEF StreamInv
  <2>4. QED BY <2>1, <2>2, <2>3 DEF NotQueuedYet, ByMonitor
<1>5. RoundAsks'
  <2>1. \A s \in monitorRows.live : s \in Monitor!Streams
    BY DEF StreamInv, StreamTypes
  <2>2. QED BY <1>1, <1>3, <2>1 DEF StreamInv, RoundAsks
<1>6. OfflineAsked'
  BY <1>1, <1>3 DEF StreamInv, OfflineAsked
<1>7. StreamTypes'
  BY <1>1, <1>2, <1>3 DEF StreamInv, StreamTypes, Monitor!NoRequest
<1>8. QED BY <1>3, <1>4, <1>5, <1>6, <1>7 DEF StreamInv

LEMMA MonitorNextInv == ASSUME Monitor!StreamsAssumption, StreamInv, Monitor!Next PROVE StreamInv'
<1>1. CASE Monitor!GoesOn \/ Monitor!VideoAppears \/ Monitor!GoesOff
  BY <1>1, TwitchInv
<1>2. CASE Monitor!Look \/ Monitor!StreamEnded \/ Monitor!EnqueueBotChat \/ Monitor!SetLive
  BY <1>2, LookInv, EndedInv, EnqueueBotChatInv, SetLiveInv
<1>3. CASE Monitor!CheckLive \/ Monitor!EnqueueLive \/ Monitor!CheckArchive \/ Monitor!EnqueueArchive \/ Monitor!TickFails
  BY <1>3, CheckLiveInv, EnqueueLiveInv, CheckArchiveInv, EnqueueArchiveInv, TickFailsInv
<1>4. CASE \E s \in Monitor!Streams : Monitor!Recorded(s) \/ Monitor!ResolveVod(s) \/ Monitor!ArchiveEnds(s) \/ Monitor!AskToArchive(s)
  BY <1>4, JobsInv
<1>5. CASE Monitor!EnqueueByHand
  BY <1>5, ByHandInv
<1>6. CASE \E setting \in DOMAIN settings : Monitor!Toggle(setting)
  BY <1>6, ToggleInv
<1>7. QED BY <1>1, <1>2, <1>3, <1>4, <1>5, <1>6 DEF Monitor!Next

LEMMA InvStreams == ASSUME StreamInv PROVE Monitor!TypeOK /\ Monitor!StreamsHaveTheirJobs
<1>1. Monitor!TypeOK
  <2>1. monitorRows.live = {} \/ \E s \in Monitor!Streams : monitorRows.live = {s}
    BY DEF StreamInv, StreamTypes
  <2>2. Cardinality(monitorRows.live) <= 1
    <3>1. CASE monitorRows.live = {}
      <4>1. Cardinality({}) = 0
        BY FS_EmptySet
      <4>2. QED BY <3>1, <4>1
    <3>2. ASSUME NEW s \in Monitor!Streams, monitorRows.live = {s} PROVE Cardinality(monitorRows.live) <= 1
      <4>1. Cardinality({s}) = 1
        BY FS_Singleton
      <4>2. QED BY <3>2, <4>1
    <3>3. QED BY <2>1, <3>1, <3>2
  <2>3. Monitor!Cardinality(monitorRows.live) = Cardinality(monitorRows.live)
    BY DEF Monitor!Cardinality, Cardinality, Monitor!IsFiniteSet, IsFiniteSet
  <2>4. QED BY <2>2, <2>3 DEF StreamInv, StreamTypes, Monitor!TypeOK, Jobs
<1>2. Monitor!StreamsHaveTheirJobs
  BY DEF StreamInv, AtMostOne, OfflineAsked, AskedFor, ByMonitor, Monitor!StreamsHaveTheirJobs
<1>3. QED BY <1>1, <1>2

LEMMA MonitorStepInv == ASSUME Monitor!StreamsAssumption, StreamInv, [Monitor!Next]_(Monitor!streamVars) PROVE StreamInv'
<1>1. ASSUME StreamInv, UNCHANGED Monitor!streamVars PROVE StreamInv'
  <2>1. UNCHANGED <<twitch, monitorRows, queue, active, tick, live, byHand, absent>>
    BY <1>1 DEF Monitor!streamVars
  <2>2. StreamTypes'
    BY <1>1, <2>1 DEF StreamInv, StreamTypes
  <2>3. QED BY <1>1, <2>1, <2>2, QuietStep
<1>2. QED BY <1>1, MonitorNextInv

\* However the rounds of the monitor, its failures, Twitch's late answers, the jobs and the admins
\* follow one another, a stream gets one job of each kind from the monitor, and its chat is asked for
\* before it is marked offline (monitor.py).
THEOREM StreamsGetTheirJobs == ASSUME Monitor!StreamsAssumption PROVE Monitor!Spec => [](Monitor!TypeOK /\ Monitor!StreamsHaveTheirJobs)
<1>1. StreamInv /\ [Monitor!Next]_(Monitor!streamVars) => StreamInv'
  BY MonitorStepInv
<1>2. Monitor!Init => StreamInv
  BY MonitorInitInv
<1>3. StreamInv => Monitor!TypeOK /\ Monitor!StreamsHaveTheirJobs
  BY InvStreams
<1>4. QED BY <1>1, <1>2, <1>3, PTL DEF Monitor!Spec

------------------------------------------------------------------------------
(* BotChat.                                                                 *)

Entries == [id : DOMAIN Messages, gone : BOOLEAN]
Acts == {[type |-> what.type, at |-> t, target |-> what.target] : what \in Moderation, t \in 0..MaxTime}
ReadRecords ==
  [step : {"idle", "read", "store"}, vod : Bot!Vods \cup {""}, keyed : BOOLEAN, open : BOOLEAN, late : BOOLEAN,
   until : Int, at : Int, got : SUBSET Entries, acts : SUBSET Acts]

BotTypes ==
  /\ now \in 0..MaxTime /\ actions \subseteq Acts /\ flagged \subseteq DOMAIN Messages
  /\ DOMAIN botRows \subseteq DOMAIN Messages /\ \A m \in DOMAIN botRows : botRows[m] \in [vod : Bot!Vods, gone : BOOLEAN]
  /\ reads \in [Bot!Locks -> ReadRecords]
  /\ vods \in [Bot!Vods -> [info : BOOLEAN, asked : BOOLEAN, whole : BOOLEAN]]
  /\ seenGone \subseteq DOMAIN Messages /\ strayed \in BOOLEAN

GoneStay == \A m \in seenGone : m \in DOMAIN botRows /\ botRows[m].gone

\* A row is of the stream it was said in, unless a read ran on into another.
RowsInPlace == strayed \/ \A m \in DOMAIN botRows : m \in Bot!MessagesOf(botRows[m].vod)

WholeStored == \A v \in Bot!Vods : vods[v].whole => Bot!MessagesOf(v) \subseteq DOMAIN botRows

\* A read with a key, of a stream that had ended and whose length is known, has what was said up to where
\* it is, and is at the end when it stores.
Covers(r, time) ==
  r.step # "idle" =>
    /\ r.vod \in Bot!Vods
    /\ r.keyed /\ r.late /\ ~r.open =>
         /\ r.until = Bot!End(r.vod) /\ r.until <= time
         /\ \A m \in Bot!MessagesOf(r.vod) : Messages[m].at < r.at => \E e \in r.got : e.id = m
         /\ r.step = "store" => r.until <= r.at

ReadsCover == \A l \in Bot!Locks : Covers(reads[l], now)

BotInv == BotTypes /\ GoneStay /\ RowsInPlace /\ WholeStored /\ ReadsCover

----------------------------------------------------------------------------
(* What one transaction writes.                                             *)

LEMMA Annotating ==
  ASSUME NEW r \in ReadRecords
  PROVE  /\ Bot!Annotated(r) \in SUBSET Entries
         /\ \A e \in Bot!Annotated(r) : \E d \in r.got : d.id = e.id
         /\ \A d \in r.got : \E e \in Bot!Annotated(r) : e.id = d.id
<1>1. r.got \in SUBSET Entries
  BY DEF ReadRecords
<1> DEFINE hit(e) == \E a \in r.acts : Bot!Hits(a, e.id)
           annotated(e) == [e EXCEPT !.gone = @ \/ hit(e)]
<1>2. Bot!Annotated(r) = {annotated(e) : e \in r.got}
  BY DEF Bot!Annotated
<1>3. ASSUME NEW e \in r.got PROVE annotated(e) \in Entries /\ annotated(e).id = e.id
  <2>1. PICK h \in BOOLEAN : h = (e.gone \/ hit(e))
    OBVIOUS
  <2>2. e \in Entries
    BY <1>1
  <2>3. annotated(e) = [e EXCEPT !.gone = h]
    BY <2>1, <2>2 DEF Entries
  <2>4. QED BY <2>2, <2>3 DEF Entries
<1>4. HIDE DEF annotated
<1>5. QED BY <1>2, <1>3

LEMMA MergedRow ==
  ASSUME NEW old \in [vod : Bot!Vods, gone : BOOLEAN], NEW gone \in BOOLEAN
  PROVE  /\ Bot!Merged(old, gone) \in [vod : Bot!Vods, gone : BOOLEAN] /\ Bot!Merged(old, gone).vod = old.vod
         /\ old.gone \/ gone => Bot!Merged(old, gone).gone
<1>1. PICK g \in BOOLEAN : g = (old.gone \/ gone)
  OBVIOUS
<1>2. Bot!Merged(old, gone) = [old EXCEPT !.gone = g]
  BY <1>1 DEF Bot!Merged
<1>3. QED BY <1>1, <1>2

LEMMA UpsertedRows ==
  ASSUME BotTypes, NEW v \in Bot!Vods, NEW entries \in SUBSET Entries, botRows' = Bot!Upserted(v, entries)
  PROVE  /\ DOMAIN botRows' = DOMAIN botRows \cup {e.id : e \in entries}
         /\ \A m \in DOMAIN botRows' :
              /\ botRows'[m] \in [vod : Bot!Vods, gone : BOOLEAN]
              /\ botRows'[m].vod = IF m \in DOMAIN botRows THEN botRows[m].vod ELSE v
              /\ m \in DOMAIN botRows /\ botRows[m].gone => botRows'[m].gone
         /\ \A e \in entries : e.gone => botRows'[e.id].gone
<1> DEFINE new(m)  == {e \in entries : e.id = m}
           gone(m) == \E e \in new(m) : e.gone
           row(m)  == IF new(m) = {} THEN botRows[m]
                      ELSE IF m \in DOMAIN botRows THEN Bot!Merged(botRows[m], gone(m)) ELSE [vod |-> v, gone |-> gone(m)]
<1>1. botRows' = [m \in DOMAIN botRows \cup {e.id : e \in entries} |-> row(m)]
  BY DEF Bot!Upserted
<1>2. ASSUME NEW m \in DOMAIN botRows \cup {e.id : e \in entries}
      PROVE  /\ row(m) \in [vod : Bot!Vods, gone : BOOLEAN]
             /\ row(m).vod = IF m \in DOMAIN botRows THEN botRows[m].vod ELSE v
             /\ m \in DOMAIN botRows /\ botRows[m].gone => row(m).gone
             /\ gone(m) => row(m).gone
  <2>1. PICK g \in BOOLEAN : g = gone(m)
    OBVIOUS
  <2>2. CASE new(m) = {}
    <3>1. m \in DOMAIN botRows /\ ~gone(m) /\ row(m) = botRows[m]
      BY <2>2
    <3>2. botRows[m] \in [vod : Bot!Vods, gone : BOOLEAN]
      BY <3>1 DEF BotTypes
    <3>3. QED BY <3>1, <3>2
  <2>3. CASE new(m) # {} /\ m \in DOMAIN botRows
    <3>1. row(m) = Bot!Merged(botRows[m], g)
      BY <2>1, <2>3
    <3>2. botRows[m] \in [vod : Bot!Vods, gone : BOOLEAN]
      BY <2>3 DEF BotTypes
    <3>3. HIDE DEF row, gone
    <3>4. QED BY <2>1, <2>3, <3>1, <3>2, MergedRow
  <2>4. CASE new(m) # {} /\ m \notin DOMAIN botRows
    <3>1. row(m) = [vod |-> v, gone |-> g]
      BY <2>1, <2>4
    <3>2. HIDE DEF row, gone
    <3>3. QED BY <2>1, <2>4, <3>1
  <2>5. QED BY <2>2, <2>3, <2>4
<1>3. \A e \in entries : e.gone => gone(e.id)
  OBVIOUS
<1>4. HIDE DEF row, gone
<1>5. DOMAIN botRows' = DOMAIN botRows \cup {e.id : e \in entries} /\ \A m \in DOMAIN botRows' : botRows'[m] = row(m)
  BY <1>1
<1>6. \A m \in DOMAIN botRows' :
        /\ botRows'[m] \in [vod : Bot!Vods, gone : BOOLEAN]
        /\ botRows'[m].vod = IF m \in DOMAIN botRows THEN botRows[m].vod ELSE v
        /\ m \in DOMAIN botRows /\ botRows[m].gone => botRows'[m].gone
        /\ gone(m) => botRows'[m].gone
  BY <1>2, <1>5
<1>7. \A e \in entries : e.id \in DOMAIN botRows'
  BY <1>5
<1>8. QED BY <1>3, <1>5, <1>6, <1>7

----------------------------------------------------------------------------
(* Each step keeps the invariant.                                           *)

NoReadHolds == Bot!NoRead \in ReadRecords /\ Bot!NoRead.step = "idle" /\ \A time : Covers(Bot!NoRead, time)

LEMMA NothingRead == NoReadHolds
<1>1. Bot!NoRead \in ReadRecords /\ Bot!NoRead.step = "idle"
  BY DEF Bot!NoRead, ReadRecords
<1>2. QED BY <1>1 DEF NoReadHolds, Covers

\* A step of one read that stores nothing.
LEMMA OneRead ==
  ASSUME BotInv, NEW l \in Bot!Locks, NEW r \in ReadRecords, reads' = [reads EXCEPT ![l] = r], Covers(r, now),
         UNCHANGED <<now, actions, flagged, botRows, seenGone, strayed>>,
         vods' \in [Bot!Vods -> [info : BOOLEAN, asked : BOOLEAN, whole : BOOLEAN]],
         \A v \in Bot!Vods : vods'[v].whole => vods[v].whole
  PROVE  BotInv'
<1>1. reads' \in [Bot!Locks -> ReadRecords] /\ reads'[l] = r /\ \A k \in Bot!Locks : k # l => reads'[k] = reads[k]
  BY DEF BotInv, BotTypes
<1>2. BotTypes'
  BY <1>1 DEF BotInv, BotTypes
<1>3. ReadsCover'
  <2>1. SUFFICES ASSUME NEW k \in Bot!Locks PROVE Covers(reads'[k], now)
    BY DEF ReadsCover
  <2>2. CASE k = l
    <3>1. reads'[k] = r
      BY <1>1, <2>2
    <3>2. QED BY <3>1
  <2>3. CASE k # l
    <3>1. reads'[k] = reads[k]
      BY <1>1, <2>3
    <3>2. QED BY <3>1 DEF BotInv, ReadsCover
  <2>4. QED BY <2>2, <2>3
<1>4. GoneStay' /\ RowsInPlace' /\ WholeStored'
  BY DEF BotInv, GoneStay, RowsInPlace, WholeStored
<1>5. QED BY <1>2, <1>3, <1>4 DEF BotInv

LEMMA TickInv == ASSUME Bot!BotAssumption, BotInv, Bot!Tick PROVE BotInv'
<1>1. now' = now + 1 /\ now < MaxTime /\ UNCHANGED <<actions, flagged, botRows, reads, vods, seenGone, strayed, begun>>
  BY DEF Bot!Tick
<1>2. now' \in 0..MaxTime
  BY <1>1 DEF BotInv, BotTypes, Bot!BotAssumption
<1>3. BotTypes'
  BY <1>1, <1>2 DEF BotInv, BotTypes
<1>4. ReadsCover'
  <2>1. SUFFICES ASSUME NEW l \in Bot!Locks PROVE Covers(reads[l], now')
    BY <1>1 DEF ReadsCover
  <2>2. reads[l] \in ReadRecords /\ Covers(reads[l], now)
    BY DEF BotInv, BotTypes, ReadsCover
  <2>3. reads[l].until <= now => reads[l].until <= now'
    <3>1. reads[l].until \in Int
      BY <2>2 DEF ReadRecords
    <3>2. now \in Int
      BY DEF BotInv, BotTypes, Bot!BotAssumption
    <3>3. QED BY <1>1, <3>1, <3>2
  <2>4. QED BY <2>2, <2>3 DEF Covers
<1>5. GoneStay' /\ RowsInPlace' /\ WholeStored'
  BY <1>1 DEF BotInv, GoneStay, RowsInPlace, WholeStored
<1>6. QED BY <1>3, <1>4, <1>5 DEF BotInv

LEMMA ModerateInv == ASSUME BotInv, Bot!Moderate PROVE BotInv'
<1>1. UNCHANGED <<now, botRows, reads, vods, seenGone, strayed>>
  BY DEF Bot!Moderate
<1>2. PICK what \in Moderation : actions' = actions \cup {[type |-> what.type, at |-> now, target |-> what.target]}
  BY DEF Bot!Moderate
<1>3. flagged' \subseteq DOMAIN Messages
  BY DEF Bot!Moderate, BotInv, BotTypes
<1>4. actions' \subseteq Acts
  <2>1. now \in 0..MaxTime /\ actions \subseteq Acts
    BY DEF BotInv, BotTypes
  <2>2. [type |-> what.type, at |-> now, target |-> what.target] \in Acts
    BY <2>1 DEF Acts
  <2>3. QED BY <1>2, <2>1, <2>2
<1>5. BotTypes'
  BY <1>1, <1>3, <1>4 DEF BotInv, BotTypes
<1>6. GoneStay' /\ RowsInPlace' /\ WholeStored' /\ ReadsCover'
  BY <1>1 DEF BotInv, GoneStay, RowsInPlace, WholeStored, ReadsCover
<1>7. QED BY <1>5, <1>6 DEF BotInv

LEMMA StartInv ==
  ASSUME Bot!BotAssumption, BotInv, NEW v \in Bot!Vods, Bot!MonitorAsks(v) \/ Bot!ReadByHand(v) \/ Bot!Backfill(v)
  PROVE  BotInv'
<1>1. PICK lock \in Bot!Locks, known \in BOOLEAN, keyed \in BOOLEAN : Bot!Start(lock, v, known, keyed)
  <2>1. CASE Bot!MonitorAsks(v)
    BY <2>1 DEF Bot!MonitorAsks, Bot!Locks
  <2>2. CASE Bot!ReadByHand(v)
    BY <2>2 DEF Bot!ReadByHand, Bot!Locks
  <2>3. CASE Bot!Backfill(v)
    BY <2>3 DEF Bot!Backfill, Bot!Locks
  <2>4. QED BY <2>1, <2>2, <2>3
<1>2. vods' = vods \/ vods' = [vods EXCEPT ![v].asked = TRUE]
  BY DEF Bot!MonitorAsks, Bot!ReadByHand, Bot!Backfill
<1>3. vods \in [Bot!Vods -> [info : BOOLEAN, asked : BOOLEAN, whole : BOOLEAN]] /\ now \in 0..MaxTime
  BY DEF BotInv, BotTypes
<1>4. /\ vods' \in [Bot!Vods -> [info : BOOLEAN, asked : BOOLEAN, whole : BOOLEAN]]
      /\ \A w \in Bot!Vods : vods'[w].whole => vods[w].whole
  <2>1. CASE vods' = vods
    BY <1>3, <2>1
  <2>2. CASE vods' = [vods EXCEPT ![v].asked = TRUE]
    <3>1. PICK x : x = [vods[v] EXCEPT !.asked = TRUE]
      OBVIOUS
    <3>2. vods' = [vods EXCEPT ![v] = x]
      BY <2>2, <3>1
    <3>3. x \in [info : BOOLEAN, asked : BOOLEAN, whole : BOOLEAN] /\ x.whole = vods[v].whole
      BY <1>3, <3>1
    <3>4. QED BY <1>3, <3>2, <3>3
  <2>3. QED BY <1>2, <2>1, <2>2
<1>5. Streams[v].start \in Int /\ Bot!End(v) \in Int /\ MaxTime \in Nat
  BY DEF Bot!BotAssumption, Bot!End
<1>6. PICK until \in Int : until = IF known THEN Bot!End(v) ELSE now
  BY <1>3, <1>5
<1>7. PICK late \in BOOLEAN : late = (now >= Bot!End(v))
  <2>1. (now >= Bot!End(v)) \in BOOLEAN
    OBVIOUS
  <2>2. QED BY <2>1, Zenon
<1>8. PICK open \in BOOLEAN : open = ~known
  OBVIOUS
<1>9. PICK r : r = [step |-> "read", vod |-> v, keyed |-> keyed, open |-> open, late |-> late, until |-> until,
                    at |-> Streams[v].start, got |-> {}, acts |-> {}]
  OBVIOUS
<1>10. reads' = [reads EXCEPT ![lock] = r] /\ UNCHANGED <<now, actions, flagged, botRows, seenGone, strayed>>
  BY <1>1, <1>6, <1>7, <1>8, <1>9 DEF Bot!Start
<1>11. r \in ReadRecords
  BY <1>5, <1>9 DEF ReadRecords
<1>12. \A m \in Bot!MessagesOf(v) : ~(Messages[m].at < Streams[v].start)
  BY <1>5 DEF Bot!MessagesOf, Bot!BotAssumption
<1>13. r.step = "read" /\ r.vod = v /\ r.keyed = keyed /\ r.open = open /\ r.late = late /\ r.until = until /\ r.at = Streams[v].start
  BY <1>9
<1>14. r.late /\ ~r.open => r.until = Bot!End(v) /\ r.until <= now
  BY <1>3, <1>5, <1>6, <1>7, <1>8, <1>13
<1>15. Covers(r, now)
  BY <1>12, <1>13, <1>14 DEF Covers
<1>16. QED BY <1>4, <1>10, <1>11, <1>15, OneRead

LEMMA ReadFailsInv == ASSUME BotInv, NEW l \in Bot!Locks, Bot!ReadFails(l) PROVE BotInv'
<1>1. reads' = [reads EXCEPT ![l] = Bot!NoRead] /\ UNCHANGED <<now, actions, flagged, botRows, vods, seenGone, strayed>>
  BY DEF Bot!ReadFails
<1>2. vods' \in [Bot!Vods -> [info : BOOLEAN, asked : BOOLEAN, whole : BOOLEAN]] /\ \A v \in Bot!Vods : vods'[v].whole => vods[v].whole
  BY <1>1 DEF BotInv, BotTypes
<1>3. Bot!NoRead \in ReadRecords /\ Covers(Bot!NoRead, now)
  BY NothingRead DEF NoReadHolds
<1>4. QED BY <1>1, <1>2, <1>3, OneRead

LEMMA ReadPageInv == ASSUME Bot!BotAssumption, BotInv, NEW l \in Bot!Locks, Bot!ReadPage(l) PROVE BotInv'
<1>1. PICK r \in ReadRecords : r = reads[l] /\ r.step = "read" /\ Covers(r, now)
  BY DEF Bot!ReadPage, BotInv, BotTypes, ReadsCover
<1>2. /\ r.at \in Int /\ r.until \in Int /\ r.got \in SUBSET Entries /\ r.acts \in SUBSET Acts /\ now \in 0..MaxTime
      /\ MaxTime \in Nat /\ botPAGE \in Nat /\ flagged \subseteq DOMAIN Messages /\ actions \subseteq Acts
  BY <1>1 DEF ReadRecords, BotInv, BotTypes, Bot!BotAssumption
<1> DEFINE page == {t \in r.at..(r.at + botPAGE - 1) : t < r.until /\ t < now}
           sent == {m \in DOMAIN Messages : Messages[m].at \in page /\ (r.keyed \/ \A a \in actions : ~Bot!Hits(a, m))}
<1>3. PICK got \in SUBSET Entries : got = r.got \cup {[id |-> m, gone |-> m \in flagged] : m \in sent}
  <2>1. ASSUME NEW m \in sent PROVE [id |-> m, gone |-> m \in flagged] \in Entries
    <3>1. PICK gone \in BOOLEAN : gone = (m \in flagged)
      <4>1. (m \in flagged) \in BOOLEAN
        OBVIOUS
      <4>2. QED BY <4>1, Zenon
    <3>2. [id |-> m, gone |-> gone] \in Entries
      BY DEF Entries
    <3>3. QED BY <3>1, <3>2
  <2>2. QED BY <1>2, <2>1
<1>4. PICK acts \in SUBSET Acts : acts = r.acts \cup {a \in actions : r.keyed /\ a.at \in page}
  BY <1>2
<1>5. PICK step \in {"read", "store"} : step = IF r.at + botPAGE < r.until THEN "read" ELSE "store"
  OBVIOUS
<1>6. PICK at \in Int : at = r.at + botPAGE
  BY <1>2
<1>7. reads' = [reads EXCEPT ![l].at = at, ![l].step = step, ![l].got = got, ![l].acts = acts]
  BY <1>1, <1>3, <1>4, <1>5, <1>6 DEF Bot!ReadPage
<1>8. PICK q : q = [r EXCEPT !.at = at, !.step = step, !.got = got, !.acts = acts]
  OBVIOUS
<1>9. reads \in [Bot!Locks -> ReadRecords]
  BY DEF BotInv, BotTypes
<1>10. reads' = [reads EXCEPT ![l] = q]
  BY <1>1, <1>7, <1>8, <1>9, ZenonT(30)
<1>11. q = [step |-> step, vod |-> r.vod, keyed |-> r.keyed, open |-> r.open, late |-> r.late, until |-> r.until,
            at |-> at, got |-> got, acts |-> acts]
  BY <1>1, <1>8, ZenonT(30) DEF ReadRecords
<1>12. q \in ReadRecords
  BY <1>1, <1>11 DEF ReadRecords
<1>13. UNCHANGED <<now, actions, flagged, botRows, seenGone, strayed, vods>>
  BY DEF Bot!ReadPage
<1>14. /\ vods' \in [Bot!Vods -> [info : BOOLEAN, asked : BOOLEAN, whole : BOOLEAN]]
       /\ \A v \in Bot!Vods : vods'[v].whole => vods[v].whole
  BY <1>13 DEF BotInv, BotTypes
<1>15. Covers(q, now)
  <2>1. r.vod \in Bot!Vods
    BY <1>1 DEF Covers
  <2>2. SUFFICES ASSUME r.keyed, r.late, ~r.open
                 PROVE  /\ r.until = Bot!End(r.vod) /\ r.until <= now
                        /\ \A m \in Bot!MessagesOf(r.vod) : Messages[m].at < at => \E e \in got : e.id = m
                        /\ step = "store" => r.until <= at
    BY <1>11, <2>1 DEF Covers
  <2>3. /\ r.until = Bot!End(r.vod) /\ r.until <= now
        /\ \A m \in Bot!MessagesOf(r.vod) : Messages[m].at < r.at => \E e \in r.got : e.id = m
    BY <1>1, <2>2 DEF Covers
  <2>4. step = "store" => r.until <= at
    BY <1>2, <1>5, <1>6
  <2>5. ASSUME NEW m \in Bot!MessagesOf(r.vod), Messages[m].at < at PROVE \E e \in got : e.id = m
    <3>1. CASE Messages[m].at < r.at
      BY <1>3, <2>3, <3>1
    <3>2. CASE ~(Messages[m].at < r.at)
      <4>1. /\ m \in DOMAIN Messages /\ Messages[m].at \in Int /\ Messages[m].at \in Streams[r.vod].start..(Bot!End(r.vod) - 1)
            /\ Bot!End(r.vod) \in Int /\ Streams[r.vod].start \in Int
        BY <2>1 DEF Bot!MessagesOf, Bot!BotAssumption, Bot!End
      <4>2. Messages[m].at \in page
        BY <1>2, <1>6, <2>3, <2>5, <3>2, <4>1
      <4>3. m \in sent
        BY <2>2, <4>1, <4>2
      <4>4. [id |-> m, gone |-> m \in flagged] \in got
        BY <1>3, <4>3
      <4>5. QED BY <4>4
    <3>3. QED BY <3>1, <3>2
  <2>6. QED BY <2>3, <2>4, <2>5
<1>16. QED BY <1>10, <1>12, <1>13, <1>14, <1>15, OneRead

LEMMA StoreInv == ASSUME Bot!BotAssumption, BotInv, NEW l \in Bot!Locks, Bot!Store(l) PROVE BotInv'
<1>1. PICK r \in ReadRecords : r = reads[l] /\ r.step = "store" /\ Covers(r, now)
  BY DEF Bot!Store, BotInv, BotTypes, ReadsCover
<1>2. PICK v \in Bot!Vods : v = r.vod
  BY <1>1 DEF Covers
<1>3. PICK entries \in SUBSET Entries :
        /\ entries = Bot!Annotated(r)
        /\ \A e \in entries : \E d \in r.got : d.id = e.id
        /\ \A d \in r.got : \E e \in entries : e.id = d.id
  BY Annotating
<1>4. PICK whole \in BOOLEAN : whole = (r.keyed /\ r.late /\ ~r.open)
  BY <1>1 DEF ReadRecords
<1>5. /\ botRows' = Bot!Upserted(v, entries) /\ reads' = [reads EXCEPT ![l] = Bot!NoRead]
      /\ vods' = [vods EXCEPT ![v].info = TRUE, ![v].whole = @ \/ whole]
      /\ seenGone' = seenGone \cup {e.id : e \in {d \in entries : d.gone}}
      /\ strayed' = (strayed \/ \E e \in entries : e.id \notin Bot!MessagesOf(v))
      /\ UNCHANGED <<now, actions, flagged>>
  BY <1>1, <1>2, <1>3, <1>4 DEF Bot!Store
<1>6. /\ BotTypes /\ vods \in [Bot!Vods -> [info : BOOLEAN, asked : BOOLEAN, whole : BOOLEAN]]
      /\ DOMAIN botRows \subseteq DOMAIN Messages
      /\ reads \in [Bot!Locks -> ReadRecords] /\ seenGone \subseteq DOMAIN Messages
      /\ \A e \in entries : e.id \in DOMAIN Messages
  BY DEF BotInv, BotTypes, Entries
<1>7. /\ DOMAIN botRows' = DOMAIN botRows \cup {e.id : e \in entries}
      /\ \A m \in DOMAIN botRows' :
           /\ botRows'[m] \in [vod : Bot!Vods, gone : BOOLEAN]
           /\ botRows'[m].vod = IF m \in DOMAIN botRows THEN botRows[m].vod ELSE v
           /\ m \in DOMAIN botRows /\ botRows[m].gone => botRows'[m].gone
      /\ \A e \in entries : e.gone => botRows'[e.id].gone
  BY <1>5, <1>6, UpsertedRows
<1>8. /\ vods' \in [Bot!Vods -> [info : BOOLEAN, asked : BOOLEAN, whole : BOOLEAN]]
      /\ \A w \in Bot!Vods : vods'[w].whole => vods[w].whole \/ (w = v /\ whole)
  <2>1. PICK stored \in BOOLEAN : stored = (vods[v].whole \/ whole)
    OBVIOUS
  <2>2. PICK x : x = [vods[v] EXCEPT !.info = TRUE, !.whole = stored]
    OBVIOUS
  <2>3. vods' = [vods EXCEPT ![v] = x]
    BY <1>5, <1>6, <2>1, <2>2, ZenonT(30)
  <2>4. x = [info |-> TRUE, asked |-> vods[v].asked, whole |-> stored]
    BY <1>6, <2>2, ZenonT(30)
  <2>5. vods[v].asked \in BOOLEAN
    BY <1>6
  <2>6. x \in [info : BOOLEAN, asked : BOOLEAN, whole : BOOLEAN] /\ x.whole = stored
    BY <2>4, <2>5
  <2>7. QED BY <1>6, <2>1, <2>3, <2>6
<1>9. BotTypes'
  <2>1. reads' \in [Bot!Locks -> ReadRecords]
    BY <1>5, <1>6, NothingRead DEF NoReadHolds
  <2>2. strayed' \in BOOLEAN
    BY <1>5, <1>6 DEF BotTypes
  <2>3. DOMAIN botRows' \subseteq DOMAIN Messages /\ seenGone' \subseteq DOMAIN Messages
    BY <1>5, <1>6, <1>7
  <2>4. QED BY <1>5, <1>6, <1>7, <1>8, <2>1, <2>2, <2>3 DEF BotTypes
<1>10. GoneStay'
  BY <1>5, <1>7 DEF BotInv, GoneStay
<1>11. RowsInPlace'
  <2>1. SUFFICES ASSUME ~strayed', NEW m \in DOMAIN botRows' PROVE m \in Bot!MessagesOf(botRows'[m].vod)
    BY DEF RowsInPlace
  <2>2. ~strayed /\ \A e \in entries : e.id \in Bot!MessagesOf(v)
    BY <1>5, <2>1
  <2>3. CASE m \in DOMAIN botRows
    BY <1>7, <2>2, <2>3 DEF BotInv, RowsInPlace
  <2>4. CASE m \notin DOMAIN botRows
    BY <1>7, <2>2, <2>4
  <2>5. QED BY <2>3, <2>4
<1>12. WholeStored'
  <2>1. SUFFICES ASSUME NEW w \in Bot!Vods, vods'[w].whole, NEW m \in Bot!MessagesOf(w) PROVE m \in DOMAIN botRows'
    BY DEF WholeStored
  <2>2. CASE vods[w].whole
    BY <1>7, <2>2 DEF BotInv, WholeStored
  <2>3. CASE w = v /\ whole
    <3>1. /\ r.until = Bot!End(v) /\ r.until <= r.at
          /\ \A k \in Bot!MessagesOf(v) : Messages[k].at < r.at => \E e \in r.got : e.id = k
      BY <1>1, <1>2, <1>4, <2>3 DEF Covers
    <3>2. m \in Bot!MessagesOf(v) /\ Messages[m].at < r.at
      <4>1. r.at \in Int /\ r.until \in Int
        BY <1>1 DEF ReadRecords
      <4>2. m \in Bot!MessagesOf(v)
        BY <2>1, <2>3
      <4>3. Messages[m].at \in Int /\ Messages[m].at <= Bot!End(v) - 1
        BY <4>2 DEF Bot!MessagesOf, Bot!BotAssumption
      <4>4. QED BY <3>1, <4>1, <4>2, <4>3
    <3>3. \E e \in entries : e.id = m
      BY <1>3, <3>1, <3>2
    <3>4. QED BY <1>7, <3>3
  <2>4. QED BY <1>8, <2>1, <2>2, <2>3
<1>13. ReadsCover'
  <2>1. SUFFICES ASSUME NEW k \in Bot!Locks PROVE Covers(reads'[k], now)
    BY <1>5 DEF ReadsCover
  <2>2. CASE k = l
    <3>1. reads'[k] = Bot!NoRead
      BY <1>5, <1>6, <2>2
    <3>2. QED BY <3>1, NothingRead DEF NoReadHolds
  <2>3. CASE k # l
    <3>1. reads'[k] = reads[k]
      BY <1>5, <1>6, <2>3
    <3>2. QED BY <3>1 DEF BotInv, ReadsCover
  <2>4. QED BY <2>2, <2>3
<1>14. QED BY <1>9, <1>10, <1>11, <1>12, <1>13 DEF BotInv

LEMMA BotInitInv == ASSUME Bot!BotAssumption, Bot!Init PROVE BotInv
<1>1. /\ now = 0 /\ actions = {} /\ flagged = {} /\ DOMAIN botRows = {} /\ seenGone = {} /\ strayed = FALSE
      /\ reads = [l \in Bot!Locks |-> Bot!NoRead] /\ vods \in [Bot!Vods -> [info : BOOLEAN, asked : BOOLEAN, whole : BOOLEAN]]
      /\ \A v \in Bot!Vods : ~vods[v].whole
  BY DEF Bot!Init, Bot!NoRows
<1>2. reads \in [Bot!Locks -> ReadRecords] /\ \A l \in Bot!Locks : reads[l] = Bot!NoRead
  BY <1>1, NothingRead DEF NoReadHolds
<1>3. BotTypes
  <2>1. now \in 0..MaxTime
    BY <1>1 DEF Bot!BotAssumption
  <2>2. QED BY <1>1, <1>2, <2>1 DEF BotTypes
<1>4. ReadsCover
  BY <1>2, NothingRead DEF NoReadHolds, ReadsCover
<1>5. QED BY <1>1, <1>3, <1>4 DEF BotInv, GoneStay, RowsInPlace, WholeStored

LEMMA BotNextInv == ASSUME Bot!BotAssumption, BotInv, Bot!Next PROVE BotInv'
<1>1. ASSUME Bot!Tick \/ Bot!Moderate PROVE BotInv'
  BY <1>1, TickInv, ModerateInv
<1>2. ASSUME NEW v \in Bot!Vods, Bot!MonitorAsks(v) \/ Bot!ReadByHand(v) \/ Bot!Backfill(v) PROVE BotInv'
  BY <1>2, StartInv
<1>3. ASSUME NEW l \in Bot!Locks, Bot!ReadPage(l) \/ Bot!Store(l) \/ Bot!ReadFails(l) PROVE BotInv'
  BY <1>3, ReadPageInv, StoreInv, ReadFailsInv
<1>4. QED BY <1>1, <1>2, <1>3 DEF Bot!Next

\* A message is said in one stream.
LEMMA InvBot == ASSUME Bot!BotAssumption, BotInv PROVE Bot!TypeOK /\ Bot!BotChatKept
<1>1. Bot!TypeOK
  BY DEF BotInv, BotTypes, Bot!TypeOK, ReadRecords
<1>2. ASSUME NEW v \in Bot!Vods, vods[v].whole, NEW m, m \in Bot!MessagesOf(v), ~strayed PROVE m \in DOMAIN botRows /\ botRows[m].vod = v
  <2>1. m \in DOMAIN botRows
    BY <1>2 DEF BotInv, WholeStored
  <2>2. PICK w \in Bot!Vods : w = botRows[m].vod
    BY <2>1 DEF BotInv, BotTypes
  <2>3. m \in Bot!MessagesOf(w)
    BY <1>2, <2>1, <2>2 DEF BotInv, RowsInPlace
  <2>4. /\ Messages[m].at \in Streams[v].start..((Streams[v].start + Streams[v].length) - 1)
        /\ Messages[m].at \in Streams[w].start..((Streams[w].start + Streams[w].length) - 1)
    <3>1. m \in Bot!MessagesOf(v)
      BY <1>2
    <3>2. Messages[m].at \in Streams[v].start..(Bot!End(v) - 1)
      BY <3>1, Zenon DEF Bot!MessagesOf
    <3>3. Messages[m].at \in Streams[w].start..(Bot!End(w) - 1)
      BY <2>3, Zenon DEF Bot!MessagesOf
    <3>4. QED BY <3>2, <3>3, Zenon DEF Bot!End
  <2>5. /\ Streams[v].start \in Int /\ Streams[v].length \in Nat /\ Streams[w].start \in Int /\ Streams[w].length \in Nat
        /\ (v # w => \/ Streams[v].start + Streams[v].length <= Streams[w].start
                     \/ Streams[w].start + Streams[w].length <= Streams[v].start)
    BY DEF Bot!BotAssumption
  <2>6. v = w
    BY <2>4, <2>5
  <2>7. QED BY <2>1, <2>2, <2>6
<1>3. \A v \in Bot!Vods : vods[v].whole => Bot!MessagesOf(v) \subseteq DOMAIN botRows
  BY DEF BotInv, WholeStored
<1>4. Bot!BotChatKept
  BY <1>2, <1>3 DEF BotInv, GoneStay, Bot!BotChatKept
<1>5. QED BY <1>1, <1>4

LEMMA BotStepInv == ASSUME Bot!BotAssumption, BotInv, [Bot!Next]_(Bot!botVars) PROVE BotInv'
<1>1. ASSUME BotInv, UNCHANGED Bot!botVars PROVE BotInv'
  BY <1>1 DEF Bot!botVars, BotInv, BotTypes, GoneStay, RowsInPlace, WholeStored, ReadsCover
<1>2. QED BY <1>1, BotNextInv

\* However reads of the bot's log overlap, fail and see what moderators did since, a message that one stored
\* as removed stays so, and a whole read leaves all of its stream's messages stored (bot_chat.py).
THEOREM BotLogIsKept == ASSUME Bot!BotAssumption PROVE Bot!Spec => [](Bot!TypeOK /\ Bot!BotChatKept)
<1>1. BotInv /\ [Bot!Next]_(Bot!botVars) => BotInv'
  BY BotStepInv
<1>2. Bot!Init => BotInv
  BY BotInitInv
<1>3. BotInv => Bot!TypeOK /\ Bot!BotChatKept
  BY InvBot
<1>4. QED BY <1>1, <1>2, <1>3, PTL DEF Bot!Spec

------------------------------------------------------------------------------
(* Chat.                                                                    *)

ChatOfLength == Len(Offsets)

\* Rows have the numbers of before next, in the order of time.
NumbersInOrder ==
  /\ next \in Nat \ {0} /\ ChatOf!Stored \subseteq ChatOf!Comments
  /\ \A c \in ChatOf!Stored : seq[c] \in 1..(next - 1)
  /\ \A c, d \in ChatOf!Stored : c < d => seq[c] < seq[d]

\* What a crawl holds: the comments up to where it is, from one that is stored, or the first that is not.
HoldsFrom(rows, at, k) ==
  /\ at \in 1..(ChatOfLength + 1) /\ rows \in Seq(Nat) /\ Len(rows) < at /\ at - Len(rows) <= k + 1
  /\ \A i \in 1..Len(rows) : rows[i] = ((at - Len(rows)) + i) - 1

\* The replay's chat is stored from its beginning.
CrawledUpTo(k) ==
  /\ ChatOf!Stored = 1..k
  /\ crawl.step = "crawling" => HoldsFrom(crawl.rows, crawl.at, k)
  /\ crawl.step = "done" => k = ChatOfLength

Crawls == [step : {"idle", "crawling", "failed", "done"}, at : Nat, rows : Seq(Nat), runs : Nat]

ChatInv ==
  /\ NumbersInOrder /\ crawl \in Crawls
  /\ source = "bot" => crawl.step = "idle"
  /\ source # "bot" => \E k \in 0..ChatOfLength : CrawledUpTo(k)

----------------------------------------------------------------------------
(* Where a crawl begins: at the last second stored, or at the first comment. *)

Less == {m \in Nat \X Nat : m[1] < m[2]}

LEMMA Least == ASSUME NEW T \in SUBSET Nat, T # {} PROVE \E x \in T : \A y \in T : x <= y
<1>1. IsWellFoundedOn(Less, Nat)
  <2>1. Less = OpToRel(<, Nat)
    BY DEF Less, OpToRel
  <2>2. QED BY <2>1, NatLessThanWellFounded
<1>2. PICK x \in T : \A y \in T : <<y, x>> \notin Less
  BY <1>1, WFMin
<1>3. ASSUME NEW y \in T PROVE x <= y
  <2>1. <<y, x>> \in Nat \X Nat /\ <<y, x>>[1] = y /\ <<y, x>>[2] = x
    OBVIOUS
  <2>2. ~(y < x)
    BY <1>2, <2>1 DEF Less
  <2>3. QED BY <2>2
<1>4. QED BY <1>3

LEMMA SizeOfChat == ASSUME ChatOf!ChatAssumption PROVE ChatOfLength \in Nat /\ ChatOf!Comments = 1..ChatOfLength /\ \A c \in 1..ChatOfLength : Offsets[c] \in Nat
BY DEF ChatOf!ChatAssumption, ChatOfLength, ChatOf!Comments

LEMMA MaxOffsetIs ==
  ASSUME ChatOf!ChatAssumption, NEW k \in 0..ChatOfLength, ChatOf!Stored = 1..k
  PROVE  ChatOf!MaxOffset = IF k = 0 THEN 0 ELSE Offsets[k]
<1>1. ChatOfLength \in Nat /\ \A c \in 1..ChatOfLength : Offsets[c] \in Nat
  BY SizeOfChat
<1>2. CASE k = 0
  <2>1. ChatOf!Stored = {}
    BY <1>2
  <2>2. QED BY <1>2, <2>1 DEF ChatOf!MaxOffset
<1>3. CASE k # 0
  <2> DEFINE S == {Offsets[c] : c \in ChatOf!Stored}
  <2>0. k \in Nat /\ k >= 1 /\ k <= ChatOfLength
    BY <1>1, <1>3
  <2>1. ChatOf!Stored # {} /\ k \in 1..k /\ k \in 1..ChatOfLength /\ \A c \in ChatOf!Stored : c \in 1..ChatOfLength /\ c <= k
    <3>1. k \in 1..k /\ k \in 1..ChatOfLength /\ \A c \in 1..k : c \in 1..ChatOfLength /\ c <= k
      BY <1>1, <2>0
    <3>2. QED BY <3>1
  <2>2. Offsets[k] \in S /\ \A o \in S : o \in Nat /\ Offsets[k] >= o
    BY <1>1, <2>1 DEF ChatOf!ChatAssumption, ChatOfLength
  <2>3. ASSUME NEW x \in S, \A y \in S : x >= y PROVE x = Offsets[k]
    <3>1. x >= Offsets[k] /\ Offsets[k] >= x /\ x \in Nat /\ Offsets[k] \in Nat
      BY <2>2, <2>3
    <3>2. QED BY <3>1
  <2> HIDE DEF S
  <2>4. ChatOf!Max(S) = Offsets[k]
    BY <2>2, <2>3 DEF ChatOf!Max
  <2>5. QED BY <1>3, <2>1, <2>4 DEF ChatOf!MaxOffset, S
<1>4. QED BY <1>2, <1>3

LEMMA BeginsThere ==
  ASSUME ChatOf!ChatAssumption, NEW k \in 0..ChatOfLength, ChatOf!Stored = 1..k
  PROVE  ChatOf!FirstFrom(ChatOf!ResumeAt) \in 1..(ChatOfLength + 1) /\ ChatOf!FirstFrom(ChatOf!ResumeAt) <= k + 1
<1>1. ChatOfLength \in Nat /\ ChatOf!Comments = 1..ChatOfLength /\ \A c \in 1..ChatOfLength : Offsets[c] \in Nat
  BY SizeOfChat
<1> DEFINE T == {c \in ChatOf!Comments : Offsets[c] >= ChatOf!ResumeAt} \cup {ChatOfLength + 1}
<1>2. T \in SUBSET (1..(ChatOfLength + 1)) /\ T \in SUBSET Nat /\ T # {}
  BY <1>1
<1>3. PICK m \in T : \A y \in T : m <= y
  BY <1>2, Least
<1> HIDE DEF T
<1>4. ChatOf!Min(T) \in T /\ \A y \in T : ChatOf!Min(T) <= y
  BY <1>3 DEF ChatOf!Min
<1>5. ChatOf!FirstFrom(ChatOf!ResumeAt) = ChatOf!Min(T)
  BY DEF ChatOf!FirstFrom, T, ChatOfLength
<1>6. \E y \in T : y <= k + 1
  <2>1. ChatOf!MaxOffset = IF k = 0 THEN 0 ELSE Offsets[k]
    BY MaxOffsetIs
  <2>2. CASE k # 0
    <3>1. k \in ChatOf!Comments /\ Offsets[k] \in Nat
      BY <1>1, <2>2
    <3>2. k \in T
      BY <2>1, <2>2, <3>1 DEF T, ChatOf!ResumeAt
    <3>3. QED BY <3>2
  <2>3. CASE k = 0 /\ ChatOfLength # 0
    <3>1. 1 \in ChatOf!Comments /\ Offsets[1] \in Nat
      BY <1>1, <2>3
    <3>2. 1 \in T
      BY <2>1, <2>3, <3>1 DEF T, ChatOf!ResumeAt
    <3>3. QED BY <2>3, <3>2
  <2>4. CASE k = 0 /\ ChatOfLength = 0
    BY <2>4 DEF T
  <2>5. QED BY <2>2, <2>3, <2>4
<1>7. PICK y \in T : y <= k + 1
  BY <1>6
<1>8. ChatOf!Min(T) <= y /\ ChatOf!Min(T) \in 1..(ChatOfLength + 1) /\ y \in Nat
  BY <1>2, <1>4
<1>9. QED BY <1>1, <1>5, <1>7, <1>8

----------------------------------------------------------------------------
(* A page of the crawl.                                                      *)

\* What is inserted follows what is stored, in time and in number.
LEMMA InsertKeeps ==
  ASSUME ChatOf!ChatAssumption, NumbersInOrder, NEW k \in 0..ChatOfLength, ChatOf!Stored = 1..k, NEW a \in Nat, NEW rows \in Seq(Nat),
         a > 0, a <= k + 1, (a + Len(rows)) - 1 <= ChatOfLength, \A i \in 1..Len(rows) : rows[i] = (a + i) - 1, ChatOf!Inserted(rows)
  PROVE  NumbersInOrder' /\ \E m \in 0..ChatOfLength : ChatOf!Stored' = 1..m /\ m >= (a + Len(rows)) - 1 /\ m >= k
<1> DEFINE n == Len(rows)
           At(c) == CHOOSE i \in DOMAIN rows : rows[i] = c
           m == IF k >= (a + n) - 1 THEN k ELSE (a + n) - 1
<1>1. ChatOfLength \in Nat /\ ChatOf!Comments = 1..ChatOfLength /\ n \in Nat /\ DOMAIN rows = 1..n /\ next \in Nat /\ next > 0 /\ k \in Nat
  BY SizeOfChat DEF NumbersInOrder
<1>2. ChatOf!ToSet(rows) = a..((a + n) - 1)
  <2>1. \A i \in 1..n : rows[i] \in a..((a + n) - 1)
    BY <1>1
  <2>2. \A c \in a..((a + n) - 1) : (c - a) + 1 \in 1..n /\ rows[(c - a) + 1] = c
    BY <1>1
  <2>3. QED BY <1>1, <2>1, <2>2 DEF ChatOf!ToSet
<1>3. \A c \in a..((a + n) - 1) : At(c) = (c - a) + 1
  <2>1. SUFFICES ASSUME NEW c \in a..((a + n) - 1) PROVE At(c) = (c - a) + 1
    OBVIOUS
  <2>2. (c - a) + 1 \in DOMAIN rows /\ rows[(c - a) + 1] = c
    BY <1>1
  <2>3. At(c) \in DOMAIN rows /\ rows[At(c)] = c
    BY <2>2
  <2> HIDE DEF At
  <2>4. At(c) \in 1..n /\ c = (a + At(c)) - 1
    BY <1>1, <2>3
  <2>5. At(c) \in Int /\ c \in Int /\ a \in Int
    BY <1>1, <2>4
  <2>6. QED BY <2>4, <2>5
<1>4. m \in 0..ChatOfLength /\ m >= (a + n) - 1 /\ m >= k /\ ChatOf!Stored \cup ChatOf!ToSet(rows) = 1..m
  BY <1>1, <1>2
<1> HIDE DEF At, m
<1>5. seq' = [c \in 1..m |-> IF c \in ChatOf!Stored THEN seq[c] ELSE (next + At(c)) - 1] /\ next' = next + n
  BY <1>4 DEF ChatOf!Inserted, At
<1>6. ChatOf!Stored' = 1..m
  BY <1>5 DEF ChatOf!Stored
<1>7. \A c \in 1..k : seq'[c] = seq[c] /\ seq'[c] \in 1..(next - 1)
  BY <1>1, <1>4, <1>5 DEF NumbersInOrder
<1>8. \A c \in (k + 1)..m : seq'[c] = (next + (c - a)) /\ c >= a /\ c <= (a + n) - 1
  <2>1. SUFFICES ASSUME NEW c \in (k + 1)..m PROVE seq'[c] = (next + (c - a)) /\ c >= a /\ c <= (a + n) - 1
    OBVIOUS
  <2>2. c \notin 1..k /\ c \in 1..m /\ c \in a..((a + n) - 1)
    BY <1>1, <1>4, <2>1 DEF m
  <2>3. seq'[c] = (next + At(c)) - 1
    BY <1>5, <2>2
  <2>4. At(c) = (c - a) + 1
    BY <1>3, <2>2
  <2>5. QED BY <1>1, <2>2, <2>3, <2>4
<1>9. \A c \in ChatOf!Stored' : seq'[c] \in 1..(next' - 1)
  <2>1. SUFFICES ASSUME NEW c \in 1..m PROVE seq'[c] \in 1..(next' - 1)
    BY <1>6
  <2>2. m \in Nat /\ next' = next + n
    BY <1>1, <1>4, <1>5
  <2>3. CASE c <= k
    <3>1. c \in 1..k
      BY <1>1, <2>2, <2>3
    <3>2. seq'[c] \in 1..(next - 1)
      BY <1>7, <3>1
    <3>3. QED BY <1>1, <2>2, <3>2
  <2>4. CASE c > k
    <3>1. c \in (k + 1)..m
      BY <1>1, <2>2, <2>4
    <3>2. seq'[c] = next + (c - a) /\ c >= a /\ c <= (a + n) - 1
      BY <1>8, <3>1
    <3>3. QED BY <1>1, <2>2, <3>2
  <2>5. QED BY <1>1, <2>2, <2>3, <2>4
<1>10. \A c, d \in ChatOf!Stored' : c < d => seq'[c] < seq'[d]
  <2>1. SUFFICES ASSUME NEW c \in 1..m, NEW d \in 1..m, c < d PROVE seq'[c] < seq'[d]
    BY <1>6
  <2>2. CASE d <= k
    <3>1. c \in 1..k /\ d \in 1..k
      BY <1>1, <2>1, <2>2
    <3>2. seq'[c] = seq[c] /\ seq'[d] = seq[d]
      BY <1>7, <3>1
    <3>3. QED BY <2>1, <3>1, <3>2 DEF NumbersInOrder
  <2>3. CASE c <= k /\ d > k
    <3>1. c \in 1..k /\ d \in (k + 1)..m
      BY <1>1, <1>4, <2>3
    <3>2. seq'[c] \in 1..(next - 1) /\ seq'[d] = next + (d - a) /\ d >= a
      BY <1>7, <1>8, <3>1
    <3>3. QED BY <1>1, <3>2
  <2>4. CASE c > k
    <3>1. c \in (k + 1)..m /\ d \in (k + 1)..m
      BY <1>1, <1>4, <2>1, <2>4
    <3>2. seq'[c] = next + (c - a) /\ seq'[d] = next + (d - a)
      BY <1>8, <3>1
    <3>3. QED BY <1>1, <2>1, <3>2
  <2>5. QED BY <1>1, <2>2, <2>3, <2>4
<1>11. NumbersInOrder'
  <2>1. next' \in Nat \ {0} /\ ChatOf!Stored' \subseteq ChatOf!Comments
    BY <1>1, <1>4, <1>5, <1>6
  <2>2. QED BY <1>9, <1>10, <2>1 DEF NumbersInOrder
<1>12. QED BY <1>4, <1>6, <1>11

LEMMA StartCrawlKeeps == ASSUME ChatOf!ChatAssumption, ChatInv, ChatOf!StartCrawl PROVE ChatInv'
<1>1. crawl \in Crawls /\ NumbersInOrder /\ ChatOfLength \in Nat
  BY SizeOfChat DEF ChatInv
<1>2. source' = source /\ source # "bot" /\ seq' = seq /\ next' = next
  BY DEF ChatOf!StartCrawl
<1>3. PICK k \in 0..ChatOfLength : ChatOf!Stored = 1..k
  BY <1>2 DEF ChatInv, CrawledUpTo
<1>4. ChatOf!FirstFrom(ChatOf!ResumeAt) \in 1..(ChatOfLength + 1) /\ ChatOf!FirstFrom(ChatOf!ResumeAt) <= k + 1
  BY <1>3, BeginsThere
<1>5. crawl' = [step |-> "crawling", at |-> ChatOf!FirstFrom(ChatOf!ResumeAt), rows |-> <<>>, runs |-> crawl.runs + 1]
  <2>1. crawl' = [crawl EXCEPT !.step = "crawling", !.at = ChatOf!FirstFrom(ChatOf!ResumeAt), !.rows = <<>>, !.runs = @ + 1]
    BY DEF ChatOf!StartCrawl
  <2>2. QED BY <1>1, <2>1 DEF Crawls
<1>6. crawl' \in Crawls
  BY <1>1, <1>4, <1>5 DEF Crawls
<1>7. HoldsFrom(crawl'.rows, crawl'.at, k)
  BY <1>1, <1>4, <1>5 DEF HoldsFrom
<1>8. ChatOf!Stored' = ChatOf!Stored /\ NumbersInOrder'
  BY <1>1, <1>2 DEF NumbersInOrder, ChatOf!Stored
<1>9. (CrawledUpTo(k))'
  BY <1>3, <1>5, <1>7, <1>8 DEF CrawledUpTo
<1>10. QED BY <1>2, <1>6, <1>8, <1>9 DEF ChatInv

LEMMA Joined ==
  ASSUME NEW s \in Seq(Nat), NEW t \in Seq(Nat)
  PROVE  /\ s \o t \in Seq(Nat) /\ Len(s \o t) = Len(s) + Len(t)
         /\ \A i \in 1..Len(s) : (s \o t)[i] = s[i]
         /\ \A i \in 1..Len(t) : (s \o t)[Len(s) + i] = t[i]
OBVIOUS

LEMMA Shifted ==
  ASSUME NEW at \in Nat, NEW a \in Nat, NEW n \in Nat, NEW i \in Int, at = a + n
  PROVE  (at + (i - n)) - 1 = (a + i) - 1
OBVIOUS

LEMMA PageIs ==
  ASSUME NEW at \in Nat, at > 0, NEW n \in Nat
  PROVE  /\ [i \in 1..n |-> (at + i) - 1] \in Seq(Nat) /\ Len([i \in 1..n |-> (at + i) - 1]) = n
         /\ \A i \in 1..n : [j \in 1..n |-> (at + j) - 1][i] = (at + i) - 1
<1>1. [i \in 1..n |-> (at + i) - 1] \in [1..n -> Nat]
  OBVIOUS
<1>2. QED BY <1>1

LEMMA CrawlPageKeeps == ASSUME ChatOf!ChatAssumption, ChatInv, ChatOf!CrawlPage PROVE ChatInv'
<1> DEFINE last == ChatOf!Smaller((crawl.at + TwitchPage) - 1, Len(Offsets))
           page == [i \in 1..((last - crawl.at) + 1) |-> (crawl.at + i) - 1]
           rows == crawl.rows \o page
           full == Len(rows) >= CHAT_BATCH
           more == last < Len(Offsets)
           a == crawl.at - Len(crawl.rows)
<1>1. crawl \in Crawls /\ NumbersInOrder /\ ChatOfLength \in Nat /\ Len(Offsets) = ChatOfLength /\ TwitchPage \in Nat /\ TwitchPage > 0
  BY SizeOfChat DEF ChatInv, ChatOfLength, ChatOf!ChatAssumption
<1>2. crawl.step = "crawling" /\ source' = source
  BY DEF ChatOf!CrawlPage
<1>3. source # "bot"
  BY <1>2 DEF ChatInv
<1>4. PICK k \in 0..ChatOfLength : CrawledUpTo(k)
  BY <1>3 DEF ChatInv
<1>5. ChatOf!Stored = 1..k /\ HoldsFrom(crawl.rows, crawl.at, k)
  BY <1>2, <1>4 DEF CrawledUpTo
<1>6. /\ crawl.at \in 1..(ChatOfLength + 1) /\ crawl.at \in Nat /\ crawl.at > 0 /\ crawl.rows \in Seq(Nat) /\ Len(crawl.rows) \in Nat /\ a \in Nat /\ a > 0 /\ a <= k + 1
      /\ crawl.at = a + Len(crawl.rows) /\ \A i \in 1..Len(crawl.rows) : crawl.rows[i] = (a + i) - 1
  <2>1. /\ crawl.at \in 1..(ChatOfLength + 1) /\ crawl.rows \in Seq(Nat) /\ Len(crawl.rows) < crawl.at
        /\ crawl.at - Len(crawl.rows) <= k + 1
        /\ \A i \in 1..Len(crawl.rows) : crawl.rows[i] = ((crawl.at - Len(crawl.rows)) + i) - 1
    BY <1>5 DEF HoldsFrom
  <2>2. crawl.at \in Nat /\ crawl.at > 0 /\ Len(crawl.rows) \in Nat
    BY <1>1, <2>1
  <2>3. a \in Nat /\ a > 0 /\ a <= k + 1 /\ crawl.at = a + Len(crawl.rows)
    BY <2>1, <2>2
  <2>4. QED BY <2>1, <2>2, <2>3
<1> HIDE DEF a
<1>7. last \in Nat /\ last <= ChatOfLength /\ last + 1 >= crawl.at /\ (last - crawl.at) + 1 \in Nat
  BY <1>1, <1>6 DEF ChatOf!Smaller
<1> HIDE DEF last
<1>8. page \in Seq(Nat) /\ Len(page) = (last - crawl.at) + 1 /\ \A i \in 1..Len(page) : page[i] = (crawl.at + i) - 1
  <2>1. /\ page \in Seq(Nat) /\ Len(page) = (last - crawl.at) + 1
        /\ \A i \in 1..((last - crawl.at) + 1) : page[i] = (crawl.at + i) - 1
    BY <1>6, <1>7, PageIs
  <2>2. QED BY <2>1
<1> HIDE DEF page
<1>9. /\ rows \in Seq(Nat) /\ Len(rows) = Len(crawl.rows) + Len(page)
      /\ \A i \in 1..Len(crawl.rows) : rows[i] = crawl.rows[i]
      /\ \A i \in 1..Len(page) : rows[Len(crawl.rows) + i] = page[i]
  BY <1>6, <1>8, Joined
<1> HIDE DEF rows
<1>10. \A i \in 1..Len(rows) : rows[i] = (a + i) - 1
  <2>1. SUFFICES ASSUME NEW i \in 1..Len(rows) PROVE rows[i] = (a + i) - 1
    OBVIOUS
  <2>2. CASE i <= Len(crawl.rows)
    <3>1. i \in 1..Len(crawl.rows)
      BY <1>6, <2>2
    <3>2. QED BY <1>6, <1>9, <3>1
  <2>3. CASE i > Len(crawl.rows)
    <3>1. i - Len(crawl.rows) \in 1..Len(page) /\ Len(crawl.rows) + (i - Len(crawl.rows)) = i
      BY <1>6, <1>7, <1>8, <1>9, <2>3
    <3>2. rows[i] = page[i - Len(crawl.rows)]
      BY <1>9, <3>1
    <3>3. page[i - Len(crawl.rows)] = (crawl.at + (i - Len(crawl.rows))) - 1
      BY <1>8, <3>1
    <3>4. i \in Int /\ Len(crawl.rows) \in Nat /\ a \in Nat /\ crawl.at = a + Len(crawl.rows) /\ crawl.at \in Nat
      BY <1>6, <1>9
    <3>5. (crawl.at + (i - Len(crawl.rows))) - 1 = (a + i) - 1
      BY <3>4, Shifted
    <3>6. QED BY <3>2, <3>3, <3>5
  <2>4. QED BY <1>6, <1>9, <2>2, <2>3
<1>11. (a + Len(rows)) - 1 = last
  BY <1>6, <1>7, <1>8, <1>9
<1>12. /\ IF full \/ ~more THEN ChatOf!Inserted(rows) ELSE UNCHANGED <<seq, next>>
       /\ crawl' = [crawl EXCEPT !.step = IF more THEN "crawling" ELSE "done", !.at = last + 1,
                                 !.rows = IF full THEN <<>> ELSE rows]
  BY DEF ChatOf!CrawlPage, last, page, rows
<1>13. crawl' = [step |-> IF more THEN "crawling" ELSE "done", at |-> last + 1, rows |-> IF full THEN <<>> ELSE rows,
                 runs |-> crawl.runs]
  BY <1>1, <1>12, ZenonT(30) DEF Crawls
<1>14. crawl' \in Crawls
  <2>1. last + 1 \in Nat /\ (IF full THEN <<>> ELSE rows) \in Seq(Nat) /\ crawl.runs \in Nat
        /\ (IF more THEN "crawling" ELSE "done") \in {"idle", "crawling", "failed", "done"}
    BY <1>1, <1>7, <1>9 DEF Crawls
  <2>2. QED BY <1>13, <2>1 DEF Crawls
<1>15. crawl'.step = (IF more THEN "crawling" ELSE "done") /\ crawl'.at = last + 1 /\ crawl'.rows = (IF full THEN <<>> ELSE rows)
  BY <1>13
<1> HIDE DEF full, more
<1>16. \E m \in 0..ChatOfLength : NumbersInOrder' /\ ChatOf!Stored' = 1..m /\ m >= k /\ (full \/ ~more => m >= last)
  <2>1. CASE full \/ ~more
    <3>1. ChatOf!Inserted(rows)
      BY <1>12, <2>1
    <3>2. a \in Nat /\ a > 0 /\ a <= k + 1
      BY <1>6
    <3>3. NumbersInOrder' /\ \E m \in 0..ChatOfLength : ChatOf!Stored' = 1..m /\ m >= (a + Len(rows)) - 1 /\ m >= k
      BY <1>1, <1>5, <1>7, <1>9, <1>10, <1>11, <3>1, <3>2, InsertKeeps
    <3>4. QED BY <1>11, <3>3
  <2>2. CASE ~(full \/ ~more)
    <3>1. seq' = seq /\ next' = next
      BY <1>12, <2>2
    <3>2. NumbersInOrder' /\ ChatOf!Stored' = 1..k
      BY <1>1, <1>5, <3>1 DEF NumbersInOrder, ChatOf!Stored
    <3>3. QED BY <1>4, <2>2, <3>2
  <2>3. QED BY <2>1, <2>2
<1>17. PICK m \in 0..ChatOfLength : NumbersInOrder' /\ ChatOf!Stored' = 1..m /\ m >= k /\ (full \/ ~more => m >= last)
  BY <1>16
<1>18. more => HoldsFrom(crawl'.rows, crawl'.at, m)
  <2>1. CASE more /\ full
    <3>1. crawl'.rows = <<>> /\ crawl'.at = last + 1 /\ last < ChatOfLength
      BY <1>1, <1>15, <2>1 DEF more
    <3>2. QED BY <1>1, <1>7, <1>17, <2>1, <3>1 DEF HoldsFrom
  <2>2. CASE more /\ ~full
    <3>1. crawl'.rows = rows /\ crawl'.at = last + 1 /\ last < ChatOfLength
      BY <1>1, <1>15, <2>2 DEF more
    <3>2. a \in Nat /\ a > 0 /\ a <= m + 1 /\ Len(rows) \in Nat /\ (last + 1) - Len(rows) = a
      <4>1. Len(rows) \in Nat /\ (a + Len(rows)) - 1 = last
        BY <1>9, <1>11
      <4>2. k \in Nat /\ m \in Nat /\ a \in Nat /\ a > 0 /\ a <= k + 1 /\ m >= k
        BY <1>1, <1>4, <1>6, <1>17
      <4>3. QED BY <1>7, <4>1, <4>2
    <3>3. last + 1 \in 1..(ChatOfLength + 1) /\ Len(rows) < last + 1 /\ (last + 1) - Len(rows) <= m + 1
      BY <1>1, <1>7, <1>17, <3>1, <3>2
    <3>4. \A i \in 1..Len(rows) : rows[i] = (((last + 1) - Len(rows)) + i) - 1
      BY <1>10, <3>2
    <3>5. QED BY <1>9, <3>1, <3>3, <3>4 DEF HoldsFrom
  <2>3. QED BY <2>1, <2>2
<1>19. ~more => m = ChatOfLength
  BY <1>1, <1>7, <1>17 DEF more
<1>20. (CrawledUpTo(m))'
  <2>1. crawl'.step = "crawling" => more
    BY <1>15
  <2>2. crawl'.step = "done" => ~more
    BY <1>15
  <2>3. QED BY <1>17, <1>18, <1>19, <2>1, <2>2 DEF CrawledUpTo, HoldsFrom, ChatOfLength
<1>21. QED BY <1>2, <1>3, <1>14, <1>17, <1>20 DEF ChatInv, ChatOfLength

LEMMA CrawlFailsKeeps == ASSUME ChatInv, ChatOf!CrawlFails PROVE ChatInv'
<1>1. crawl \in Crawls /\ source' = source /\ seq' = seq /\ next' = next /\ source # "bot"
  BY DEF ChatInv, ChatOf!CrawlFails
<1>2. crawl' = [step |-> "failed", at |-> crawl.at, rows |-> <<>>, runs |-> crawl.runs]
  BY <1>1 DEF ChatOf!CrawlFails, Crawls
<1>3. crawl' \in Crawls
  BY <1>1, <1>2 DEF Crawls
<1>4. NumbersInOrder' /\ ChatOf!Stored' = ChatOf!Stored
  BY <1>1 DEF ChatInv, NumbersInOrder, ChatOf!Stored
<1>5. PICK k \in 0..ChatOfLength : CrawledUpTo(k)
  BY <1>1 DEF ChatInv
<1>6. (CrawledUpTo(k))'
  BY <1>2, <1>4, <1>5 DEF CrawledUpTo
<1>7. QED BY <1>1, <1>3, <1>4, <1>6 DEF ChatInv

----------------------------------------------------------------------------
(* The bot's log: however many of its comments are new.                      *)

\* The comments of a set that come before one.
LEMMA Counted ==
  ASSUME ChatOf!ChatAssumption, NEW S \in SUBSET ChatOf!Comments
  PROVE  /\ Cardinality(S) \in Nat
         /\ \A c : Cardinality({d \in S : d < c}) \in Nat /\ Cardinality({d \in S : d < c}) <= Cardinality(S)
         /\ \A c \in S : Cardinality({d \in S : d < c}) < Cardinality(S)
         /\ \A c, e \in S : c < e => Cardinality({d \in S : d < c}) < Cardinality({d \in S : d < e})
<1>1. ChatOfLength \in Nat /\ ChatOf!Comments = 1..ChatOfLength
  BY SizeOfChat
<1>2. IsFiniteSet(S)
  <2>1. IsFiniteSet(1..ChatOfLength)
    BY <1>1, FS_Interval
  <2>2. QED BY <1>1, <2>1, FS_Subset
<1>3. ASSUME NEW A \in SUBSET S, NEW B \in SUBSET S, A \subseteq B
      PROVE  Cardinality(A) \in Nat /\ Cardinality(B) \in Nat /\ Cardinality(A) <= Cardinality(B)
             /\ (A # B => Cardinality(A) < Cardinality(B))
  <2>1. IsFiniteSet(B)
    BY <1>2, FS_Subset
  <2>2. IsFiniteSet(A)
    BY <1>2, FS_Subset
  <2>3. Cardinality(A) \in Nat /\ Cardinality(B) \in Nat
    BY <2>1, <2>2, FS_CardinalityType
  <2>4. Cardinality(A) <= Cardinality(B) /\ (Cardinality(A) = Cardinality(B) => A = B)
    BY <1>3, <2>1, FS_Subset
  <2>5. QED BY <2>3, <2>4
<1>4. ASSUME NEW c PROVE {d \in S : d < c} \in SUBSET S
  OBVIOUS
<1>5. ASSUME NEW c PROVE Cardinality({d \in S : d < c}) \in Nat /\ Cardinality({d \in S : d < c}) <= Cardinality(S)
  BY <1>3, <1>4
<1>6. ASSUME NEW c \in S PROVE Cardinality({d \in S : d < c}) < Cardinality(S)
  <2>1. c \notin {d \in S : d < c}
    BY <1>1
  <2>2. QED BY <1>3, <1>4, <2>1
<1>7. ASSUME NEW c \in S, NEW e \in S, c < e
      PROVE  Cardinality({d \in S : d < c}) < Cardinality({d \in S : d < e})
  <2>1. c \notin {d \in S : d < c} /\ c \in {d \in S : d < e}
    BY <1>1, <1>7
  <2>2. ASSUME NEW d \in S, d < c PROVE d < e
    <3>1. c \in Int /\ d \in Int /\ e \in Int
      BY <1>1
    <3>2. QED BY <1>7, <2>2, <3>1
  <2>3. QED BY <1>3, <1>4, <2>1, <2>2
<1>8. QED BY <1>2, <1>5, <1>6, <1>7, FS_CardinalityType

LEMMA BotReadKeeps == ASSUME ChatOf!ChatAssumption, ChatInv, ChatOf!BotRead PROVE ChatInv'
<1>1. crawl \in Crawls /\ NumbersInOrder /\ source' = source /\ source = "bot" /\ crawl.step = "idle" /\ next \in Nat /\ next > 0
  BY DEF ChatInv, ChatOf!BotRead, NumbersInOrder
<1>2. PICK has \in SUBSET ChatOf!Comments :
        LET new == has \ ChatOf!Stored
            all == ChatOf!Stored \cup new
            fresh == [c \in all |-> IF c \in ChatOf!Stored THEN seq[c] ELSE next + Cardinality({d \in new : d < c})]
            ordered == \A c, d \in all : c < d => fresh[c] < fresh[d]
        IN  /\ seq' = IF ordered THEN fresh ELSE ChatOf!Numbered(all, next + Cardinality(new))
            /\ next' = next + Cardinality(new) + IF ordered THEN 0 ELSE Cardinality(all)
            /\ crawl' = [crawl EXCEPT !.runs = @ + 1]
  BY DEF ChatOf!BotRead, ChatOf!Cardinality, Cardinality, ChatOf!IsFiniteSet, IsFiniteSet
<1> DEFINE new == has \ ChatOf!Stored
           all == ChatOf!Stored \cup new
           fresh == [c \in all |-> IF c \in ChatOf!Stored THEN seq[c] ELSE next + Cardinality({d \in new : d < c})]
           ordered == \A c, d \in all : c < d => fresh[c] < fresh[d]
<1>3. /\ seq' = IF ordered THEN fresh ELSE ChatOf!Numbered(all, next + Cardinality(new))
      /\ next' = next + Cardinality(new) + IF ordered THEN 0 ELSE Cardinality(all)
      /\ crawl' = [crawl EXCEPT !.runs = @ + 1]
  BY <1>2
<1>4. new \in SUBSET ChatOf!Comments /\ all \in SUBSET ChatOf!Comments
  BY <1>1 DEF NumbersInOrder
<1>5. Cardinality(new) \in Nat /\ Cardinality(all) \in Nat
  BY <1>4, Counted
<1>6. crawl' = [step |-> crawl.step, at |-> crawl.at, rows |-> crawl.rows, runs |-> crawl.runs + 1]
  BY <1>1, <1>3 DEF Crawls
<1>7. crawl' \in Crawls /\ crawl'.step = "idle"
  BY <1>1, <1>6 DEF Crawls
<1>8. CASE ordered
  <2>1. seq' = fresh /\ next' = next + Cardinality(new)
    <3>1. seq' = fresh /\ next' = next + Cardinality(new) + 0
      BY <1>3, <1>8
    <3>2. QED BY <1>1, <1>5, <3>1
  <2>2. ChatOf!Stored' = all
    BY <2>1 DEF ChatOf!Stored
  <2>3. ASSUME NEW c \in all PROVE seq'[c] \in 1..(next' - 1)
    <3>1. CASE c \in ChatOf!Stored
      <4>1. seq'[c] = seq[c] /\ seq[c] \in 1..(next - 1)
        BY <1>1, <2>1, <3>1 DEF NumbersInOrder
      <4>2. QED BY <1>1, <1>5, <2>1, <4>1
    <3>2. CASE c \notin ChatOf!Stored
      <4>1. c \in new /\ seq'[c] = next + Cardinality({d \in new : d < c})
        BY <2>1, <3>2
      <4>2. Cardinality({d \in new : d < c}) \in Nat /\ Cardinality({d \in new : d < c}) < Cardinality(new)
        BY <1>4, <4>1, Counted
      <4>3. QED BY <1>1, <1>5, <2>1, <4>1, <4>2
    <3>3. QED BY <3>1, <3>2
  <2>4. NumbersInOrder'
    <3>1. \A c, d \in all : c < d => seq'[c] < seq'[d]
      BY <1>8, <2>1
    <3>2. next' \in Nat \ {0}
      BY <1>1, <1>5, <2>1
    <3>3. QED BY <1>4, <2>2, <2>3, <3>1, <3>2 DEF NumbersInOrder, ChatOf!Comments
  <2>5. QED BY <1>1, <1>7, <2>4 DEF ChatInv
<1>9. CASE ~ordered
  <2> DEFINE from == next + Cardinality(new)
  <2>1. seq' = [c \in all |-> from + Cardinality({d \in all : d < c})] /\ next' = from + Cardinality(all)
    BY <1>3, <1>9 DEF ChatOf!Numbered, ChatOf!Cardinality, Cardinality, ChatOf!IsFiniteSet, IsFiniteSet
  <2>2. ChatOf!Stored' = all /\ from \in Nat /\ from > 0
    BY <1>1, <1>5, <2>1 DEF ChatOf!Stored
  <2> HIDE DEF from
  <2>3. ASSUME NEW c \in all PROVE seq'[c] \in 1..(next' - 1)
    <3>1. seq'[c] = from + Cardinality({d \in all : d < c})
      BY <2>1
    <3>2. Cardinality({d \in all : d < c}) \in Nat /\ Cardinality({d \in all : d < c}) < Cardinality(all)
      BY <1>4, Counted
    <3>3. QED BY <1>5, <2>1, <2>2, <3>1, <3>2
  <2>4. ASSUME NEW c \in all, NEW d \in all, c < d PROVE seq'[c] < seq'[d]
    <3>1. seq'[c] = from + Cardinality({e \in all : e < c}) /\ seq'[d] = from + Cardinality({e \in all : e < d})
      BY <2>1
    <3>2. Cardinality({e \in all : e < c}) \in Nat /\ Cardinality({e \in all : e < d}) \in Nat
          /\ Cardinality({e \in all : e < c}) < Cardinality({e \in all : e < d})
      BY <1>4, <2>4, Counted
    <3>3. QED BY <2>2, <3>1, <3>2
  <2>5. NumbersInOrder'
    <3>1. next' \in Nat \ {0}
      BY <1>5, <2>1, <2>2
    <3>2. QED BY <1>4, <2>2, <2>3, <2>4, <3>1 DEF NumbersInOrder, ChatOf!Comments
  <2>6. QED BY <1>1, <1>7, <2>5 DEF ChatInv
<1>10. QED BY <1>8, <1>9

----------------------------------------------------------------------------

LEMMA ChatOfInitInv == ASSUME ChatOf!ChatAssumption, ChatOf!Init PROVE ChatInv
<1>1. ChatOf!Stored = {} /\ next = 1 /\ crawl = ChatOf!NoCrawl /\ source \in {"replay", "bot"} /\ ChatOfLength \in Nat
  BY SizeOfChat DEF ChatOf!Init, ChatOf!Stored
<1>2. crawl = [step |-> "idle", at |-> 0, rows |-> <<>>, runs |-> 0]
  BY <1>1 DEF ChatOf!NoCrawl
<1>3. crawl \in Crawls
  BY <1>2 DEF Crawls
<1>4. 0 \in 0..ChatOfLength /\ CrawledUpTo(0)
  BY <1>1, <1>2 DEF CrawledUpTo
<1>5. QED BY <1>1, <1>2, <1>3, <1>4 DEF ChatInv, NumbersInOrder

LEMMA ChatStays == ASSUME ChatInv, UNCHANGED <<source, seq, next, crawl>> PROVE ChatInv'
BY DEF ChatInv, NumbersInOrder, CrawledUpTo, HoldsFrom, ChatOf!Stored

LEMMA ChatOfNextInv == ASSUME ChatOf!ChatAssumption, ChatInv, [ChatOf!Next]_(ChatOf!chatVars) PROVE ChatInv'
<1>1. CASE ChatOf!StartCrawl \/ ChatOf!CrawlPage \/ ChatOf!CrawlFails \/ ChatOf!BotRead
  BY <1>1, StartCrawlKeeps, CrawlPageKeeps, CrawlFailsKeeps, BotReadKeeps
<1>2. ASSUME NEW offset, ChatOf!Seek(offset) PROVE ChatInv'
  BY <1>2, ChatStays DEF ChatOf!Seek
<1>3. CASE ChatOf!Follow
  BY <1>3, ChatStays DEF ChatOf!Follow
<1>4. CASE ChatOf!Dropped
  BY <1>4, ChatStays DEF ChatOf!Dropped
<1>5. ASSUME NEW e, ChatOf!Expire(e) PROVE ChatInv'
  BY <1>5, ChatStays DEF ChatOf!Expire
<1>6. CASE UNCHANGED ChatOf!chatVars
  BY <1>6, ChatStays DEF ChatOf!chatVars
<1>7. QED BY <1>1, <1>2, <1>3, <1>4, <1>5, <1>6 DEF ChatOf!Next

LEMMA InvChat == ASSUME ChatInv PROVE ChatOf!ChatIsWhole
<1>1. ASSUME crawl.step = "done" PROVE ChatOf!Stored = ChatOf!Comments
  <2>1. source # "bot"
    BY <1>1 DEF ChatInv
  <2>2. PICK k \in 0..ChatOfLength : CrawledUpTo(k)
    BY <2>1 DEF ChatInv
  <2>3. ChatOf!Stored = 1..ChatOfLength
    BY <1>1, <2>2 DEF CrawledUpTo
  <2>4. QED BY <2>3 DEF ChatOf!Comments, ChatOfLength
<1>2. QED BY <1>1 DEF ChatOf!ChatIsWhole, ChatInv, NumbersInOrder

\* A chat of any length, crawled in pages and batches of any size, with attempts that fail anywhere, or read
\* from the bot's log again and again: a crawl that ends has stored all of it, and the rows are numbered in
\* time order (metadata.chat, bot_chat.read_vod).
THEOREM ChatIsStored == ASSUME ChatOf!ChatAssumption PROVE ChatOf!Spec => []ChatOf!ChatIsWhole
<1>1. ChatOf!Init => ChatInv
  BY ChatOfInitInv
<1>2. ChatInv /\ [ChatOf!Next]_(ChatOf!chatVars) => ChatInv'
  BY ChatOfNextInv
<1>3. ChatInv => ChatOf!ChatIsWhole
  BY InvChat
<1>4. QED BY <1>1, <1>2, <1>3, PTL DEF ChatOf!Spec

------------------------------------------------------------------------------
(* ApiCache.                                                                *)

VodVersions == [row : Nat, shown : BOOLEAN, chat : Nat, segments : Nat]

CacheTypes ==
  /\ cacheRows \in [Cache!Vods -> VodVersions] /\ key \in Cache!Keys /\ notices \in Seq({"changed", "moved"} \X Cache!Vods)
  /\ render = [step |-> render.step, body |-> render.body, passed |-> render.passed]

\* A response that says what its rows say.
SaysRows(body) == ~Cache!Missing(key) /\ body[1] = Cache!Body(key)

\* So does one that is rendered and not cached yet, unless an invalidation passed it.
CacheInv ==
  /\ CacheTypes
  /\ Cache!Heard => /\ cached # None => outdated \/ SaysRows(cached)
                    /\ render.step = "read" => render.passed \/ SaysRows(render.body)

----------------------------------------------------------------------------
(* What a response is made of, and which notice is sent for it.             *)

LEMMA KeyIs ==
  ASSUME Cache!CacheAssumption, CacheTypes
  PROVE  \/ key \in {<<"vods?", Cache!NoVod>>, <<"games", Cache!NoVod>>} /\ key[2] \notin Cache!Vods
         \/ key[1] \in {"vods/", "emotes", "chat"} /\ key[2] \in Cache!Vods /\ key = <<key[1], key[2]>>
BY DEF Cache!CacheAssumption, CacheTypes, Cache!Keys

\* The responses of lists are dropped by any change.
IsList == key \in {<<"vods?", Cache!NoVod>>, <<"games", Cache!NoVod>>}

Stays == Cache!Missing(key)' = Cache!Missing(key) /\ Cache!Body(key)' = Cache!Body(key)

LEMMA SameOwn ==
  ASSUME NEW v, cacheRows'[v].row = cacheRows[v].row, cacheRows'[v].segments = cacheRows[v].segments,
         \A u \in Cache!MadeOf(v) : cacheRows'[u].row = cacheRows[u].row,
         \A s \in Cache!MadeFrom(v) : cacheRows'[s].segments = cacheRows[s].segments
  PROVE  Cache!OwnAndSources(v)' = Cache!OwnAndSources(v)
<1>1. Cache!MadeOf(v)' = Cache!MadeOf(v) /\ Cache!MadeFrom(v)' = Cache!MadeFrom(v)
  BY DEF Cache!MadeOf, Cache!MadeFrom
<1>2. [u \in Cache!MadeOf(v) |-> cacheRows'[u].row] = [u \in Cache!MadeOf(v) |-> cacheRows[u].row]
  OBVIOUS
<1>3. [s \in Cache!MadeFrom(v) |-> cacheRows'[s].segments] = [s \in Cache!MadeFrom(v) |-> cacheRows[s].segments]
  OBVIOUS
<1>4. QED BY <1>1, <1>2, <1>3 DEF Cache!OwnAndSources

\* A response of one VOD stays what it says when what it is made of does.
LEMMA SameBody ==
  ASSUME Cache!CacheAssumption, CacheTypes, key' = key, ~IsList, cacheRows'[key[2]].shown = cacheRows[key[2]].shown,
         key[1] = "vods/" => /\ cacheRows'[key[2]].row = cacheRows[key[2]].row /\ cacheRows'[key[2]].segments = cacheRows[key[2]].segments
                             /\ \A u \in Cache!MadeOf(key[2]) : cacheRows'[u].row = cacheRows[u].row
                             /\ \A s \in Cache!MadeFrom(key[2]) : cacheRows'[s].segments = cacheRows[s].segments,
         key[1] \in {"emotes", "chat"} => cacheRows'[key[2]].chat = cacheRows[key[2]].chat,
         key[1] = "chat" => cacheRows'[key[2]].segments = cacheRows[key[2]].segments
  PROVE  Stays
<1>1. key[1] \in {"vods/", "emotes", "chat"}
  BY KeyIs DEF IsList
<1>2. Cache!Missing(key)' = Cache!Missing(key)
  BY DEF Cache!Missing, Cache!Vods, Cache!SyntheticVods
<1>3. CASE key[1] = "vods/"
  <2>1. Cache!OwnAndSources(key[2])' = Cache!OwnAndSources(key[2])
    <3>1. PICK v : v = key[2]
      OBVIOUS
    <3>2. Cache!OwnAndSources(v)' = Cache!OwnAndSources(v)
      BY <1>3, <3>1, SameOwn
    <3>3. QED BY <3>1, <3>2
  <2>2. QED BY <1>2, <1>3, <2>1 DEF Stays, Cache!Body
<1>4. CASE key[1] = "emotes"
  BY <1>2, <1>4 DEF Stays, Cache!Body
<1>5. CASE key[1] = "chat"
  BY <1>2, <1>5 DEF Stays, Cache!Body
<1>6. QED BY <1>1, <1>3, <1>4, <1>5

\* A commit that changes what a response says sends a notice that drops it.
LEMMA CommitKeeps ==
  ASSUME CacheInv, NEW new \in [Cache!Vods -> VodVersions], NEW sent \in Seq({"changed", "moved"} \X Cache!Vods), Cache!Commit(new, sent),
         Stays \/ \E i \in 1..Len(sent) : Cache!Drops(sent[i], key)
  PROVE  CacheInv'
<1>1. /\ cacheRows' = new /\ key' = key /\ cached' = cached /\ render' = render /\ outdated' = outdated /\ listener' = listener
      /\ notices' = IF listener = "down" THEN notices ELSE notices \o sent
  BY DEF Cache!Commit
<1>2. notices \in Seq({"changed", "moved"} \X Cache!Vods)
  BY DEF CacheInv, CacheTypes
<1>3. notices' \in Seq({"changed", "moved"} \X Cache!Vods)
  BY <1>1, <1>2
<1>4. CacheTypes'
  BY <1>1, <1>3 DEF CacheInv, CacheTypes, Cache!Vods, Cache!SyntheticVods, VodVersions, Cache!Keys
<1>5. ASSUME Cache!Heard' PROVE Cache!Heard /\ Stays
  <2>1. listener = "up" /\ notices' = notices \o sent
    BY <1>1, <1>5 DEF Cache!Heard
  <2>2. /\ DOMAIN notices' = 1..(Len(notices) + Len(sent)) /\ DOMAIN notices = 1..Len(notices)
        /\ Len(notices) \in Nat /\ Len(sent) \in Nat
        /\ \A i \in 1..Len(notices) : notices'[i] = notices[i]
        /\ \A i \in 1..Len(sent) : notices'[Len(notices) + i] = sent[i]
    BY <1>2, <2>1
  <2>3. \A i \in DOMAIN notices' : ~Cache!Drops(notices'[i], key)
    BY <1>1, <1>5 DEF Cache!Heard, Cache!Drops, Cache!SyntheticVods
  <2>4. \A i \in 1..Len(notices) : ~Cache!Drops(notices[i], key)
    <3>1. SUFFICES ASSUME NEW i \in 1..Len(notices) PROVE ~Cache!Drops(notices[i], key)
      OBVIOUS
    <3>2. i \in DOMAIN notices' /\ notices'[i] = notices[i]
      BY <2>2
    <3>3. QED BY <2>3, <3>2
  <2>5. \A i \in 1..Len(sent) : ~Cache!Drops(sent[i], key)
    <3>1. SUFFICES ASSUME NEW i \in 1..Len(sent) PROVE ~Cache!Drops(sent[i], key)
      OBVIOUS
    <3>2. Len(notices) + i \in DOMAIN notices' /\ notices'[Len(notices) + i] = sent[i]
      BY <2>2
    <3>3. QED BY <2>3, <3>2
  <2>6. QED BY <2>1, <2>2, <2>4, <2>5 DEF Cache!Heard
<1>6. ASSUME Stays, NEW body, SaysRows(body) PROVE SaysRows(body)'
  BY <1>1, <1>6 DEF SaysRows, Stays
<1>7. QED BY <1>1, <1>4, <1>5, <1>6 DEF CacheInv

----------------------------------------------------------------------------
(* The writes.                                                              *)

LEMMA ListsDropped == ASSUME IsList, NEW v PROVE Cache!Drops(<<"changed", v>>, key)
BY DEF IsList, Cache!Drops

\* A VOD of which nothing was changed but the row.
LEMMA RowTold ==
  ASSUME Cache!CacheAssumption, CacheTypes, key' = key, NEW v \in Cache!Vods, NEW row \in Nat, cacheRows' = [cacheRows EXCEPT ![v].row = row]
  PROVE  Stays \/ Cache!Drops(<<"changed", v>>, key)
<1>1. SUFFICES ASSUME ~Cache!Drops(<<"changed", v>>, key) PROVE Stays
  OBVIOUS
<1>2. ~IsList
  BY <1>1, ListsDropped
<1>3. key[1] \in {"vods/", "emotes", "chat"} /\ key[2] \in Cache!Vods /\ key = <<key[1], key[2]>>
  BY <1>2, KeyIs DEF IsList
<1>4. cacheRows \in [Cache!Vods -> VodVersions]
  BY DEF CacheTypes
<1>5. \A u \in Cache!Vods : /\ cacheRows'[u].shown = cacheRows[u].shown /\ cacheRows'[u].chat = cacheRows[u].chat /\ cacheRows'[u].segments = cacheRows[u].segments
                            /\ u # v => cacheRows'[u].row = cacheRows[u].row
  BY <1>4 DEF VodVersions
<1>6. key[1] = "vods/" => key[2] # v /\ key[2] \notin Cache!SyntheticVods
  BY <1>1, <1>3 DEF Cache!Drops
<1>7. key[1] = "vods/" => Cache!MadeOf(key[2]) = {} /\ Cache!MadeFrom(key[2]) \subseteq Cache!Vods
  BY <1>6 DEF Cache!MadeOf, Cache!MadeFrom, Cache!Vods
<1>8. QED BY <1>2, <1>3, <1>5, <1>6, <1>7, SameBody

LEMMA WriteRowKeeps == ASSUME Cache!CacheAssumption, CacheInv, NEW v \in Cache!Vods, Cache!WriteRow(v) PROVE CacheInv'
<1> DEFINE new == [cacheRows EXCEPT ![v].row = @ + 1]
           sent == <<<<"changed", v>>>>
<1>1. Cache!Commit(new, sent)
  BY DEF Cache!WriteRow
<1>2. cacheRows \in [Cache!Vods -> VodVersions] /\ CacheTypes
  BY DEF CacheInv, CacheTypes
<1>3. cacheRows[v].row + 1 \in Nat /\ new = [cacheRows EXCEPT ![v].row = cacheRows[v].row + 1]
  BY <1>2 DEF VodVersions
<1>4. new \in [Cache!Vods -> VodVersions] /\ sent \in Seq({"changed", "moved"} \X Cache!Vods) /\ Len(sent) = 1 /\ sent[1] = <<"changed", v>>
  BY <1>2, <1>3 DEF VodVersions
<1>5. cacheRows' = new /\ key' = key
  BY <1>1 DEF Cache!Commit
<1>6. Stays \/ Cache!Drops(<<"changed", v>>, key)
  BY <1>2, <1>3, <1>5, RowTold
<1> HIDE DEF new, sent
<1>7. Stays \/ \E i \in 1..Len(sent) : Cache!Drops(sent[i], key)
  BY <1>4, <1>6
<1>8. QED BY <1>1, <1>4, <1>7, CommitKeeps

LEMMA HideKeeps == ASSUME Cache!CacheAssumption, CacheInv, NEW v \in Cache!Vods, Cache!Hide(v) PROVE CacheInv'
<1> DEFINE new == [cacheRows EXCEPT ![v].shown = ~@]
           sent == <<<<"moved", v>>, <<"changed", v>>>>
<1>1. Cache!Commit(new, sent)
  BY DEF Cache!Hide
<1>2. cacheRows \in [Cache!Vods -> VodVersions] /\ CacheTypes
  BY DEF CacheInv, CacheTypes
<1>3. new \in [Cache!Vods -> VodVersions]
  BY <1>2 DEF VodVersions
<1>4. sent \in Seq({"changed", "moved"} \X Cache!Vods) /\ Len(sent) = 2 /\ sent[1] = <<"moved", v>> /\ sent[2] = <<"changed", v>>
  OBVIOUS
<1>5. cacheRows' = new /\ key' = key
  BY <1>1 DEF Cache!Commit
<1>6. \A u \in Cache!Vods : /\ cacheRows'[u].row = cacheRows[u].row /\ cacheRows'[u].chat = cacheRows[u].chat /\ cacheRows'[u].segments = cacheRows[u].segments
                            /\ u # v => cacheRows'[u].shown = cacheRows[u].shown
  BY <1>2, <1>5 DEF VodVersions
<1>7. Stays \/ Cache!Drops(<<"changed", v>>, key) \/ Cache!Drops(<<"moved", v>>, key)
  <2>1. SUFFICES ASSUME ~Cache!Drops(<<"changed", v>>, key), ~Cache!Drops(<<"moved", v>>, key) PROVE Stays
    OBVIOUS
  <2>2. ~IsList
    BY <2>1, ListsDropped
  <2>3. key[1] \in {"vods/", "emotes", "chat"} /\ key[2] \in Cache!Vods /\ key = <<key[1], key[2]>>
    BY <1>2, <2>2, KeyIs DEF IsList
  <2>4. key[2] # v
    BY <2>1, <2>3 DEF Cache!Drops
  <2>5. Cache!MadeOf(key[2]) \subseteq Cache!Vods /\ Cache!MadeFrom(key[2]) \subseteq Cache!Vods
    BY DEF Cache!MadeOf, Cache!MadeFrom, Cache!Vods, Cache!CacheAssumption
  <2>6. QED BY <1>2, <1>5, <1>6, <2>2, <2>3, <2>4, <2>5, SameBody
<1> HIDE DEF new, sent
<1>8. Stays \/ \E i \in 1..Len(sent) : Cache!Drops(sent[i], key)
  <2>1. 1 \in 1..Len(sent) /\ 2 \in 1..Len(sent)
    BY <1>4
  <2>2. Cache!Drops(<<"changed", v>>, key) => Cache!Drops(sent[2], key)
    BY <1>4
  <2>3. Cache!Drops(<<"moved", v>>, key) => Cache!Drops(sent[1], key)
    BY <1>4
  <2>4. QED BY <1>7, <2>1, <2>2, <2>3
<1>9. QED BY <1>1, <1>3, <1>4, <1>8, CommitKeeps

LEMMA SameLists ==
  ASSUME Cache!CacheAssumption, CacheTypes, key' = key, IsList,
         \A u \in Cache!Vods : cacheRows'[u].row = cacheRows[u].row /\ cacheRows'[u].segments = cacheRows[u].segments /\ cacheRows'[u].shown = cacheRows[u].shown
  PROVE  Stays
<1>1. key[2] \notin Cache!Vods /\ key[1] \in {"vods?", "games"}
  BY KeyIs DEF IsList, Cache!CacheAssumption
<1>2. Cache!Vods' = Cache!Vods /\ {u \in Cache!Vods : cacheRows'[u].shown} = {u \in Cache!Vods : cacheRows[u].shown}
  BY DEF Cache!Vods, Cache!SyntheticVods
<1>3. ASSUME NEW v \in Cache!Vods PROVE Cache!OwnAndSources(v)' = Cache!OwnAndSources(v)
  <2>1. Cache!MadeOf(v) \subseteq Cache!Vods /\ Cache!MadeFrom(v) \subseteq Cache!Vods
    BY DEF Cache!MadeOf, Cache!MadeFrom, Cache!Vods, Cache!CacheAssumption
  <2>2. QED BY <2>1, SameOwn
<1>4. Cache!Body(key)' = [v \in {u \in Cache!Vods : cacheRows'[u].shown} |-> Cache!OwnAndSources(v)']
  BY <1>1, <1>2 DEF Cache!Body
<1>5. Cache!Body(key) = [v \in {u \in Cache!Vods : cacheRows[u].shown} |-> Cache!OwnAndSources(v)]
  BY <1>1 DEF Cache!Body
<1>6. Cache!Body(key)' = Cache!Body(key)
  BY <1>2, <1>3, <1>4, <1>5
<1>7. Cache!Missing(key)' = Cache!Missing(key)
  BY <1>1 DEF Cache!Missing, Cache!Vods, Cache!SyntheticVods
<1>8. QED BY <1>6, <1>7 DEF Stays

LEMMA MoveRowsKeeps == ASSUME Cache!CacheAssumption, CacheInv, NEW v \in Cache!Vods, Cache!MoveRows(v) PROVE CacheInv'
<1> DEFINE new == [cacheRows EXCEPT ![v].chat = @ + 1]
           sent == <<<<"moved", v>>>>
<1>1. Cache!Commit(new, sent)
  BY DEF Cache!MoveRows
<1>2. cacheRows \in [Cache!Vods -> VodVersions] /\ CacheTypes
  BY DEF CacheInv, CacheTypes
<1>3. new \in [Cache!Vods -> VodVersions] /\ sent \in Seq({"changed", "moved"} \X Cache!Vods) /\ Len(sent) = 1 /\ sent[1] = <<"moved", v>>
  BY <1>2 DEF VodVersions
<1>4. cacheRows' = new /\ key' = key
  BY <1>1 DEF Cache!Commit
<1>5. \A u \in Cache!Vods : /\ cacheRows'[u].row = cacheRows[u].row /\ cacheRows'[u].shown = cacheRows[u].shown /\ cacheRows'[u].segments = cacheRows[u].segments
                            /\ u # v => cacheRows'[u].chat = cacheRows[u].chat
  BY <1>2, <1>4 DEF VodVersions
<1>6. Cache!MadeOf(key[2]) \subseteq Cache!Vods /\ Cache!MadeFrom(key[2]) \subseteq Cache!Vods
  BY DEF Cache!MadeOf, Cache!MadeFrom, Cache!Vods, Cache!CacheAssumption
<1>7. Stays \/ Cache!Drops(<<"moved", v>>, key)
  <2>1. CASE IsList
    BY <1>2, <1>4, <1>5, <2>1, SameLists
  <2>2. CASE ~IsList /\ ~Cache!Drops(<<"moved", v>>, key)
    <3>1. key[1] \in {"vods/", "emotes", "chat"} /\ key[2] \in Cache!Vods /\ key = <<key[1], key[2]>>
      BY <1>2, <2>2, KeyIs DEF IsList
    <3>2. key[1] \in {"emotes", "chat"} => key[2] # v
      BY <2>2, <3>1 DEF Cache!Drops
    <3>3. QED BY <1>2, <1>4, <1>5, <1>6, <2>2, <3>1, <3>2, SameBody
  <2>3. QED BY <2>1, <2>2
<1> HIDE DEF new, sent
<1>8. Stays \/ \E i \in 1..Len(sent) : Cache!Drops(sent[i], key)
  BY <1>3, <1>7
<1>9. QED BY <1>1, <1>3, <1>8, CommitKeeps

\* Each source is told.
LEMMA EachOnce ==
  ASSUME NEW S, IsFiniteSet(S)
  PROVE  /\ Cache!SetToSeq(S) \in Seq(S)
         /\ \A x \in S : \E i \in 1..Len(Cache!SetToSeq(S)) : Cache!SetToSeq(S)[i] = x
<1> DEFINE n == Cardinality(S)
           f == Cache!SetToSeq(S)
<1>1. n \in Nat
  BY FS_CardinalityType
<1>2. \E g \in [1..n -> S] : IsInjective(g)
  BY FS_CardinalityType DEF ExistsBijection, Bijection, Injection
<1>3. f \in [1..n -> S] /\ IsInjective(f)
  BY <1>2 DEF Cache!SetToSeq, Cache!Cardinality, Cardinality, Cache!IsFiniteSet, IsFiniteSet, Cache!IsInjective, IsInjective
<1> HIDE DEF f, n
<1>4. f \in Injection(1..n, S)
  BY <1>3 DEF Injection
<1>5. IsFiniteSet(1..n) /\ Cardinality(1..n) = n
  BY <1>1, FS_Interval
<1>6. f \in Surjection(1..n, S)
  BY <1>4, <1>5, FS_Injection DEF n
<1>7. \A x \in S : \E i \in 1..n : f[i] = x
  BY <1>6 DEF Surjection
<1>8. f \in Seq(S) /\ Len(f) = n
  BY <1>1, <1>3
<1>9. QED BY <1>7, <1>8 DEF f

LEMMA ChangeSegmentsKeeps == ASSUME Cache!CacheAssumption, CacheInv, NEW s \in Cache!SyntheticVods, Cache!ChangeSegments(s) PROVE CacheInv'
<1> DEFINE ids == Cache!SetToSeq(SourcesOf[s])
           new == [cacheRows EXCEPT ![s].segments = @ + 1, ![s].row = @ + 1]
           told == [i \in DOMAIN ids |-> <<"changed", ids[i]>>]
           sent == Append(told, <<"changed", s>>)
<1>1. Cache!Commit(new, sent)
  BY DEF Cache!ChangeSegments
<1>2. cacheRows \in [Cache!Vods -> VodVersions] /\ CacheTypes /\ s \in Cache!Vods /\ SourcesOf[s] \subseteq Cache!Vods /\ IsFiniteSet(SourcesOf[s])
  BY DEF CacheInv, CacheTypes, Cache!CacheAssumption, Cache!Vods, Cache!IsFiniteSet, IsFiniteSet
<1>3. ids \in Seq(SourcesOf[s]) /\ \A x \in SourcesOf[s] : \E i \in 1..Len(ids) : ids[i] = x
  BY <1>2, EachOnce
<1> HIDE DEF ids
<1>4. told \in Seq({"changed", "moved"} \X Cache!Vods) /\ Len(told) = Len(ids) /\ DOMAIN ids = 1..Len(ids) /\ Len(ids) \in Nat
      /\ \A i \in 1..Len(ids) : told[i] = <<"changed", ids[i]>>
  <2>1. DOMAIN ids = 1..Len(ids) /\ Len(ids) \in Nat /\ \A i \in 1..Len(ids) : ids[i] \in Cache!Vods
    BY <1>2, <1>3
  <2>2. told \in [1..Len(ids) -> {"changed", "moved"} \X Cache!Vods]
    BY <2>1
  <2>3. QED BY <2>1, <2>2
<1> HIDE DEF told
<1>5. sent \in Seq({"changed", "moved"} \X Cache!Vods) /\ Len(sent) = Len(ids) + 1 /\ sent[Len(ids) + 1] = <<"changed", s>>
      /\ \A i \in 1..Len(ids) : sent[i] = <<"changed", ids[i]>>
  BY <1>2, <1>4
<1> HIDE DEF sent
<1>6. new \in [Cache!Vods -> VodVersions]
  <2>1. cacheRows[s] \in VodVersions /\ cacheRows \in [Cache!Vods -> VodVersions]
    BY <1>2 DEF CacheTypes
  <2>2. PICK old \in VodVersions : old = cacheRows[s]
    BY <2>1
  <2>3. PICK r : r = [old EXCEPT !.segments = @ + 1, !.row = @ + 1]
    OBVIOUS
  <2>4. r \in VodVersions
    <3>1. old.row + 1 \in Nat /\ old.segments + 1 \in Nat /\ old.chat \in Nat /\ old.shown \in BOOLEAN
      BY <2>2 DEF VodVersions
    <3>2. PICK m \in Nat, n \in Nat : m = old.row + 1 /\ n = old.segments + 1
      BY <3>1
    <3>3. r = [row |-> m, shown |-> old.shown, chat |-> old.chat, segments |-> n]
      BY <2>2, <2>3, <3>2 DEF VodVersions
    <3>4. QED BY <3>1, <3>2, <3>3, ZenonT(30) DEF VodVersions
  <2>6. new = [cacheRows EXCEPT ![s] = r]
    BY <2>1, <2>2, <2>3
  <2>5. QED BY <2>1, <2>4, <2>6
<1>7. cacheRows' = new /\ key' = key
  BY <1>1 DEF Cache!Commit
<1>8. \A u \in Cache!Vods : /\ cacheRows'[u].chat = cacheRows[u].chat /\ cacheRows'[u].shown = cacheRows[u].shown
                            /\ u # s => cacheRows'[u].row = cacheRows[u].row /\ cacheRows'[u].segments = cacheRows[u].segments
  BY <1>2, <1>7 DEF VodVersions
<1> HIDE DEF new
<1>9. Stays \/ \E i \in 1..Len(sent) : Cache!Drops(sent[i], key)
  <2>1. SUFFICES ASSUME \A i \in 1..Len(sent) : ~Cache!Drops(sent[i], key) PROVE Stays
    OBVIOUS
  <2>2. ~Cache!Drops(<<"changed", s>>, key)
    <3>1. Len(ids) + 1 \in 1..Len(sent)
      BY <1>4, <1>5
    <3>2. QED BY <1>5, <2>1, <3>1
  <2>3. \A x \in SourcesOf[s] : ~Cache!Drops(<<"changed", x>>, key)
    <3>1. SUFFICES ASSUME NEW x \in SourcesOf[s] PROVE ~Cache!Drops(<<"changed", x>>, key)
      OBVIOUS
    <3>2. PICK i \in 1..Len(ids) : ids[i] = x
      BY <1>3
    <3>3. i \in 1..Len(sent) /\ sent[i] = <<"changed", x>>
      BY <1>4, <1>5, <3>2
    <3>4. QED BY <2>1, <3>3
  <2>4. ~IsList
    BY <2>2, ListsDropped
  <2>5. key[1] \in {"vods/", "emotes", "chat"} /\ key[2] \in Cache!Vods /\ key = <<key[1], key[2]>>
    BY <1>2, <2>4, KeyIs DEF IsList
  <2>6. key[1] \in {"vods/", "chat"} => key[2] # s
    BY <2>2, <2>5 DEF Cache!Drops
  <2>7. key[1] = "vods/" => key[2] \notin Cache!SyntheticVods
    BY <2>2, <2>5 DEF Cache!Drops
  <2>8. key[1] = "vods/" => s \notin Cache!MadeFrom(key[2])
    BY <2>3, <2>5 DEF Cache!Drops, Cache!MadeFrom
  <2>9. Cache!MadeFrom(key[2]) \subseteq Cache!Vods /\ (key[1] = "vods/" => Cache!MadeOf(key[2]) = {})
    BY <2>7 DEF Cache!MadeOf, Cache!MadeFrom, Cache!Vods
  <2>10. QED BY <1>2, <1>7, <1>8, <2>4, <2>5, <2>6, <2>8, <2>9, SameBody
<1>10. QED BY <1>1, <1>5, <1>6, <1>9, CommitKeeps

----------------------------------------------------------------------------
(* The middleware and the listener.                                         *)

LEMMA CacheInitInv == ASSUME Cache!CacheAssumption, Cache!Init PROVE CacheInv
<1>1. cacheRows \in [Cache!Vods -> VodVersions]
  BY DEF Cache!Init, VodVersions
<1>2. CacheTypes
  BY <1>1 DEF Cache!Init, CacheTypes, Cache!NoRender
<1>3. QED BY <1>2 DEF Cache!Init, CacheInv, Cache!Heard

\* What is heard and what the rows say stays.
LEMMA Unheard ==
  ASSUME cacheRows' = cacheRows, key' = key
  PROVE  /\ \A n : Cache!Drops(n, key)' = Cache!Drops(n, key)
         /\ \A body : SaysRows(body)' = SaysRows(body)
<1>1. Cache!Body(key)' = Cache!Body(key) /\ Cache!Missing(key)' = Cache!Missing(key)
  BY DEF Cache!Body, Cache!OwnAndSources, Cache!MadeOf, Cache!MadeFrom, Cache!Missing, Cache!Vods, Cache!SyntheticVods
<1>2. QED BY <1>1 DEF SaysRows, Cache!Drops, Cache!SyntheticVods

LEMMA RenderKeeps == ASSUME CacheInv, Cache!Miss \/ Cache!ReadRows \/ Cache!Fill \/ Cache!Expire PROVE CacheInv'
<1>1. cacheRows' = cacheRows /\ key' = key /\ listener' = listener /\ notices' = notices
  BY DEF Cache!Miss, Cache!ReadRows, Cache!Fill, Cache!Expire
<1>2. render = [step |-> render.step, body |-> render.body, passed |-> render.passed]
  BY DEF CacheInv, CacheTypes
<1>3. CacheTypes'
  <2>1. render' \in {render, Cache!NoRender, [render EXCEPT !.step = "reading"], [render EXCEPT !.step = "read", !.body = Cache!Response(key)]}
    BY DEF Cache!Miss, Cache!ReadRows, Cache!Fill, Cache!Expire
  <2>2. render' = [step |-> render'.step, body |-> render'.body, passed |-> render'.passed]
    BY <1>2, <2>1 DEF Cache!NoRender
  <2>3. QED BY <1>1, <2>2 DEF CacheInv, CacheTypes, Cache!Vods, Cache!SyntheticVods, VodVersions, Cache!Keys
<1>4. Cache!Heard' <=> Cache!Heard
  BY <1>1, Unheard DEF Cache!Heard
<1>5. \A body : SaysRows(body)' = SaysRows(body)
  BY <1>1, Unheard
<1>6. CASE Cache!Miss
  <2>1. cached' = cached /\ outdated' = outdated /\ cached = None /\ render' = [render EXCEPT !.step = "reading"]
    BY <1>6 DEF Cache!Miss
  <2>2. render'.step = "reading"
    BY <1>2, <2>1
  <2>3. QED BY <1>3, <2>1, <2>2 DEF CacheInv
<1>7. CASE Cache!ReadRows
  <2>1. cached' = cached /\ outdated' = outdated
    BY <1>7 DEF Cache!ReadRows
  <2>2. CASE Cache!Missing(key)
    <3>1. render'.step = "none"
      BY <1>7, <2>2 DEF Cache!ReadRows, Cache!NoRender
    <3>2. QED BY <1>3, <1>4, <1>5, <2>1, <3>1 DEF CacheInv
  <2>3. CASE ~Cache!Missing(key)
    <3>1. render' = [render EXCEPT !.step = "read", !.body = Cache!Response(key)]
      BY <1>7, <2>3 DEF Cache!ReadRows
    <3>2. render'.body = Cache!Response(key)
      BY <1>2, <3>1
    <3>3. SaysRows(Cache!Response(key))
      BY <2>3 DEF SaysRows, Cache!Response
    <3>4. PICK body : body = Cache!Response(key)
      OBVIOUS
    <3>5. SaysRows(body)' /\ render'.body = body
      BY <1>5, <3>2, <3>3, <3>4
    <3>6. (render.body)' = body
      BY <3>5
    <3>7. QED BY <1>3, <1>4, <1>5, <2>1, <3>5, <3>6 DEF CacheInv
  <2>4. QED BY <2>2, <2>3
<1>8. CASE Cache!Fill
  <2>1. render.step = "read" /\ cached' = render.body /\ outdated' = render.passed /\ render' = Cache!NoRender
    BY <1>8 DEF Cache!Fill
  <2>2. render'.step = "none"
    BY <2>1 DEF Cache!NoRender
  <2>3. QED BY <1>3, <1>4, <1>5, <2>1, <2>2 DEF CacheInv
<1>9. CASE Cache!Expire
  <2>1. cached' = None /\ render' = render
    BY <1>9 DEF Cache!Expire
  <2>2. QED BY <1>3, <1>4, <1>5, <2>1 DEF CacheInv
<1>10. QED BY <1>6, <1>7, <1>8, <1>9

\* After an invalidation nothing is cached, and what was read before it is known to be.
LEMMA InvalidatedKeeps ==
  ASSUME CacheInv, Cache!Invalidated, cacheRows' = cacheRows, key' = key, notices' \in Seq({"changed", "moved"} \X Cache!Vods)
  PROVE  CacheInv'
<1>1. render = [step |-> render.step, body |-> render.body, passed |-> render.passed]
  BY DEF CacheInv, CacheTypes
<1>2. PICK b : b = (render.step = "read")
  OBVIOUS
<1>3. render' = [render EXCEPT !.passed = b]
  BY <1>2 DEF Cache!Invalidated
<1>4. render' = [step |-> render.step, body |-> render.body, passed |-> b]
  BY <1>1, <1>3
<1>5. CacheTypes'
  BY <1>4 DEF CacheInv, CacheTypes, Cache!Vods, Cache!SyntheticVods, VodVersions, Cache!Keys
<1>6. render'.step = "read" => render'.passed
  BY <1>2, <1>4
<1>7. QED BY <1>5, <1>6 DEF CacheInv, Cache!Invalidated

LEMMA NotifiedKeeps == ASSUME CacheInv, Cache!Notified PROVE CacheInv'
<1>1. cacheRows' = cacheRows /\ key' = key /\ listener' = listener /\ notices' = Tail(notices) /\ notices # <<>>
  BY DEF Cache!Notified
<1>2. notices \in Seq({"changed", "moved"} \X Cache!Vods)
  BY DEF CacheInv, CacheTypes
<1>3. /\ notices' \in Seq({"changed", "moved"} \X Cache!Vods) /\ Head(notices) = notices[1]
      /\ Len(notices) \in Nat /\ Len(notices) > 0 /\ DOMAIN notices = 1..Len(notices) /\ DOMAIN notices' = 1..(Len(notices) - 1)
      /\ \A i \in 1..(Len(notices) - 1) : notices'[i] = notices[i + 1]
  BY <1>1, <1>2
<1>4. CASE Cache!Drops(Head(notices), key)
  <2>1. Cache!Invalidated
    BY <1>4 DEF Cache!Notified
  <2>2. QED BY <1>1, <1>3, <2>1, InvalidatedKeeps
<1>5. CASE ~Cache!Drops(Head(notices), key)
  <2>1. cached' = cached /\ render' = render /\ outdated' = outdated
    BY <1>5 DEF Cache!Notified
  <2>2. ASSUME Cache!Heard' PROVE Cache!Heard
    <3>1. listener = "up" /\ \A i \in DOMAIN notices' : ~Cache!Drops(notices'[i], key)
      BY <1>1, <2>2, Unheard DEF Cache!Heard
    <3>2. ASSUME NEW i \in 1..Len(notices) PROVE ~Cache!Drops(notices[i], key)
      <4>1. CASE i = 1
        BY <1>3, <1>5, <4>1
      <4>2. CASE i # 1
        <5>1. i - 1 \in 1..(Len(notices) - 1) /\ (i - 1) + 1 = i
          BY <1>3, <4>2
        <5>2. notices'[i - 1] = notices[i]
          BY <1>3, <5>1
        <5>3. QED BY <1>3, <3>1, <5>1, <5>2
      <4>3. QED BY <4>1, <4>2
    <3>3. QED BY <1>3, <3>1, <3>2 DEF Cache!Heard
  <2>3. CacheTypes'
    BY <1>1, <1>3, <2>1 DEF CacheInv, CacheTypes, Cache!Vods, Cache!SyntheticVods, VodVersions, Cache!Keys
  <2>4. \A body : SaysRows(body)' = SaysRows(body)
    BY <1>1, Unheard
  <2>5. QED BY <2>1, <2>2, <2>3, <2>4 DEF CacheInv
<1>6. QED BY <1>4, <1>5

LEMMA ListenerKeeps == ASSUME CacheInv, Cache!Listen \/ Cache!ClearAll \/ Cache!Lost PROVE CacheInv'
<1>1. CASE Cache!Listen \/ Cache!Lost
  <2>1. cacheRows' = cacheRows /\ key' = key /\ render' = render /\ listener' # "up" /\ notices' \in {notices, <<>>}
    BY <1>1 DEF Cache!Listen, Cache!Lost
  <2>4. CacheTypes
    BY DEF CacheInv
  <2>5. notices' \in Seq({"changed", "moved"} \X Cache!Vods)
    <3>1. notices \in Seq({"changed", "moved"} \X Cache!Vods)
      BY <2>4 DEF CacheTypes
    <3>2. CASE notices' = notices
      BY <3>1, <3>2
    <3>3. CASE notices' = <<>>
      BY <3>3
    <3>4. QED BY <2>1, <3>2, <3>3
  <2>2. CacheTypes'
    BY <2>1, <2>4, <2>5 DEF CacheTypes, Cache!Vods, Cache!SyntheticVods, VodVersions, Cache!Keys
  <2>3. QED BY <2>1, <2>2 DEF CacheInv, Cache!Heard
<1>2. CASE Cache!ClearAll
  BY <1>2, InvalidatedKeeps DEF Cache!ClearAll, CacheInv, CacheTypes
<1>3. QED BY <1>1, <1>2

LEMMA CacheNextInv == ASSUME Cache!CacheAssumption, CacheInv, [Cache!Next]_(Cache!cacheVars) PROVE CacheInv'
<1>1. CASE Cache!Miss \/ Cache!ReadRows \/ Cache!Fill \/ Cache!Expire
  BY <1>1, RenderKeeps
<1>2. CASE Cache!Notified \/ Cache!Listen \/ Cache!ClearAll \/ Cache!Lost
  BY <1>2, NotifiedKeeps, ListenerKeeps
<1>3. ASSUME NEW v \in Cache!Vods, Cache!WriteRow(v) \/ Cache!Hide(v) PROVE CacheInv'
  BY <1>3, WriteRowKeeps, HideKeeps
<1>4. ASSUME NEW v \in cacheRealVods, Cache!MoveRows(v) PROVE CacheInv'
  <2>1. v \in Cache!Vods
    BY <1>4 DEF Cache!Vods
  <2>2. QED BY <1>4, <2>1, MoveRowsKeeps
<1>5. ASSUME NEW s \in Cache!SyntheticVods, Cache!ChangeSegments(s) PROVE CacheInv'
  BY <1>5, ChangeSegmentsKeeps
<1>6. CASE UNCHANGED Cache!cacheVars
  <2>1. /\ cacheRows' = cacheRows /\ key' = key /\ cached' = cached /\ render' = render /\ outdated' = outdated /\ listener' = listener
        /\ notices' = notices
    BY <1>6 DEF Cache!cacheVars
  <2>2. CacheTypes' /\ (Cache!Heard' <=> Cache!Heard) /\ \A body : SaysRows(body)' = SaysRows(body)
    <3>1. CacheTypes'
      BY <2>1 DEF CacheInv, CacheTypes, Cache!Vods, Cache!SyntheticVods, VodVersions, Cache!Keys
    <3>2. QED BY <2>1, <3>1, Unheard DEF Cache!Heard
  <2>3. QED BY <2>1, <2>2 DEF CacheInv
<1>7. QED BY <1>1, <1>2, <1>3, <1>4, <1>5, <1>6 DEF Cache!Next

LEMMA InvCache == ASSUME CacheInv PROVE Cache!CacheIsCurrent
BY DEF CacheInv, Cache!CacheIsCurrent, SaysRows

\* Whichever response is followed, and however many VODs there are and synthetic VODs made of them, writes,
\* and connections lost: while the listener is connected and no notice on its way drops it, the cached
\* response is what its rows say, unless they were read before an invalidation that came before it was
\* cached (invalidation.py, middleware.py).
THEOREM CachedIsCurrent == ASSUME Cache!CacheAssumption PROVE Cache!Spec => []Cache!CacheIsCurrent
<1>1. Cache!Init => CacheInv
  BY CacheInitInv
<1>2. CacheInv /\ [Cache!Next]_(Cache!cacheVars) => CacheInv'
  BY CacheNextInv
<1>3. CacheInv => Cache!CacheIsCurrent
  BY InvCache
<1>4. QED BY <1>1, <1>2, <1>3, PTL DEF Cache!Spec

------------------------------------------------------------------------------
(* Synthetic.                                                               *)

IsRow(r) ==
  /\ r = [there |-> r.there, columns |-> r.columns, updated |-> r.updated, segments |-> r.segments,
          supersedes |-> r.supersedes]
  /\ r.there \in BOOLEAN /\ r.updated \in Nat /\ r.segments \in Synth!AnySegments

IsTx(x) ==
  /\ x = [doing |-> x.doing, vod |-> x.vod, segments |-> x.segments, supersedes |-> x.supersedes,
          began |-> x.began, step |-> x.step, found |-> x.found, overtaken |-> x.overtaken, beside |-> x.beside]
  /\ x.doing \in {"nothing", "edit", "create", "change", "remove", "recompose"}
  /\ x.step \in {"begun", "locked", "checked"}
  /\ x.began \in Nat /\ x.segments \in Synth!AnySegments /\ x.overtaken \in BOOLEAN
  /\ x.doing = "edit" => x.vod \in synthRealVods
  /\ x.doing \in {"create", "change", "remove", "recompose"} => x.vod \in SyntheticVods

\* Times are of the past, and no two transactions under way began at the same time.
TypesHold ==
  /\ clock \in Nat
  /\ synthRows = [v \in Synth!Vods |-> synthRows[v]]
  /\ \A v \in Synth!Vods : IsRow(synthRows[v]) /\ synthRows[v].updated <= clock /\ (v \in synthRealVods => synthRows[v].there)
  /\ tx = [t \in Txs |-> tx[t]]
  /\ \A t \in Txs : IsTx(tx[t]) /\ tx[t].began <= clock

BeganApart == \A t, u \in Txs : tx[t].doing # "nothing" /\ tx[u].doing # "nothing" /\ tx[t].began = tx[u].began => t = u

\* A locked row is one transaction's, and is there.
LocksHold ==
  /\ \A t, u \in Txs, v \in Synth!Vods : Synth!HoldsRow(t, v) /\ Synth!HoldsRow(u, v) => t = u
  /\ \A t \in Txs : tx[t].doing \in {"change", "remove", "recompose"} /\ tx[t].step # "begun" => synthRows[tx[t].vod].there

\* No synthetic VOD is made of itself or of one that is gone.
Composed == \A v \in Synth!Made : \A s \in Synth!SourcesOf(synthRows[v].segments) : synthRows[s].there /\ s # v

ChecksHold ==
  \A t \in Txs : tx[t].step = "checked" =>
    /\ tx[t].doing \in {"create", "change", "recompose"}
    /\ tx[t].vod \notin Synth!SourcesOf(tx[t].segments)
    /\ tx[t].doing = "recompose" => tx[t].segments = synthRows[tx[t].vod].segments

\* Whoever is yet to write a source began after this time.
Later(segments, since) ==
  \A u \in Txs, s \in Synth!SourcesOf(segments) : Synth!Writes(u, s) => tx[u].began > since

\* What was composed then is what the sources give, or a source has been written since.
Known(segments, columns, since) ==
  \/ /\ \A s \in Synth!SourcesOf(segments) : synthRows[s].there
     /\ columns = Synth!Derive(segments, Synth!Now)
  \/ \E s \in Synth!SourcesOf(segments) : ~synthRows[s].there \/ synthRows[s].updated > since

ChecksKnow ==
  \A t \in Txs : tx[t].step = "checked" /\ ~tx[t].overtaken =>
    Later(tx[t].segments, tx[t].began) /\ Known(tx[t].segments, tx[t].found, tx[t].began)

RowsKnow ==
  \A v \in Synth!Made \ unseen :
    /\ Later(synthRows[v].segments, synthRows[v].updated)
    /\ v \notin retitled => Known(synthRows[v].segments, synthRows[v].columns, synthRows[v].updated)

SynthInv ==
  TypesHold /\ BeganApart /\ LocksHold /\ Composed /\ ChecksHold /\ ChecksKnow /\ RowsKnow

----------------------------------------------------------------------------
(* What a composition depends on.                                           *)

LEMMA SourcesAre ==
  ASSUME NEW segments \in Synth!AnySegments
  PROVE  /\ \A i \in DOMAIN segments :
              /\ segments[i] \in [src : Synth!Vods, start : Int, end : Int \cup {ToTheEnd}, at : Int]
              /\ segments[i].src \in Synth!SourcesOf(segments)
         /\ Synth!SourcesOf(segments) \subseteq Synth!Vods
<1> DEFINE Windows == [src : Synth!Vods, start : Int, end : Int \cup {ToTheEnd}, at : Int]
<1>1. segments \in Seq(Windows)
  BY DEF Synth!AnySegments
<1> HIDE DEF Windows
<1>2. /\ \A i \in DOMAIN segments : segments[i] \in Windows
      /\ Synth!ToSet(segments) = {segments[i] : i \in DOMAIN segments}
  BY <1>1 DEF Synth!ToSet
<1>3. \A x \in Windows : x.src \in Synth!Vods
  BY DEF Windows
<1>4. \A i \in DOMAIN segments : segments[i].src \in Synth!SourcesOf(segments)
  BY <1>2 DEF Synth!SourcesOf
<1>5. Synth!SourcesOf(segments) \subseteq Synth!Vods
  BY <1>2, <1>3 DEF Synth!SourcesOf
<1>6. QED BY <1>2, <1>4, <1>5 DEF Windows

\* The cached columns are those of the sources, and depend on nothing else.
LEMMA DeriveSame ==
  ASSUME NEW segments \in Synth!AnySegments, NEW S, NEW T,
         \A s \in Synth!SourcesOf(segments) : s \in DOMAIN S /\ s \in DOMAIN T /\ S[s] = T[s]
  PROVE  Synth!Derive(segments, S) = Synth!Derive(segments, T)
<1> DEFINE r == Synth!Resolve(segments, Synth!DurationsOf(S))
           EndBefore(i) == Synth!Max({0} \cup {r[k].at + Synth!LengthOf(r[k]) : k \in 1..(i - 1)})
           Gap(i) == IF r[i].at > EndBefore(i) THEN {Synth!GapChapter(EndBefore(i), r[i].at - EndBefore(i))} ELSE {}
           Shows(i, X) == IF Synth!LengthOf(r[i]) = 0 THEN {}
                          ELSE Synth!Shift(Synth!Clip(X[r[i].src].chapters, r[i].start, r[i].end), r[i].at - r[i].start)
<1>1. \A i \in DOMAIN segments :
        segments[i] \in [src : Synth!Vods, start : Int, end : Int \cup {ToTheEnd}, at : Int] /\ segments[i].src \in Synth!SourcesOf(segments)
  BY SourcesAre
<1>2. \A i \in DOMAIN segments : Synth!DurationsOf(S)[segments[i].src] = Synth!DurationsOf(T)[segments[i].src]
  BY <1>1 DEF Synth!DurationsOf
<1>3. r = Synth!Resolve(segments, Synth!DurationsOf(T))
  BY <1>2 DEF Synth!Resolve
<1>4. DOMAIN r = DOMAIN segments /\ \A i \in DOMAIN segments : r[i].src = segments[i].src
  BY <1>1 DEF Synth!Resolve
<1>5. Synth!Derive(segments, S) = [duration |-> Synth!Ceil(Synth!TotalOf(r)), chapters |-> UNION {Gap(i) \cup Shows(i, S) : i \in DOMAIN r}]
  BY DEF Synth!Derive
<1>6. Synth!Derive(segments, T) = [duration |-> Synth!Ceil(Synth!TotalOf(r)), chapters |-> UNION {Gap(i) \cup Shows(i, T) : i \in DOMAIN r}]
  BY <1>3 DEF Synth!Derive
<1>7. \A i \in DOMAIN r : Shows(i, S) = Shows(i, T)
  BY <1>1, <1>4
<1>8. {Gap(i) \cup Shows(i, S) : i \in DOMAIN r} = {Gap(i) \cup Shows(i, T) : i \in DOMAIN r}
  BY <1>7
<1>9. QED BY <1>5, <1>6, <1>8

----------------------------------------------------------------------------
(* What a step leaves as it was.                                            *)

LEMMA KnownSame ==
  ASSUME NEW segments, NEW columns, NEW since, synthRows' = synthRows, Known(segments, columns, since)
  PROVE  Known(segments, columns, since)'
<1>1. Synth!Now' = Synth!Now
  BY DEF Synth!Now, Synth!Existing
<1>2. QED BY <1>1 DEF Known

\* A row that is written while it is a source is dated later, or shows what it showed.
LEMMA KnownStays ==
  ASSUME NEW segments \in Synth!AnySegments, NEW columns, NEW since \in Nat, NEW w \in Synth!Vods, TypesHold,
         synthRows' = [synthRows EXCEPT ![w] = synthRows'[w]], synthRows'[w].updated \in Nat, synthRows'[w].there \in BOOLEAN,
         w \in Synth!SourcesOf(segments) =>
           \/ ~synthRows'[w].there \/ synthRows'[w].updated > since
           \/ synthRows'[w].there = synthRows[w].there /\ synthRows'[w].columns = synthRows[w].columns /\ synthRows'[w].updated >= synthRows[w].updated,
         Known(segments, columns, since)
  PROVE  Known(segments, columns, since)'
<1>1. \A v \in Synth!Vods : v # w => synthRows'[v] = synthRows[v]
  BY DEF TypesHold
<1>2. Synth!SourcesOf(segments) \subseteq Synth!Vods /\ \A v \in Synth!Vods : synthRows[v].updated \in Nat /\ synthRows[v].there \in BOOLEAN
  BY SourcesAre DEF TypesHold, IsRow
<1>3. ASSUME NEW s \in Synth!SourcesOf(segments), ~synthRows[s].there \/ synthRows[s].updated > since
      PROVE  Known(segments, columns, since)'
  <2>1. ~synthRows'[s].there \/ synthRows'[s].updated > since
    BY <1>1, <1>2, <1>3
  <2>2. QED BY <2>1 DEF Known
<1>4. ASSUME w \in Synth!SourcesOf(segments), ~synthRows'[w].there \/ synthRows'[w].updated > since
      PROVE  Known(segments, columns, since)'
  BY <1>4 DEF Known
<1>5. ASSUME \A s \in Synth!SourcesOf(segments) : synthRows[s].there /\ synthRows'[s].there /\ synthRows'[s].columns = synthRows[s].columns,
             columns = Synth!Derive(segments, Synth!Now)
      PROVE  Known(segments, columns, since)'
  <2>1. \A s \in Synth!SourcesOf(segments) : s \in DOMAIN Synth!Now /\ s \in DOMAIN Synth!Now' /\ Synth!Now[s] = Synth!Now'[s]
    BY <1>2, <1>5 DEF Synth!Now, Synth!Existing
  <2>2. Synth!Derive(segments, Synth!Now) = Synth!Derive(segments, Synth!Now')
    BY <2>1, DeriveSame
  <2>3. QED BY <1>5, <2>2 DEF Known
<1>6. QED
  <2>1. CASE \E s \in Synth!SourcesOf(segments) : ~synthRows[s].there \/ synthRows[s].updated > since
    BY <2>1, <1>3
  <2>2. CASE ~\E s \in Synth!SourcesOf(segments) : ~synthRows[s].there \/ synthRows[s].updated > since
    <3>1. (\A s \in Synth!SourcesOf(segments) : synthRows[s].there) /\ columns = Synth!Derive(segments, Synth!Now)
      BY <2>2 DEF Known
    <3>2. CASE \A s \in Synth!SourcesOf(segments) : synthRows'[s].there /\ synthRows'[s].columns = synthRows[s].columns
      BY <3>1, <3>2, <1>5
    <3>3. CASE ~\A s \in Synth!SourcesOf(segments) : synthRows'[s].there /\ synthRows'[s].columns = synthRows[s].columns
      <4>1. w \in Synth!SourcesOf(segments)
        BY <3>1, <3>3, <1>1, <1>2
      <4>2. ~synthRows'[w].there \/ synthRows'[w].updated > since
        <5>1. \A s \in Synth!SourcesOf(segments) : s # w => synthRows'[s].there /\ synthRows'[s].columns = synthRows[s].columns
          BY <3>1, <1>1, <1>2
        <5>2. QED BY <5>1, <3>3, <3>1, <4>1
      <4>3. QED BY <4>1, <4>2, <1>4
    <3>4. QED BY <3>2, <3>3
  <2>3. QED BY <2>1, <2>2

LEMMA LaterStays ==
  ASSUME NEW segments, NEW since, Later(segments, since),
         \A u \in Txs : \/ tx'[u].doing = "nothing"
                        \/ tx'[u].began > since
                        \/ tx'[u].vod = tx[u].vod /\ tx'[u].doing = tx[u].doing /\ tx'[u].began = tx[u].began
  PROVE  Later(segments, since)'
BY DEF Later, Synth!Writes

\* One transaction takes a step, and no row is written.
LEMMA StepOfOne ==
  ASSUME Synth!SynthAssumption, SynthInv, NEW t \in Txs, UNCHANGED <<synthRows, unseen, retitled>>,
         tx' = [tx EXCEPT ![t] = tx'[t]], clock' \in Nat, clock <= clock', IsTx(tx'[t]), tx'[t].began <= clock',
         tx'[t].doing # "nothing" =>
           \/ tx'[t].began > clock
           \/ tx[t].doing = tx'[t].doing /\ tx[t].began = tx'[t].began /\ tx[t].vod = tx'[t].vod,
         \A v \in Synth!Vods : Synth!HoldsRow(t, v)' => Synth!HoldsRow(t, v) \/ ~Synth!Locked(v),
         tx'[t].doing \in {"change", "remove", "recompose"} /\ tx'[t].step # "begun" => synthRows[tx'[t].vod].there,
         tx'[t].step = "checked" =>
           /\ tx'[t].doing \in {"create", "change", "recompose"}
           /\ tx'[t].vod \notin Synth!SourcesOf(tx'[t].segments)
           /\ tx'[t].doing = "recompose" => tx'[t].segments = synthRows[tx'[t].vod].segments,
         tx'[t].step = "checked" /\ ~tx'[t].overtaken =>
           Later(tx[t].segments, tx[t].began)' /\ Known(tx[t].segments, tx[t].found, tx[t].began)'
  PROVE  SynthInv'
<1>1. \A u \in Txs : u # t => tx'[u] = tx[u]
  BY DEF SynthInv, TypesHold
<1>2. /\ clock \in Nat /\ \A u \in Txs : tx[u].began \in Nat /\ tx[u].began <= clock
      /\ tx'[t].began \in Nat
  BY DEF SynthInv, TypesHold, IsTx
<1>3. TypesHold'
  <2>1. tx' = [u \in Txs |-> tx'[u]]
    BY DEF SynthInv, TypesHold
  <2>2. \A u \in Txs : IsTx(tx'[u]) /\ tx'[u].began <= clock'
    BY <1>1, <1>2 DEF SynthInv, TypesHold
  <2>3. \A v \in Synth!Vods : IsRow(synthRows[v]) /\ synthRows[v].updated \in Nat /\ synthRows[v].updated <= clock
    BY DEF SynthInv, TypesHold, IsRow
  <2>4. \A v \in Synth!Vods : synthRows'[v].updated <= clock'
    BY <2>3, <1>2
  <2>5. (\A u \in Txs : IsTx(tx[u]) /\ tx[u].began <= clock)'
    BY <2>2
  <2>6. QED BY <2>1, <2>3, <2>4, <2>5 DEF SynthInv, TypesHold
<1>4. BeganApart'
  <2>1. ASSUME NEW a \in Txs, NEW b \in Txs, tx'[a].doing # "nothing", tx'[b].doing # "nothing", tx'[a].began = tx'[b].began
        PROVE  a = b
    <3>1. CASE tx'[t].doing # "nothing" /\ tx'[t].began > clock
      BY <3>1, <2>1, <1>1, <1>2 DEF SynthInv, BeganApart
    <3>2. CASE tx[t].doing = tx'[t].doing /\ tx[t].began = tx'[t].began
      BY <3>2, <2>1, <1>1 DEF SynthInv, BeganApart
    <3>3. CASE tx'[t].doing = "nothing"
      BY <3>3, <2>1, <1>1 DEF SynthInv, BeganApart
    <3>4. QED BY <3>1, <3>2, <3>3
  <2>2. QED BY <2>1 DEF BeganApart
<1>5. LocksHold'
  <2>1. \A u \in Txs, v \in Synth!Vods : u # t => (Synth!HoldsRow(u, v)' <=> Synth!HoldsRow(u, v))
    BY <1>1 DEF Synth!HoldsRow
  <2>2. ASSUME NEW a \in Txs, NEW b \in Txs, NEW v \in Synth!Vods, Synth!HoldsRow(a, v)', Synth!HoldsRow(b, v)'
        PROVE  a = b
    BY <2>1, <2>2 DEF Synth!Locked, SynthInv, LocksHold
  <2>3. \A u \in Txs : tx'[u].doing \in {"change", "remove", "recompose"} /\ tx'[u].step # "begun" => synthRows[tx'[u].vod].there
    BY <1>1 DEF SynthInv, LocksHold
  <2>4. (\A u \in Txs : tx[u].doing \in {"change", "remove", "recompose"} /\ tx[u].step # "begun" => synthRows[tx[u].vod].there)'
    BY <2>3
  <2>5. (\A a, b \in Txs, v \in Synth!Vods : Synth!HoldsRow(a, v) /\ Synth!HoldsRow(b, v) => a = b)'
    BY <2>2
  <2>6. QED BY <2>4, <2>5 DEF LocksHold
<1>6. Composed'
  BY DEF SynthInv, Composed, Synth!Made, Synth!Existing
<1>7. ChecksHold'
  BY <1>1 DEF SynthInv, ChecksHold
<1>8. ASSUME NEW segments, NEW since \in Nat, since <= clock, Later(segments, since)
      PROVE  Later(segments, since)'
  <2>1. \A u \in Txs : \/ tx'[u].doing = "nothing"
                       \/ tx'[u].began > since
                       \/ tx'[u].vod = tx[u].vod /\ tx'[u].doing = tx[u].doing /\ tx'[u].began = tx[u].began
    BY <1>1, <1>2, <1>8
  <2>2. QED BY <2>1, <1>8, LaterStays
<1>9. ChecksKnow'
  <2>1. ASSUME NEW u \in Txs, tx'[u].step = "checked", ~tx'[u].overtaken
        PROVE  Later(tx[u].segments, tx[u].began)' /\ Known(tx[u].segments, tx[u].found, tx[u].began)'
    <3>1. CASE u = t
      BY <3>1, <2>1
    <3>2. CASE u # t
      <4>1. PICK segments, columns, since : segments = tx[u].segments /\ columns = tx[u].found /\ since = tx[u].began
        OBVIOUS
      <4>2. segments = tx'[u].segments /\ columns = tx'[u].found /\ since = tx'[u].began
        BY <4>1, <3>2, <1>1
      <4>3. Later(segments, since) /\ Known(segments, columns, since)
        BY <4>1, <2>1, <3>2, <1>1 DEF SynthInv, ChecksKnow
      <4>4. since \in Nat /\ since <= clock
        BY <4>1, <1>2
      <4>5. Later(segments, since)' /\ Known(segments, columns, since)'
        BY <4>3, <4>4, <1>8, KnownSame
      <4>6. QED BY <4>2, <4>5 DEF Later, Known
    <3>3. QED BY <3>1, <3>2
  <2>2. QED BY <2>1 DEF ChecksKnow
<1>10. RowsKnow'
  <2>1. ASSUME NEW v \in Synth!Made', v \notin unseen'
        PROVE  /\ Later(synthRows[v].segments, synthRows[v].updated)'
               /\ v \notin retitled' => Known(synthRows[v].segments, synthRows[v].columns, synthRows[v].updated)'
    <3>1. PICK segments, columns, since : segments = synthRows[v].segments /\ columns = synthRows[v].columns /\ since = synthRows[v].updated
      OBVIOUS
    <3>2. v \in Synth!Made \ unseen /\ v \in Synth!Vods
      BY <2>1 DEF Synth!Made, Synth!Existing
    <3>3. since \in Nat /\ since <= clock
      BY <3>1, <3>2 DEF SynthInv, TypesHold, IsRow
    <3>4. Later(segments, since) /\ (v \notin retitled => Known(segments, columns, since))
      BY <3>1, <3>2 DEF SynthInv, RowsKnow
    <3>5. Later(segments, since)'
      BY <3>3, <3>4, <1>8
    <3>6. v \notin retitled' => Known(segments, columns, since)'
      BY <3>4, KnownSame
    <3>7. segments = synthRows'[v].segments /\ columns = synthRows'[v].columns /\ since = synthRows'[v].updated
      BY <3>1
    <3>8. QED BY <3>5, <3>6, <3>7 DEF Later, Known
  <2>2. QED BY <2>1 DEF RowsKnow
<1>11. QED BY <1>3, <1>4, <1>5, <1>6, <1>7, <1>9, <1>10 DEF SynthInv

LEMMA IdleIs ==
  /\ IsTx(Synth!Idle) /\ Synth!Idle.doing = "nothing" /\ Synth!Idle.began = 0 /\ Synth!Idle.step = "begun" /\ Synth!Idle.segments = <<>>
  /\ Synth!Idle.supersedes = FALSE /\ Synth!Idle.found = Synth!Nothing /\ Synth!Idle.overtaken = FALSE /\ Synth!Idle.beside = FALSE
BY DEF IsTx, Synth!AnySegments, Synth!Idle

LEMMA Begins ==
  ASSUME Synth!SynthAssumption, SynthInv, UNCHANGED <<synthRows, unseen, retitled>>,
         NEW t \in Txs, NEW doing \in {"edit", "create", "change", "remove", "recompose"}, NEW v \in Synth!Vods, NEW step,
         Synth!Begin(t, doing, v, step),
         IF doing = "edit" THEN v \in synthRealVods /\ ~Synth!Locked(v) ELSE v \in SyntheticVods,
         IF doing = "recompose" THEN step = "locked" /\ ~Synth!Locked(v) /\ synthRows[v].there ELSE step = "begun"
  PROVE  SynthInv'
<1> DEFINE x == [doing |-> doing, vod |-> v, segments |-> <<>>, supersedes |-> FALSE,
                 began |-> clock + 1, step |-> step, found |-> Synth!Nothing, overtaken |-> FALSE, beside |-> FALSE]
<1>1. tx' = [tx EXCEPT ![t] = x] /\ clock' = clock + 1 /\ clock \in Nat
  <2>1. [Synth!Idle EXCEPT !.doing = doing, !.vod = v, !.began = clock + 1, !.step = step] = x
    <3>1. IsTx(Synth!Idle) /\ Synth!Idle.segments = <<>> /\ ~Synth!Idle.supersedes /\ Synth!Idle.found = Synth!Nothing /\ ~Synth!Idle.overtaken /\ ~Synth!Idle.beside
      BY IdleIs
    <3>2. PICK y : y = [Synth!Idle EXCEPT !.doing = doing, !.vod = v, !.began = clock + 1, !.step = step]
      OBVIOUS
    <3>3. y = [doing |-> doing, vod |-> v, segments |-> Synth!Idle.segments, supersedes |-> Synth!Idle.supersedes,
               began |-> clock + 1, step |-> step, found |-> Synth!Idle.found, overtaken |-> Synth!Idle.overtaken,
               beside |-> Synth!Idle.beside]
      BY <3>1, <3>2 DEF IsTx
    <3>4. QED BY <3>2, <3>3, IdleIs
  <2>2. tx' = [tx EXCEPT ![t] = [Synth!Idle EXCEPT !.doing = doing, !.vod = v, !.began = clock + 1, !.step = step]] /\ clock' = clock + 1
    BY DEF Synth!Begin
  <2> HIDE DEF x
  <2>3. QED BY <2>1, <2>2 DEF SynthInv, TypesHold
<1>2. tx'[t] = x
  BY <1>1 DEF SynthInv, TypesHold
<1>3. x.doing = doing /\ x.vod = v /\ x.segments = <<>> /\ x.began = clock + 1 /\ x.step = step /\ ~x.overtaken
  OBVIOUS
<1>4. IsTx(x)
  BY <1>1 DEF IsTx, Synth!AnySegments
<1> HIDE DEF x
<1>5. \A w \in Synth!Vods : Synth!HoldsRow(t, w)' => ~Synth!Locked(w)
  <2>1. ASSUME NEW w \in Synth!Vods, Synth!HoldsRow(t, w)' PROVE ~Synth!Locked(w)
    <3>1. w = v /\ (doing = "edit" \/ step # "begun")
      BY <2>1, <1>2, <1>3 DEF Synth!HoldsRow
    <3>2. QED BY <3>1
  <2>2. QED BY <2>1
<1>6. /\ step \in {"begun", "locked"} /\ tx' = [tx EXCEPT ![t] = tx'[t]]
      /\ clock' \in Nat /\ clock <= clock' /\ x.began > clock /\ x.began <= clock'
  <2>1. step \in {"begun", "locked"}
    OBVIOUS
  <2>2. tx' = [tx EXCEPT ![t] = tx'[t]]
    BY <1>1, <1>2
  <2>3. clock' \in Nat /\ clock <= clock' /\ x.began > clock /\ x.began <= clock'
    BY <1>1, <1>3
  <2>4. QED BY <2>1, <2>2, <2>3
<1>7. x.doing \in {"change", "remove", "recompose"} /\ x.step # "begun" => synthRows[x.vod].there
  BY <1>3
<1>8. QED BY <1>2, <1>3, <1>4, <1>5, <1>6, <1>7, StepOfOne

LEMMA Ends ==
  ASSUME Synth!SynthAssumption, SynthInv, UNCHANGED <<synthRows, unseen, retitled, clock>>, NEW t \in Txs, Synth!End(t)
  PROVE  SynthInv'
<1>1. tx' = [tx EXCEPT ![t] = tx'[t]] /\ tx'[t] = Synth!Idle /\ clock \in Nat
  BY DEF Synth!End, SynthInv, TypesHold
<1>2. IsTx(Synth!Idle) /\ Synth!Idle.doing = "nothing" /\ Synth!Idle.began = 0 /\ Synth!Idle.step = "begun"
  BY IdleIs
<1>3. \A v \in Synth!Vods : ~Synth!HoldsRow(t, v)'
  BY <1>1, <1>2 DEF Synth!HoldsRow
<1>4. QED BY <1>1, <1>2, <1>3, StepOfOne

LEMMA Locks ==
  ASSUME Synth!SynthAssumption, SynthInv, UNCHANGED <<synthRows, unseen, retitled, clock>>, NEW t \in Txs,
         tx[t].doing \in {"change", "remove"}, ~Synth!Locked(tx[t].vod), synthRows[tx[t].vod].there,
         tx' = [tx EXCEPT ![t].step = "locked"]
  PROVE  SynthInv'
<1> DEFINE x == [tx[t] EXCEPT !.step = "locked"]
<1>1. tx' = [tx EXCEPT ![t] = x] /\ tx'[t] = x
  BY DEF SynthInv, TypesHold
<1>2. IsTx(tx[t]) /\ tx[t].began <= clock /\ clock \in Nat
  BY DEF SynthInv, TypesHold
<1>3. x = [doing |-> tx[t].doing, vod |-> tx[t].vod, segments |-> tx[t].segments, supersedes |-> tx[t].supersedes,
           began |-> tx[t].began, step |-> "locked", found |-> tx[t].found, overtaken |-> tx[t].overtaken,
           beside |-> tx[t].beside]
  BY <1>2 DEF IsTx
<1>4. IsTx(x) /\ x.doing = tx[t].doing /\ x.vod = tx[t].vod /\ x.began = tx[t].began /\ x.step = "locked"
  BY <1>2, <1>3 DEF IsTx
<1> HIDE DEF x
<1>5. \A v \in Synth!Vods : Synth!HoldsRow(t, v)' => ~Synth!Locked(v)
  BY <1>1, <1>4 DEF Synth!HoldsRow
<1>6. tx' = [tx EXCEPT ![t] = tx'[t]] /\ clock' \in Nat /\ clock <= clock' /\ x.began <= clock'
  <2>1. tx' = [tx EXCEPT ![t] = tx'[t]]
    BY <1>1
  <2>2. clock' \in Nat /\ clock <= clock' /\ x.began <= clock'
    BY <1>2, <1>4
  <2>3. QED BY <2>1, <2>2
<1>7. QED BY <1>1, <1>2, <1>4, <1>5, <1>6, StepOfOne

LEMMA Reads ==
  ASSUME Synth!SynthAssumption, SynthInv, UNCHANGED <<synthRows, unseen, retitled, clock>>, NEW t \in Txs,
         NEW segments \in Synth!AnySegments, NEW supersedes, Synth!Read(t, segments, supersedes),
         tx[t].doing \in {"create", "change", "recompose"}, tx[t].doing # "create" => tx[t].step # "begun",
         tx[t].vod \notin Synth!SourcesOf(segments), \A s \in Synth!SourcesOf(segments) : synthRows[s].there,
         tx[t].doing = "recompose" => segments = synthRows[tx[t].vod].segments
  PROVE  SynthInv'
<1>1. PICK x : x = tx'[t]
  OBVIOUS
<1>2. IsTx(tx[t]) /\ tx[t].began <= clock /\ clock \in Nat
  BY DEF SynthInv, TypesHold
<1>3. PICK beside : x = [doing |-> tx[t].doing, vod |-> tx[t].vod, segments |-> segments, supersedes |-> supersedes,
           began |-> tx[t].began, step |-> "checked", found |-> Synth!Derive(segments, Synth!Now),
           overtaken |-> Synth!Overtaken(t, segments), beside |-> beside]
  BY <1>1, <1>2 DEF IsTx, Synth!Read, SynthInv, TypesHold
<1>4. tx' = [tx EXCEPT ![t] = tx'[t]]
  BY DEF Synth!Read, SynthInv, TypesHold
<1>5. /\ x.doing = tx[t].doing /\ x.vod = tx[t].vod /\ x.began = tx[t].began /\ x.step = "checked"
      /\ x.segments = segments /\ x.found = Synth!Derive(segments, Synth!Now) /\ x.overtaken = Synth!Overtaken(t, segments)
  BY <1>3
<1>6. Synth!Overtaken(t, segments) \in BOOLEAN
  BY DEF Synth!Overtaken
<1>7. IsTx(x)
  BY <1>2, <1>3, <1>6 DEF IsTx
<1>8. \A v \in Synth!Vods : Synth!HoldsRow(t, v)' => Synth!HoldsRow(t, v)
  BY <1>1, <1>5 DEF Synth!HoldsRow
<1>9. x.doing \in {"change", "remove", "recompose"} /\ x.step # "begun" => synthRows[x.vod].there
  BY <1>5 DEF SynthInv, LocksHold
<1>10. ~x.overtaken => Later(segments, tx[t].began)
  <2>1. ASSUME ~Synth!Overtaken(t, segments), NEW u \in Txs, NEW s \in Synth!SourcesOf(segments), Synth!Writes(u, s)
        PROVE  tx[u].began > tx[t].began
    <3>1. u # t /\ tx[u].doing # "nothing" /\ tx[t].doing # "nothing"
      BY <2>1 DEF Synth!Writes
    <3>2. ~(tx[u].began < tx[t].began)
      BY <2>1, <3>1 DEF Synth!Overtaken
    <3>3. tx[u].began # tx[t].began
      BY <3>1 DEF SynthInv, BeganApart
    <3>4. tx[u].began \in Nat /\ tx[t].began \in Nat
      BY DEF SynthInv, TypesHold, IsTx
    <3>5. QED BY <3>2, <3>3, <3>4
  <2>2. QED BY <2>1, <1>5 DEF Later
<1>11. PICK since, found : since = tx[t].began /\ found = Synth!Derive(segments, Synth!Now)
  OBVIOUS
<1>12. Known(segments, found, since)
  BY <1>11 DEF Known
<1>13. Known(segments, found, since)'
  BY <1>12, KnownSame
<1>14. \A u \in Txs : tx'[u].vod = tx[u].vod /\ tx'[u].doing = tx[u].doing /\ tx'[u].began = tx[u].began
  BY <1>1, <1>4, <1>5 DEF SynthInv, TypesHold
<1>15. ~x.overtaken => Later(segments, since)'
  BY <1>10, <1>11, <1>14, LaterStays
<1>16. segments = tx'[t].segments /\ found = tx'[t].found /\ since = tx'[t].began
  BY <1>1, <1>5, <1>11
<1>17. ~tx'[t].overtaken => Later(tx[t].segments, tx[t].began)' /\ Known(tx[t].segments, tx[t].found, tx[t].began)'
  BY <1>1, <1>13, <1>15, <1>16 DEF Later, Known
<1>18. clock' \in Nat /\ clock <= clock' /\ x.began <= clock'
  BY <1>2, <1>5
<1>19. QED BY <1>1, <1>4, <1>5, <1>7, <1>8, <1>9, <1>17, <1>18, StepOfOne

----------------------------------------------------------------------------
\* A row is written, by the transaction that holds it if one does, which ends.
LEMMA RowWritten ==
  ASSUME Synth!SynthAssumption, SynthInv, NEW w \in Synth!Vods, NEW r,
         synthRows' = [synthRows EXCEPT ![w] = r], IsRow(r), w \in synthRealVods => r.there,
         clock' \in Nat, clock <= clock', r.updated <= clock',
         tx' = [u \in Txs |-> tx'[u]], \A u \in Txs : tx'[u] = tx[u] \/ tx'[u] = Synth!Idle,
         \A u \in Txs : Synth!HoldsRow(u, w) => tx'[u] = Synth!Idle,
         ~r.there \/ r.updated > clock \/ \E u \in Txs : Synth!Writes(u, w) /\ tx[u].began = r.updated,
         ~r.there => \A v \in Synth!Made : w \notin Synth!SourcesOf(synthRows[v].segments),
         w \in SyntheticVods /\ r.there => \A s \in Synth!SourcesOf(r.segments) : synthRows[s].there /\ s # w,
         w \in SyntheticVods /\ r.there /\ w \notin unseen' =>
           Later(r.segments, r.updated) /\ (w \notin retitled' => Known(r.segments, r.columns, r.updated)),
         \A v \in SyntheticVods \ {w} : (v \in unseen => v \in unseen') /\ (v \in retitled => v \in retitled')
  PROVE  SynthInv'
<1>1. synthRows'[w] = r /\ \A v \in Synth!Vods : v # w => synthRows'[v] = synthRows[v]
  BY DEF SynthInv, TypesHold
<1>2. /\ clock \in Nat /\ \A u \in Txs : IsTx(tx[u]) /\ tx[u].began \in Nat /\ tx[u].began <= clock
      /\ \A v \in Synth!Vods : IsRow(synthRows[v]) /\ synthRows[v].updated \in Nat /\ synthRows[v].updated <= clock /\ synthRows[v].there \in BOOLEAN
      /\ r.updated \in Nat /\ r.there \in BOOLEAN
  BY DEF SynthInv, TypesHold, IsTx, IsRow
<1>3. TypesHold'
  <2>1. \A u \in Txs : IsTx(tx'[u]) /\ tx'[u].began <= clock'
    BY <1>2, IdleIs
  <2>2. \A v \in Synth!Vods : IsRow(synthRows'[v]) /\ synthRows'[v].updated <= clock' /\ (v \in synthRealVods => synthRows'[v].there)
    BY <1>1, <1>2 DEF SynthInv, TypesHold
  <2>3. synthRows' = [v \in Synth!Vods |-> synthRows'[v]]
    BY DEF SynthInv, TypesHold
  <2>4. (\A u \in Txs : IsTx(tx[u]) /\ tx[u].began <= clock)'
    BY <2>1
  <2>5. (\A v \in Synth!Vods : IsRow(synthRows[v]) /\ synthRows[v].updated <= clock /\ (v \in synthRealVods => synthRows[v].there))'
    BY <2>2
  <2>6. QED BY <2>3, <2>4, <2>5 DEF TypesHold
<1>4. BeganApart'
  <2>1. \A u \in Txs : tx'[u].doing # "nothing" => tx'[u] = tx[u]
    BY IdleIs
  <2>2. QED BY <2>1 DEF SynthInv, BeganApart
<1>5. \A u \in Txs, v \in Synth!Vods : Synth!HoldsRow(u, v)' => Synth!HoldsRow(u, v) /\ tx'[u] = tx[u] /\ v # w
  BY IdleIs DEF Synth!HoldsRow
<1>6. \A u \in Txs : tx'[u].step # "begun" \/ tx'[u].doing # "nothing" => tx'[u] = tx[u]
  BY IdleIs
<1>7. \A u \in Txs : tx'[u].doing \in {"change", "remove", "recompose"} /\ tx'[u].step # "begun" =>
        synthRows'[tx'[u].vod] = synthRows[tx[u].vod]
  <2>1. ASSUME NEW u \in Txs, tx'[u].doing \in {"change", "remove", "recompose"}, tx'[u].step # "begun"
        PROVE  synthRows'[tx'[u].vod] = synthRows[tx[u].vod]
    <3>1. tx'[u] = tx[u] /\ tx[u].vod \in Synth!Vods
      BY <2>1, <1>2, <1>6 DEF IsTx, Synth!Vods
    <3>2. Synth!HoldsRow(u, tx[u].vod)
      BY <3>1, <2>1 DEF Synth!HoldsRow
    <3>3. tx[u].vod # w
      BY <3>1, <3>2, <2>1, IdleIs
    <3>4. QED BY <3>1, <3>3, <1>1
  <2>2. QED BY <2>1
<1>8. LocksHold'
  <2>1. \A u \in Txs : tx'[u].doing \in {"change", "remove", "recompose"} /\ tx'[u].step # "begun" => synthRows'[tx'[u].vod].there
    BY <1>6, <1>7 DEF SynthInv, LocksHold
  <2>2. (\A u \in Txs : tx[u].doing \in {"change", "remove", "recompose"} /\ tx[u].step # "begun" => synthRows[tx[u].vod].there)'
    BY <2>1
  <2>3. (\A u, v \in Txs, x \in Synth!Vods : Synth!HoldsRow(u, x) /\ Synth!HoldsRow(v, x) => u = v)'
    BY <1>5 DEF SynthInv, LocksHold
  <2>4. QED BY <2>2, <2>3 DEF LocksHold
<1>9. Composed'
  <2>1. ASSUME NEW v \in Synth!Made', NEW s \in Synth!SourcesOf(synthRows'[v].segments) PROVE synthRows'[s].there /\ s # v
    <3>1. v \in SyntheticVods /\ v \in Synth!Vods /\ synthRows'[v].there
      BY <2>1 DEF Synth!Made, Synth!Existing
    <3>2. s \in Synth!Vods
      <4>1. synthRows'[v].segments \in Synth!AnySegments
        BY <1>1, <1>2, <3>1 DEF IsRow
      <4>2. QED BY <4>1, SourcesAre
    <3>3. CASE v = w
      BY <1>1, <2>1, <3>1, <3>2, <3>3
    <3>4. CASE v # w
      <4>1. v \in Synth!Made /\ s \in Synth!SourcesOf(synthRows[v].segments)
        BY <1>1, <2>1, <3>1, <3>4 DEF Synth!Made, Synth!Existing
      <4>2. synthRows[s].there /\ s # v /\ (~r.there => s # w)
        BY <4>1 DEF SynthInv, Composed
      <4>3. QED BY <4>2, <3>2, <1>1, <1>2
    <3>5. QED BY <3>3, <3>4
  <2>2. QED BY <2>1 DEF Composed
<1>10. ChecksHold'
  <2>1. ASSUME NEW u \in Txs, tx'[u].step = "checked"
        PROVE  /\ tx'[u].doing \in {"create", "change", "recompose"}
               /\ tx'[u].vod \notin Synth!SourcesOf(tx'[u].segments)
               /\ tx'[u].doing = "recompose" => tx'[u].segments = synthRows'[tx'[u].vod].segments
    <3>1. tx'[u] = tx[u]
      BY <2>1, <1>6
    <3>2. QED BY <2>1, <3>1, <1>7 DEF SynthInv, ChecksHold
  <2>2. QED BY <2>1 DEF ChecksHold
<1>11. ASSUME NEW segments, NEW since, Later(segments, since)
       PROVE  Later(segments, since)'
  <2>1. \A u \in Txs : \/ tx'[u].doing = "nothing"
                       \/ tx'[u].began > since
                       \/ tx'[u].vod = tx[u].vod /\ tx'[u].doing = tx[u].doing /\ tx'[u].began = tx[u].began
    BY IdleIs
  <2>2. QED BY <2>1, <1>11, LaterStays
<1>12. ASSUME NEW segments \in Synth!AnySegments, NEW columns, NEW since \in Nat, since <= clock,
              Later(segments, since), Known(segments, columns, since)
       PROVE  Known(segments, columns, since)'
  <2>1. w \in Synth!SourcesOf(segments) => ~synthRows'[w].there \/ synthRows'[w].updated > since
    <3>1. CASE r.updated > clock
      BY <3>1, <1>1, <1>2, <1>12
    <3>2. CASE \E u \in Txs : Synth!Writes(u, w) /\ tx[u].began = r.updated
      BY <3>2, <1>1, <1>12 DEF Later
    <3>3. QED BY <3>1, <3>2, <1>1
  <2>2. synthRows' = [synthRows EXCEPT ![w] = synthRows'[w]] /\ synthRows'[w].updated \in Nat /\ synthRows'[w].there \in BOOLEAN
    BY <1>1, <1>2
  <2>3. TypesHold
    BY DEF SynthInv
  <2>4. QED BY <2>1, <2>2, <2>3, <1>12, KnownStays
<1>13. ChecksKnow'
  <2>1. ASSUME NEW u \in Txs, tx'[u].step = "checked", ~tx'[u].overtaken
        PROVE  Later(tx[u].segments, tx[u].began)' /\ Known(tx[u].segments, tx[u].found, tx[u].began)'
    <3>1. PICK segments, columns, since : segments = tx[u].segments /\ columns = tx[u].found /\ since = tx[u].began
      OBVIOUS
    <3>2. tx'[u] = tx[u]
      BY <2>1, <1>6
    <3>3. segments = tx'[u].segments /\ columns = tx'[u].found /\ since = tx'[u].began
      BY <3>1, <3>2
    <3>4. Later(segments, since) /\ Known(segments, columns, since)
      BY <3>1, <2>1, <3>2 DEF SynthInv, ChecksKnow
    <3>5. since \in Nat /\ since <= clock /\ segments \in Synth!AnySegments
      BY <3>1, <1>2 DEF IsTx
    <3>6. Later(segments, since)' /\ Known(segments, columns, since)'
      BY <3>4, <3>5, <1>11, <1>12
    <3>7. QED BY <3>3, <3>6 DEF Later, Known
  <2>2. QED BY <2>1 DEF ChecksKnow
<1>14. RowsKnow'
  <2>1. ASSUME NEW v \in Synth!Made', v \notin unseen'
        PROVE  /\ Later(synthRows[v].segments, synthRows[v].updated)'
               /\ v \notin retitled' => Known(synthRows[v].segments, synthRows[v].columns, synthRows[v].updated)'
    <3>1. v \in SyntheticVods /\ v \in Synth!Vods /\ synthRows'[v].there
      BY <2>1 DEF Synth!Made, Synth!Existing
    <3>2. PICK segments, columns, since :
            segments = synthRows'[v].segments /\ columns = synthRows'[v].columns /\ since = synthRows'[v].updated
      OBVIOUS
    <3>3. segments \in Synth!AnySegments /\ since \in Nat
      BY <1>1, <1>2, <3>1, <3>2 DEF IsRow
    <3>4. Later(segments, since) /\ (v \notin retitled' => Known(segments, columns, since)')
      <4>1. CASE v = w
        <5>1. Later(segments, since) /\ (v \notin retitled' => Known(segments, columns, since)) /\ w \notin Synth!SourcesOf(segments)
          BY <4>1, <1>1, <2>1, <3>1, <3>2
        <5>2. synthRows' = [synthRows EXCEPT ![w] = synthRows'[w]] /\ synthRows'[w].updated \in Nat /\ synthRows'[w].there \in BOOLEAN /\ TypesHold
          BY <1>1, <1>2 DEF SynthInv
        <5>3. QED BY <3>3, <5>1, <5>2, KnownStays
      <4>2. CASE v # w
        <5>1. v \in Synth!Made \ unseen /\ segments = synthRows[v].segments /\ columns = synthRows[v].columns /\ since = synthRows[v].updated
          BY <4>2, <1>1, <2>1, <3>1, <3>2 DEF Synth!Made, Synth!Existing
        <5>2. Later(segments, since) /\ (v \notin retitled => Known(segments, columns, since)) /\ since <= clock
          BY <5>1, <3>1, <1>2 DEF SynthInv, RowsKnow
        <5>3. QED BY <5>2, <3>1, <3>3, <4>2, <1>12
      <4>3. QED BY <4>1, <4>2
    <3>5. Later(segments, since)'
      BY <3>4, <1>11
    <3>6. QED BY <3>2, <3>4, <3>5 DEF Later, Known
  <2>2. QED BY <2>1 DEF RowsKnow
<1>15. QED BY <1>3, <1>4, <1>8, <1>9, <1>10, <1>13, <1>14 DEF SynthInv
----------------------------------------------------------------------------
(* A recursive function is what its definition says, from 0 on.             *)

Below(f, d, segments, inner) ==
  IF d = 0 THEN Synth!SourcesOf(segments) \cap DOMAIN inner
  ELSE UNION {Synth!SourcesOf(inner[v]) : v \in f[d - 1]} \cap DOMAIN inner

HasLevels(m, segments, inner) == \E f : f = [d \in 0..m |-> Below(f, d, segments, inner)]

LEMMA LevelsExist == ASSUME NEW n \in Nat, NEW segments, NEW inner PROVE HasLevels(n, segments, inner)
<1> USE DEF HasLevels
<1> DEFINE Has(m) == \E f : f = [d \in 0..m |-> Below(f, d, segments, inner)]
           Bad == {m \in Nat : ~Has(m)}
<1>1. SUFFICES ASSUME Bad # {} PROVE FALSE
  OBVIOUS
<1>2. PICK m \in Bad : \A k \in Bad : m <= k
  BY <1>1, Least
<1>3. m \in Nat /\ ~Has(m)
  BY <1>2
<1>4. CASE m = 0
  <2> DEFINE f == [d \in 0..0 |-> Synth!SourcesOf(segments) \cap DOMAIN inner]
  <2>1. f = [d \in 0..0 |-> Below(f, d, segments, inner)]
    BY DEF Below
  <2>2. QED BY <1>3, <1>4, <2>1
<1>5. CASE m # 0
  <2>1. m - 1 \in Nat /\ m - 1 \notin Bad
    BY <1>2, <1>3, <1>5
  <2>2. Has(m - 1)
    BY <2>1
  <2>3. PICK f : f = [d \in 0..(m - 1) |-> Below(f, d, segments, inner)]
    BY <2>2
  <2> DEFINE g == [d \in 0..m |-> IF d = m THEN Below(f, m, segments, inner) ELSE f[d]]
  <2>4. ASSUME NEW d \in 0..m PROVE g[d] = Below(g, d, segments, inner)
    <3>1. CASE d = 0
      BY <2>3, <3>1, <1>3, <1>5 DEF Below
    <3>2. CASE d # 0
      <4>1. d - 1 \in 0..m /\ d - 1 # m /\ g[d - 1] = f[d - 1]
        BY <3>2, <1>3
      <4>2. Below(g, d, segments, inner) = Below(f, d, segments, inner)
        BY <3>2, <4>1 DEF Below
      <4>3. CASE d = m
        BY <4>2, <4>3
      <4>4. CASE d # m
        <5>1. d \in 0..(m - 1)
          BY <4>4, <1>3
        <5>2. f[d] = Below(f, d, segments, inner)
          BY <2>3, <5>1
        <5>3. QED BY <4>2, <4>4, <5>2
      <4>5. QED BY <4>3, <4>4
    <3>3. QED BY <3>1, <3>2
  <2>5. g = [d \in 0..m |-> Below(g, d, segments, inner)]
    BY <2>4
  <2>6. QED BY <1>3, <2>5
<1>6. QED BY <1>4, <1>5

LEMMA FirstLevel ==
  ASSUME MaxDepth \in Nat, NEW segments, NEW inner PROVE Synth!Levels(segments, inner)[0] = Synth!SourcesOf(segments) \cap DOMAIN inner
<1>1. Synth!Levels(segments, inner) = CHOOSE f : f = [d \in 0..(MaxDepth + 1) |-> Below(f, d, segments, inner)]
  BY DEF Synth!Levels, Below
<1>2. PICK n \in Nat : n = MaxDepth + 1
  OBVIOUS
<1>3. PICK f : f = Synth!Levels(segments, inner) /\ f = [d \in 0..n |-> Below(f, d, segments, inner)]
  <2>1. \E f : f = [d \in 0..n |-> Below(f, d, segments, inner)]
    <3>1. HasLevels(n, segments, inner)
      BY <1>2, LevelsExist
    <3>2. QED BY <3>1 DEF HasLevels
  <2>2. Synth!Levels(segments, inner) = CHOOSE f : f = [d \in 0..n |-> Below(f, d, segments, inner)]
    BY <1>1, <1>2
  <2>3. QED BY <2>1, <2>2
<1>4. 0 \in 0..n
  BY <1>2
<1>5. QED BY <1>3, <1>4 DEF Below
----------------------------------------------------------------------------
(* The steps.                                                               *)

LEMMA LockInv == ASSUME Synth!SynthAssumption, SynthInv, NEW t \in Txs, Synth!Lock(t) PROVE SynthInv'
<1>1. CASE synthRows[tx[t].vod].there
  BY <1>1, Locks DEF Synth!Lock
<1>2. CASE ~synthRows[tx[t].vod].there
  BY <1>2, Ends DEF Synth!Lock
<1>3. QED BY <1>1, <1>2

LEMMA CheckInv ==
  ASSUME Synth!SynthAssumption, SynthInv, NEW t \in Txs, NEW request \in Requests, Synth!Check(t, request[1], request[2])
  PROVE  SynthInv'
<1>1. PICK v, segments : v = tx[t].vod /\ segments = IF request[1] = Kept THEN synthRows[v].segments ELSE request[1]
  OBVIOUS
<1>2. /\ \/ tx[t].doing = "create" /\ tx[t].step = "begun" /\ request[1] # Kept
         \/ tx[t].doing = "change" /\ tx[t].step = "locked"
      /\ IF (tx[t].doing = "create" => ~synthRows[v].there) /\ Synth!Checked(v, segments, request[2])
         THEN Synth!Read(t, segments, request[2]) ELSE Synth!End(t)
      /\ UNCHANGED <<synthRows, synthTodo, clock, unseen, retitled, together>>
  BY <1>1, Zenon DEF Synth!Check
<1>3. CASE (tx[t].doing = "create" => ~synthRows[v].there) /\ Synth!Checked(v, segments, request[2])
  <2>1. v \in SyntheticVods /\ v \in Synth!Vods /\ IsRow(synthRows[v])
    BY <1>1, <1>2 DEF SynthInv, TypesHold, IsTx, Synth!Vods
  <2>2. segments \in Synth!AnySegments
    BY <1>1, <1>2, <2>1 DEF Synth!SynthAssumption, IsRow
  <2>3. \A i \in DOMAIN segments : segments[i].src \in DOMAIN Synth!Now
    BY <1>3 DEF Synth!Checked, Synth!Valid
  <2>4. \A s \in Synth!SourcesOf(segments) : synthRows[s].there
    BY <2>3 DEF Synth!SourcesOf, Synth!ToSet, Synth!Now, Synth!Existing
  <2>5. v \notin Synth!SourcesOf(segments)
    <3>1. v \notin Synth!Levels(segments, Synth!InnerNow)[0]
      BY <1>3 DEF Synth!Checked, Synth!CheckNesting, Synth!SynthAssumption
    <3>2. v \notin Synth!SourcesOf(segments) \cap Synth!Made
      BY <3>1, FirstLevel DEF Synth!InnerNow, Synth!SynthAssumption
    <3>3. QED BY <2>1, <2>4, <3>2 DEF Synth!Made, Synth!Existing
  <2>6. Synth!Read(t, segments, request[2])
    BY <1>2, <1>3
  <2>7. QED BY <1>1, <1>2, <2>2, <2>4, <2>5, <2>6, Reads
<1>4. CASE ~((tx[t].doing = "create" => ~synthRows[v].there) /\ Synth!Checked(v, segments, request[2]))
  BY <1>2, <1>4, Ends
<1>5. QED BY <1>3, <1>4

LEMMA SynthCreateInv == ASSUME Synth!SynthAssumption, SynthInv, NEW t \in Txs, NEW v \in SyntheticVods, Synth!Create(t, v) PROVE SynthInv'
BY Begins DEF Synth!Create, Synth!Vods

LEMMA ChangeInv == ASSUME Synth!SynthAssumption, SynthInv, NEW t \in Txs, NEW v \in SyntheticVods, Synth!Change(t, v) PROVE SynthInv'
BY Begins DEF Synth!Change, Synth!Vods

LEMMA SynthDeleteInv == ASSUME Synth!SynthAssumption, SynthInv, NEW t \in Txs, NEW v \in SyntheticVods, Synth!Delete(t, v) PROVE SynthInv'
BY Begins DEF Synth!Delete, Synth!Vods

LEMMA EditInv == ASSUME Synth!SynthAssumption, SynthInv, NEW t \in Txs, NEW v \in synthRealVods, Synth!Edit(t, v) PROVE SynthInv'
BY Begins DEF Synth!Edit, Synth!Vods

LEMMA AbortInv == ASSUME Synth!SynthAssumption, SynthInv, NEW t \in Txs, Synth!Abort(t) PROVE SynthInv'
BY Ends DEF Synth!Abort

LEMMA SameInv == ASSUME SynthInv, UNCHANGED <<synthRows, tx, clock, unseen, retitled>> PROVE SynthInv'
<1>1. TypesHold'
  BY DEF SynthInv, TypesHold
<1>2. BeganApart'
  BY DEF SynthInv, BeganApart
<1>3. LocksHold'
  BY DEF SynthInv, LocksHold, Synth!HoldsRow
<1>4. Composed' /\ ChecksHold'
  BY DEF SynthInv, Composed, Synth!Made, Synth!Existing, ChecksHold
<1>5. ChecksKnow'
  BY DEF SynthInv, ChecksKnow, Later, Synth!Writes, Known, Synth!Now, Synth!Existing
<1>6. RowsKnow'
  BY DEF SynthInv, RowsKnow, Synth!Made, Later, Synth!Writes, Known, Synth!Now, Synth!Existing
<1>7. QED BY <1>1, <1>2, <1>3, <1>4, <1>5, <1>6 DEF SynthInv

LEMMA RecomposeInv == ASSUME Synth!SynthAssumption, SynthInv, NEW t \in Txs, NEW v \in SyntheticVods, Synth!Recompose(t, v) PROVE SynthInv'
<1>1. CASE v \in Synth!Made /\ ~Synth!Locked(v)
  <2>1. synthRows[v].there /\ v \in Synth!Vods
    BY <1>1 DEF Synth!Made, Synth!Existing
  <2>2. QED BY <1>1, <2>1, Begins DEF Synth!Recompose
<1>2. CASE ~(v \in Synth!Made /\ ~Synth!Locked(v))
  BY <1>2, SameInv DEF Synth!Recompose
<1>3. QED BY <1>1, <1>2

LEMMA ReadSourcesInv == ASSUME Synth!SynthAssumption, SynthInv, NEW t \in Txs, Synth!ReadSources(t) PROVE SynthInv'
<1>1. PICK v, segments, supersedes : v = tx[t].vod /\ segments = synthRows[v].segments /\ supersedes = synthRows[v].supersedes
  OBVIOUS
<1>2. /\ tx[t].doing = "recompose" /\ tx[t].step = "locked" /\ Synth!Read(t, segments, supersedes)
      /\ UNCHANGED <<synthRows, synthTodo, clock, unseen, retitled, together>>
  BY <1>1 DEF Synth!ReadSources
<1>3. v \in SyntheticVods /\ v \in Synth!Vods /\ synthRows[v].there /\ IsRow(synthRows[v])
  BY <1>1, <1>2 DEF SynthInv, TypesHold, IsTx, Synth!Vods, LocksHold
<1>4. v \in Synth!Made /\ segments \in Synth!AnySegments
  BY <1>1, <1>3 DEF Synth!Made, Synth!Existing, IsRow
<1>5. v \notin Synth!SourcesOf(segments) /\ \A s \in Synth!SourcesOf(segments) : synthRows[s].there
  BY <1>1, <1>4 DEF SynthInv, Composed
<1>6. QED BY <1>1, <1>2, <1>4, <1>5, Reads
\* What a transaction that ends was, and what the others stay.
LEMMA EndIs ==
  ASSUME SynthInv, NEW t \in Txs, Synth!End(t), NEW w \in Synth!Vods, w = tx[t].vod,
         (tx[t].doing = "create" /\ ~synthRows[w].there) \/ Synth!HoldsRow(t, w)
  PROVE  /\ tx' = [u \in Txs |-> tx'[u]] /\ \A u \in Txs : tx'[u] = tx[u] \/ tx'[u] = Synth!Idle
         /\ \A u \in Txs : Synth!HoldsRow(u, w) => tx'[u] = Synth!Idle
<1>1. tx' = [u \in Txs |-> tx'[u]] /\ tx'[t] = Synth!Idle /\ \A u \in Txs : u # t => tx'[u] = tx[u]
  BY DEF Synth!End, SynthInv, TypesHold
<1>2. ASSUME NEW u \in Txs, Synth!HoldsRow(u, w) PROVE u = t
  <2>1. CASE Synth!HoldsRow(t, w)
    BY <1>2, <2>1 DEF SynthInv, LocksHold
  <2>2. CASE tx[t].doing = "create" /\ ~synthRows[w].there
    <3>1. /\ tx[u].vod = w
          /\ tx[u].doing = "edit" \/ (tx[u].doing \in {"change", "remove", "recompose"} /\ tx[u].step # "begun")
      <4>1. Synth!HoldsRow(u, w)
        BY <1>2
      <4>2. QED BY <4>1 DEF Synth!HoldsRow
    <3>2. tx[u].doing # "edit"
      BY <2>2, <3>1 DEF SynthInv, TypesHold, IsTx
    <3>3. QED BY <2>2, <3>1, <3>2 DEF SynthInv, LocksHold
  <2>3. QED BY <2>1, <2>2
<1>3. QED BY <1>1, <1>2

LEMMA CommitWriteInv == ASSUME Synth!SynthAssumption, SynthInv, NEW t \in Txs, Synth!CommitWrite(t) PROVE SynthInv'
<1>1. PICK w, r : w = tx[t].vod
                  /\ r = [there |-> TRUE, columns |-> tx[t].found, updated |-> tx[t].began, segments |-> tx[t].segments,
                          supersedes |-> tx[t].supersedes]
  OBVIOUS
<1>2. CASE synthRows[w] = [r EXCEPT !.updated = synthRows[w].updated]
  <2>1. UNCHANGED <<synthRows, unseen, retitled, clock>> /\ Synth!End(t)
    BY <1>1, <1>2 DEF Synth!CommitWrite, Synth!Write, Synth!DatedAt
  <2>2. QED BY <2>1, Ends
<1>3. CASE synthRows[w] # [r EXCEPT !.updated = synthRows[w].updated]
  <2>1. /\ synthRows' = [synthRows EXCEPT ![w] = r] /\ Synth!End(t) /\ clock' = clock
        /\ unseen' = (IF tx[t].overtaken THEN unseen \cup {w} ELSE unseen \ {w}) /\ retitled' = retitled \ {w}
    BY <1>1, <1>3 DEF Synth!CommitWrite, Synth!Write, Synth!DatedAt
  <2>2. /\ tx[t].doing \in {"create", "change"} /\ tx[t].step = "checked" /\ (tx[t].doing = "create" => ~synthRows[w].there)
        /\ \A s \in Synth!SourcesOf(tx[t].segments) : synthRows[s].there
    BY <1>1 DEF Synth!CommitWrite, Synth!CanInsert
  <2>3. IsTx(tx[t]) /\ tx[t].began <= clock /\ clock \in Nat
    BY DEF SynthInv, TypesHold
  <2>4. w \in SyntheticVods /\ w \in Synth!Vods /\ w \notin synthRealVods
    BY <1>1, <2>2, <2>3 DEF IsTx, Synth!Vods, Synth!SynthAssumption
  <2>5. IsRow(r) /\ r.there /\ r.updated = tx[t].began /\ r.segments = tx[t].segments /\ r.columns = tx[t].found
    BY <1>1, <2>3 DEF IsRow, IsTx
  <2>6. Synth!Writes(t, w) /\ ((tx[t].doing = "create" /\ ~synthRows[w].there) \/ Synth!HoldsRow(t, w))
    BY <1>1, <2>2 DEF Synth!Writes, Synth!HoldsRow
  <2>7. \A s \in Synth!SourcesOf(r.segments) : synthRows[s].there /\ s # w
    BY <1>1, <2>2, <2>5 DEF SynthInv, ChecksHold
  <2>8. w \notin unseen' => Later(r.segments, r.updated) /\ Known(r.segments, r.columns, r.updated)
    BY <2>1, <2>2, <2>3, <2>5 DEF SynthInv, ChecksKnow
  <2>9. \A v \in SyntheticVods \ {w} : (v \in unseen => v \in unseen') /\ (v \in retitled => v \in retitled')
    BY <2>1
  <2>10. /\ tx' = [u \in Txs |-> tx'[u]] /\ \A u \in Txs : tx'[u] = tx[u] \/ tx'[u] = Synth!Idle
         /\ \A u \in Txs : Synth!HoldsRow(u, w) => tx'[u] = Synth!Idle
    BY <1>1, <2>1, <2>4, <2>6, EndIs
  <2>11. clock' \in Nat /\ clock <= clock' /\ r.updated <= clock'
    BY <2>1, <2>3, <2>5
  <2>12. QED BY <2>1, <2>4, <2>5, <2>6, <2>7, <2>8, <2>9, <2>10, <2>11, RowWritten
<1>4. QED BY <1>2, <1>3

LEMMA NoRowIs == IsRow(Synth!NoRow) /\ Synth!NoRow.there = FALSE /\ Synth!NoRow.updated = 0
BY DEF IsRow, Synth!NoRow, Synth!AnySegments

LEMMA CommitDeleteInv == ASSUME Synth!SynthAssumption, SynthInv, NEW t \in Txs, Synth!CommitDelete(t) PROVE SynthInv'
<1>1. PICK w : w = tx[t].vod
  OBVIOUS
<1>2. tx[t].doing = "remove" /\ tx[t].step = "locked" /\ Synth!End(t) /\ UNCHANGED <<synthTodo, clock, unseen, retitled, together>>
  BY DEF Synth!CommitDelete
<1>3. CASE \E v \in Synth!Made : w \in Synth!SourcesOf(synthRows[v].segments)
  <2>1. synthRows' = synthRows
    BY <1>1, <1>3 DEF Synth!CommitDelete
  <2>2. QED BY <1>2, <2>1, Ends
<1>4. CASE ~\E v \in Synth!Made : w \in Synth!SourcesOf(synthRows[v].segments)
  <2>1. synthRows' = [synthRows EXCEPT ![w] = Synth!NoRow]
    BY <1>1, <1>4 DEF Synth!CommitDelete
  <2>2. w \in SyntheticVods /\ w \in Synth!Vods /\ w \notin synthRealVods /\ clock \in Nat
    BY <1>1, <1>2 DEF SynthInv, TypesHold, IsTx, Synth!Vods, Synth!SynthAssumption
  <2>3. Synth!HoldsRow(t, w)
    BY <1>1, <1>2 DEF Synth!HoldsRow
  <2>4. /\ tx' = [u \in Txs |-> tx'[u]] /\ \A u \in Txs : tx'[u] = tx[u] \/ tx'[u] = Synth!Idle
        /\ \A u \in Txs : Synth!HoldsRow(u, w) => tx'[u] = Synth!Idle
    BY <1>1, <1>2, <2>2, <2>3, EndIs
  <2>5. clock' \in Nat /\ clock <= clock' /\ Synth!NoRow.updated <= clock'
    BY <1>2, <2>2, NoRowIs
  <2>6. QED BY <1>2, <1>4, <2>1, <2>2, <2>4, <2>5, NoRowIs, RowWritten
<1>5. QED BY <1>3, <1>4

\* A row whose date is written.
LEMMA Redated ==
  ASSUME NEW x, IsRow(x), NEW at \in Nat, NEW r, r = [x EXCEPT !.updated = at]
  PROVE  IsRow(r) /\ r.there = x.there /\ r.segments = x.segments /\ r.updated = at /\ r.columns = x.columns
<1>1. r = [there |-> x.there, columns |-> x.columns, updated |-> at, segments |-> x.segments, supersedes |-> x.supersedes]
  BY DEF IsRow
<1>2. QED BY <1>1 DEF IsRow

LEMMA CommitEditInv == ASSUME Synth!SynthAssumption, SynthInv, NEW t \in Txs, Synth!CommitEdit(t) PROVE SynthInv'
<1>1. PICK w, at, columns : w = tx[t].vod /\ at = tx[t].began /\ columns = Synth!RealColumns(at)
  OBVIOUS
<1>2. PICK r : r = [synthRows[w] EXCEPT !.columns = columns, !.updated = at]
  OBVIOUS
<1>3. tx[t].doing = "edit" /\ Synth!End(t) /\ UNCHANGED <<synthTodo, clock, unseen, retitled, together>>
  BY DEF Synth!CommitEdit
<1>4. w \in synthRealVods /\ w \in Synth!Vods /\ w \notin SyntheticVods /\ IsRow(synthRows[w]) /\ synthRows[w].there /\ clock \in Nat /\ at \in Nat /\ at <= clock
  BY <1>1, <1>3 DEF SynthInv, TypesHold, IsTx, Synth!Vods, Synth!SynthAssumption
<1>5. synthRows' = [synthRows EXCEPT ![w] = r]
  <2>1. synthRows' = [synthRows EXCEPT ![w].columns = columns, ![w].updated = at]
    BY <1>1, Zenon DEF Synth!CommitEdit
  <2>2. synthRows' = [synthRows EXCEPT ![w] = [[synthRows[w] EXCEPT !.columns = columns] EXCEPT !.updated = at]]
    BY <1>4, <2>1, ZenonT(30) DEF TypesHold, SynthInv
  <2>3. QED BY <1>2, <2>2, Zenon
<1>6. IsRow(r) /\ r.there /\ r.updated = at
  <2>1. r = [there |-> synthRows[w].there, columns |-> columns, updated |-> at, segments |-> synthRows[w].segments,
             supersedes |-> synthRows[w].supersedes]
    BY <1>2, <1>4 DEF IsRow
  <2>2. QED BY <1>4, <2>1 DEF IsRow
<1>7. Synth!Writes(t, w) /\ Synth!HoldsRow(t, w)
  BY <1>1, <1>3 DEF Synth!Writes, Synth!HoldsRow
<1>8. /\ tx' = [u \in Txs |-> tx'[u]] /\ \A u \in Txs : tx'[u] = tx[u] \/ tx'[u] = Synth!Idle
      /\ \A u \in Txs : Synth!HoldsRow(u, w) => tx'[u] = Synth!Idle
  BY <1>1, <1>3, <1>4, <1>7, EndIs
<1>9. clock' \in Nat /\ clock <= clock' /\ r.updated <= clock'
  BY <1>3, <1>4, <1>6
<1>10. QED BY <1>1, <1>3, <1>4, <1>5, <1>6, <1>7, <1>8, <1>9, RowWritten

LEMMA CommitRecomposeInv == ASSUME Synth!SynthAssumption, SynthInv, NEW t \in Txs, Synth!CommitRecompose(t) PROVE SynthInv'
<1>1. PICK w, at, columns : w = tx[t].vod /\ at = tx[t].began /\ columns = tx[t].found
  OBVIOUS
<1>2. PICK r : r = [synthRows[w] EXCEPT !.columns = columns, !.updated = at]
  OBVIOUS
<1>3. /\ tx[t].doing = "recompose" /\ tx[t].step = "checked" /\ Synth!End(t) /\ clock' = clock
      /\ unseen' = (IF tx[t].overtaken THEN unseen \cup {w} ELSE unseen \ {w}) /\ retitled' = retitled \ {w}
  BY <1>1 DEF Synth!CommitRecompose
<1>4. /\ w \in SyntheticVods /\ w \in Synth!Vods /\ w \notin synthRealVods /\ IsRow(synthRows[w]) /\ synthRows[w].there
      /\ clock \in Nat /\ at \in Nat /\ at <= clock
  BY <1>1, <1>3 DEF SynthInv, TypesHold, IsTx, Synth!Vods, Synth!SynthAssumption, LocksHold
<1>5. synthRows' = [synthRows EXCEPT ![w] = r]
  <2>1. synthRows' = [synthRows EXCEPT ![w].columns = columns, ![w].updated = at]
    BY <1>1, Zenon DEF Synth!CommitRecompose, Synth!DatedAt
  <2>2. synthRows' = [synthRows EXCEPT ![w] = [[synthRows[w] EXCEPT !.columns = columns] EXCEPT !.updated = at]]
    BY <1>4, <2>1, ZenonT(30) DEF TypesHold, SynthInv
  <2>3. QED BY <1>2, <2>2, Zenon
<1>6. IsRow(r) /\ r.there /\ r.updated = at /\ r.segments = synthRows[w].segments /\ r.columns = columns
  <2>1. r = [there |-> synthRows[w].there, columns |-> columns, updated |-> at, segments |-> synthRows[w].segments,
             supersedes |-> synthRows[w].supersedes]
    BY <1>2, <1>4 DEF IsRow
  <2>2. QED BY <1>4, <2>1 DEF IsRow
<1>7. Synth!Writes(t, w) /\ Synth!HoldsRow(t, w)
  BY <1>1, <1>3 DEF Synth!Writes, Synth!HoldsRow
<1>8. /\ tx' = [u \in Txs |-> tx'[u]] /\ \A u \in Txs : tx'[u] = tx[u] \/ tx'[u] = Synth!Idle
      /\ \A u \in Txs : Synth!HoldsRow(u, w) => tx'[u] = Synth!Idle
  BY <1>1, <1>3, <1>4, <1>7, EndIs
<1>9. clock' \in Nat /\ clock <= clock' /\ r.updated <= clock'
  BY <1>3, <1>4, <1>6
<1>10. \A s \in Synth!SourcesOf(r.segments) : synthRows[s].there /\ s # w
  BY <1>4, <1>6 DEF SynthInv, Composed, Synth!Made, Synth!Existing
<1>11. w \notin unseen' => Later(r.segments, r.updated) /\ Known(r.segments, r.columns, r.updated)
  <2>1. tx[t].segments = r.segments /\ tx[t].overtaken \in BOOLEAN
    BY <1>1, <1>3, <1>6 DEF SynthInv, ChecksHold, TypesHold, IsTx
  <2>2. QED BY <1>1, <1>3, <1>6, <2>1 DEF SynthInv, ChecksKnow
<1>12. \A v \in SyntheticVods \ {w} : (v \in unseen => v \in unseen') /\ (v \in retitled => v \in retitled')
  BY <1>3
<1>13. QED BY <1>1, <1>4, <1>5, <1>6, <1>7, <1>8, <1>9, <1>10, <1>11, <1>12, RowWritten

\* A title that is changed dates columns that are not stale, or the VOD counts as retitled.
LEMMA RetitleInv == ASSUME Synth!SynthAssumption, SynthInv, NEW w \in SyntheticVods, Synth!Retitle(w) PROVE SynthInv'
<1>1. PICK at : at = clock + 1
  OBVIOUS
<1>2. PICK r : r = [synthRows[w] EXCEPT !.updated = at]
  OBVIOUS
<1>3. /\ w \in Synth!Made /\ ~Synth!Locked(w) /\ clock' = at /\ tx' = tx
      /\ unseen' = unseen \cup {u \in {w} : \E t \in Txs, s \in Synth!SourcesOf(synthRows[w].segments) : Synth!Writes(t, s)}
      /\ retitled' = retitled \cup (Synth!StaleIds \cap {w})
  BY <1>1 DEF Synth!Retitle
<1>4. /\ w \in Synth!Vods /\ w \notin synthRealVods /\ IsRow(synthRows[w]) /\ synthRows[w].there
      /\ clock \in Nat /\ at \in Nat /\ clock < at
  <2>1. w \in Synth!Vods /\ w \notin synthRealVods
    BY DEF Synth!Vods, Synth!SynthAssumption
  <2>2. IsRow(synthRows[w]) /\ clock \in Nat
    BY <2>1 DEF SynthInv, TypesHold
  <2>3. synthRows[w].there
    BY <1>3 DEF Synth!Made, Synth!Existing
  <2>4. QED BY <1>1, <2>1, <2>2, <2>3
<1>5. synthRows' = [synthRows EXCEPT ![w] = r]
  BY <1>1, <1>2 DEF Synth!Retitle
<1>6. IsRow(r) /\ r.there /\ r.updated = at /\ r.segments = synthRows[w].segments /\ r.columns = synthRows[w].columns
  BY <1>2, <1>4, Redated
<1>7. \A u \in Txs : ~Synth!HoldsRow(u, w)
  BY <1>3 DEF Synth!Locked
<1>8. tx' = [u \in Txs |-> tx'[u]] /\ \A u \in Txs : tx'[u] = tx[u]
  BY <1>3 DEF SynthInv, TypesHold
<1>9. clock' \in Nat /\ clock <= clock' /\ r.updated <= clock' /\ r.updated > clock
  BY <1>3, <1>4, <1>6
<1>10. \A s \in Synth!SourcesOf(r.segments) : synthRows[s].there /\ s # w
  BY <1>3, <1>6 DEF SynthInv, Composed
<1>11. ASSUME w \notin unseen' PROVE Later(r.segments, r.updated)
  BY <1>11, <1>3, <1>6 DEF Later
<1>12. ASSUME w \notin unseen', w \notin retitled' PROVE Known(r.segments, r.columns, r.updated)
  <2>1. w \notin Synth!StaleIds /\ w \notin unseen /\ w \notin retitled
    BY <1>12, <1>3
  <2>2. Known(synthRows[w].segments, synthRows[w].columns, synthRows[w].updated)
    BY <1>3, <2>1 DEF SynthInv, RowsKnow
  <2>3. synthRows[w].columns = Synth!Derive(synthRows[w].segments, Synth!Now)
    BY <1>3, <1>6, <1>10, <2>1, <2>2 DEF Known, Synth!StaleIds
  <2>4. QED BY <1>6, <1>10, <2>3 DEF Known
<1>13. \A v \in SyntheticVods \ {w} : (v \in unseen => v \in unseen') /\ (v \in retitled => v \in retitled')
  BY <1>3
<1>14. QED BY <1>4, <1>5, <1>6, <1>7, <1>8, <1>9, <1>10, <1>11, <1>12, <1>13, RowWritten

LEMMA SynthNextInv == ASSUME Synth!SynthAssumption, SynthInv, Synth!Next PROVE SynthInv'
<1>1. ASSUME NEW t \in Txs, Synth!Lock(t) \/ Synth!CommitWrite(t) \/ Synth!CommitDelete(t) \/ Synth!Abort(t) PROVE SynthInv'
  BY <1>1, LockInv, CommitWriteInv, CommitDeleteInv, AbortInv
<1>2. ASSUME NEW t \in Txs, Synth!CommitEdit(t) \/ Synth!ReadSources(t) \/ Synth!CommitRecompose(t) PROVE SynthInv'
  BY <1>2, CommitEditInv, ReadSourcesInv, CommitRecomposeInv
<1>3. ASSUME NEW t \in Txs, NEW request \in Requests, Synth!Check(t, request[1], request[2]) PROVE SynthInv'
  BY <1>3, CheckInv
<1>4. ASSUME NEW t \in Txs, NEW v \in synthRealVods, Synth!Edit(t, v) PROVE SynthInv'
  BY <1>4, EditInv
<1>5. ASSUME NEW t \in Txs, NEW v \in SyntheticVods, Synth!Create(t, v) \/ Synth!Change(t, v) \/ Synth!Delete(t, v) \/ Synth!Recompose(t, v)
      PROVE  SynthInv'
  BY <1>5, SynthCreateInv, ChangeInv, SynthDeleteInv, RecomposeInv
<1>6. ASSUME NEW v \in SyntheticVods, Synth!Retitle(v) PROVE SynthInv'
  BY <1>6, RetitleInv
<1>7. CASE Synth!FindStale
  BY <1>7, SameInv DEF Synth!FindStale
<1>8. QED BY <1>1, <1>2, <1>3, <1>4, <1>5, <1>6, <1>7 DEF Synth!Next

LEMMA InvSynth == SynthInv => Synth!StaleIsKnown
<1>1. SUFFICES ASSUME SynthInv, NEW v \in Synth!Made \ (unseen \cup retitled) PROVE Synth!Fresh(v) \/ v \in Synth!StaleIds
  BY DEF Synth!StaleIsKnown
<1>2. Known(synthRows[v].segments, synthRows[v].columns, synthRows[v].updated) /\ \A s \in Synth!SourcesOf(synthRows[v].segments) : synthRows[s].there
  BY <1>1 DEF SynthInv, RowsKnow, Composed
<1>3. QED BY <1>1, <1>2 DEF Known, Synth!Fresh, Synth!StaleIds
----------------------------------------------------------------------------
(* The VODs that are made already.                                          *)

RowsAfter(f, n) ==
  IF n = 0 THEN [v \in Synth!Vods |-> IF v \in synthRealVods THEN Synth!RowAtFirst(Synth!RealColumns(0), <<>>) ELSE Synth!NoRow]
  ELSE [f[n - 1] EXCEPT ![AtFirst[n][1]] =
          Synth!RowAtFirst(Synth!Derive(AtFirst[n][2], [v \in Synth!Vods |-> f[n - 1][v].columns]), AtFirst[n][2])]

HasRows(m) == \E f : f = [n \in 0..m |-> RowsAfter(f, n)]

LEMMA RowsExist == ASSUME NEW made \in Nat PROVE HasRows(made)
<1> DEFINE Bad == {m \in Nat : ~HasRows(m)}
<1>1. SUFFICES ASSUME Bad # {} PROVE FALSE
  OBVIOUS
<1>2. PICK m \in Bad : \A k \in Bad : m <= k
  BY <1>1, Least
<1>3. m \in Nat /\ ~HasRows(m)
  BY <1>2
<1>4. CASE m = 0
  <2> DEFINE f == [n \in 0..0 |-> [v \in Synth!Vods |-> IF v \in synthRealVods THEN Synth!RowAtFirst(Synth!RealColumns(0), <<>>) ELSE Synth!NoRow]]
  <2>1. f = [n \in 0..0 |-> RowsAfter(f, n)]
    BY DEF RowsAfter
  <2>2. QED BY <1>3, <1>4, <2>1 DEF HasRows
<1>5. CASE m # 0
  <2>1. m - 1 \in Nat /\ m - 1 \notin Bad
    BY <1>2, <1>3, <1>5
  <2>2. HasRows(m - 1)
    BY <2>1
  <2>3. PICK f : f = [n \in 0..(m - 1) |-> RowsAfter(f, n)]
    BY <2>2 DEF HasRows
  <2> DEFINE g == [n \in 0..m |-> IF n = m THEN RowsAfter(f, m) ELSE f[n]]
  <2>4. ASSUME NEW d \in 0..m PROVE g[d] = RowsAfter(g, d)
    <3>1. CASE d = 0
      BY <2>3, <3>1, <1>3, <1>5 DEF RowsAfter
    <3>2. CASE d # 0
      <4>1. d - 1 \in 0..m /\ d - 1 # m /\ g[d - 1] = f[d - 1]
        BY <3>2, <1>3
      <4>2. RowsAfter(g, d) = RowsAfter(f, d)
        BY <3>2, <4>1 DEF RowsAfter
      <4>3. CASE d = m
        BY <4>2, <4>3
      <4>4. CASE d # m
        <5>1. d \in 0..(m - 1)
          BY <4>4, <1>3
        <5>2. f[d] = RowsAfter(f, d)
          BY <2>3, <5>1
        <5>3. QED BY <4>2, <4>4, <5>2
      <4>5. QED BY <4>3, <4>4
    <3>3. QED BY <3>1, <3>2
  <2>5. g = [n \in 0..m |-> RowsAfter(g, n)]
    BY <2>4
  <2>6. QED BY <1>3, <2>5 DEF HasRows
<1>6. QED BY <1>4, <1>5

LEMMA RowsAtFirstAre ==
  ASSUME Synth!SynthAssumption, NEW n \in 0..Len(AtFirst) PROVE Synth!RowsAtFirst[n] = RowsAfter(Synth!RowsAtFirst, n)
<1>1. PICK m \in Nat : m = Len(AtFirst)
  BY DEF Synth!SynthAssumption
<1>2. Synth!RowsAtFirst = CHOOSE f : f = [k \in 0..m |-> RowsAfter(f, k)]
  BY <1>1 DEF Synth!RowsAtFirst, RowsAfter
<1>3. \E f : f = [k \in 0..m |-> RowsAfter(f, k)]
  <2>1. HasRows(m)
    BY <1>1, RowsExist
  <2>2. QED BY <2>1 DEF HasRows
<1>4. PICK f : f = Synth!RowsAtFirst /\ f = [k \in 0..m |-> RowsAfter(f, k)]
  BY <1>2, <1>3
<1>5. n \in 0..m
  BY <1>1
<1>6. QED BY <1>4, <1>5

\* Rows that are fresh, of which the first n of AtFirst are made.
MadeBy(n) == {AtFirst[j][1] : j \in 1..n}
Columns(x) == [v \in Synth!Vods |-> x[v].columns]
FreshRows(x, n) ==
  /\ x = [v \in Synth!Vods |-> x[v]]
  /\ \A v \in Synth!Vods : IsRow(x[v]) /\ x[v].updated = 0 /\ (x[v].there <=> v \in synthRealVods \cup MadeBy(n))
  /\ \A v \in MadeBy(n) : /\ \A s \in Synth!SourcesOf(x[v].segments) : x[s].there /\ s # v
                          /\ x[v].columns = Synth!Derive(x[v].segments, Columns(x))

LEMMA FirstRows == ASSUME Synth!SynthAssumption PROVE FreshRows(Synth!RowsAtFirst[0], 0)
<1>1. 0 \in 0..Len(AtFirst)
  BY DEF Synth!SynthAssumption
<1>2. PICK x : x = Synth!RowsAtFirst[0] /\ x = [v \in Synth!Vods |-> IF v \in synthRealVods THEN Synth!RowAtFirst(Synth!RealColumns(0), <<>>) ELSE Synth!NoRow]
  BY <1>1, RowsAtFirstAre DEF RowsAfter
<1>3. MadeBy(0) = {}
  BY DEF MadeBy
<1>4. PICK y : y = Synth!RowAtFirst(Synth!RealColumns(0), <<>>)
  OBVIOUS
<1>5. IsRow(y) /\ y.there = TRUE /\ y.updated = 0
  BY <1>4 DEF Synth!RowAtFirst, IsRow, Synth!AnySegments
<1>6. \A v \in Synth!Vods : x[v] = IF v \in synthRealVods THEN y ELSE Synth!NoRow
  BY <1>2, <1>4
<1>7. x = [v \in Synth!Vods |-> x[v]]
  BY <1>2
<1>8. \A v \in Synth!Vods : IsRow(x[v]) /\ x[v].updated = 0 /\ (x[v].there <=> v \in synthRealVods \cup MadeBy(0))
  BY <1>3, <1>5, <1>6, NoRowIs
<1>9. FreshRows(x, 0)
  BY <1>3, <1>7, <1>8 DEF FreshRows
<1>10. QED BY <1>2, <1>9

LEMMA NextRow ==
  ASSUME Synth!SynthAssumption, NEW n \in 1..Len(AtFirst), FreshRows(Synth!RowsAtFirst[n - 1], n - 1)
  PROVE  FreshRows(Synth!RowsAtFirst[n], n)
<1>1. Len(AtFirst) \in Nat /\ n \in 0..Len(AtFirst) /\ n \in Nat /\ n # 0 /\ DOMAIN AtFirst = 1..Len(AtFirst)
  BY DEF Synth!SynthAssumption
<1>2. PICK x, w, segments : x = Synth!RowsAtFirst[n - 1] /\ w = AtFirst[n][1] /\ segments = AtFirst[n][2]
  OBVIOUS
<1>3. PICK r : r = Synth!RowAtFirst(Synth!Derive(segments, Columns(x)), segments)
  OBVIOUS
<1>4. PICK y : y = Synth!RowsAtFirst[n] /\ y = [x EXCEPT ![w] = r]
  BY <1>1, <1>2, <1>3, RowsAtFirstAre DEF RowsAfter, Columns
<1>5. w \in SyntheticVods /\ segments \in Synth!AnySegments /\ w \in Synth!Vods /\ w \notin synthRealVods
  <2>1. AtFirst[n] \in SyntheticVods \X Synth!AnySegments
    BY <1>1 DEF Synth!SynthAssumption
  <2>2. QED BY <1>2, <2>1 DEF Synth!Vods, Synth!SynthAssumption
<1>6. MadeBy(n) = MadeBy(n - 1) \cup {w} /\ w \notin MadeBy(n - 1)
  <2>1. 1..n = (1..(n - 1)) \cup {n} /\ n \notin 1..(n - 1)
    BY <1>1
  <2>2. \A j \in 1..(n - 1) : AtFirst[j][1] # w
    BY <1>1, <1>2 DEF Synth!SynthAssumption
  <2>3. QED BY <1>2, <2>1, <2>2 DEF MadeBy
<1>7. Synth!SourcesOf(segments) \subseteq synthRealVods \cup MadeBy(n - 1)
  BY <1>1, <1>2 DEF Synth!SynthAssumption, MadeBy
<1>8. IsRow(r) /\ r.there = TRUE /\ r.updated = 0 /\ r.segments = segments /\ r.columns = Synth!Derive(segments, Columns(x))
  BY <1>3, <1>5 DEF Synth!RowAtFirst, IsRow
<1>9. /\ x = [v \in Synth!Vods |-> x[v]]
      /\ \A v \in Synth!Vods : IsRow(x[v]) /\ x[v].updated = 0 /\ (x[v].there <=> v \in synthRealVods \cup MadeBy(n - 1))
      /\ \A v \in MadeBy(n - 1) : /\ \A s \in Synth!SourcesOf(x[v].segments) : x[s].there /\ s # v
                                  /\ x[v].columns = Synth!Derive(x[v].segments, Columns(x))
  BY <1>2 DEF FreshRows
<1>10. y = [v \in Synth!Vods |-> y[v]] /\ y[w] = r /\ \A v \in Synth!Vods : v # w => y[v] = x[v]
  BY <1>4, <1>5, <1>9
<1>11. ~x[w].there
  BY <1>5, <1>6, <1>9
<1>12. MadeBy(n - 1) \subseteq Synth!Vods
  <2>1. \A j \in 1..(n - 1) : AtFirst[j] \in SyntheticVods \X Synth!AnySegments
    BY <1>1 DEF Synth!SynthAssumption
  <2>2. QED BY <2>1 DEF MadeBy, Synth!Vods
<1>13. \A v \in Synth!Vods : IsRow(y[v]) /\ y[v].updated = 0 /\ (y[v].there <=> v \in synthRealVods \cup MadeBy(n))
  BY <1>6, <1>8, <1>9, <1>10
<1>14. ASSUME NEW parts \in Synth!AnySegments, \A s \in Synth!SourcesOf(parts) : x[s].there
       PROVE  Synth!Derive(parts, Columns(y)) = Synth!Derive(parts, Columns(x))
  <2>1. \A s \in Synth!SourcesOf(parts) : s \in Synth!Vods /\ s # w
    BY <1>14, <1>11, SourcesAre
  <2>2. \A s \in Synth!SourcesOf(parts) : s \in DOMAIN Columns(x) /\ s \in DOMAIN Columns(y) /\ Columns(y)[s] = Columns(x)[s]
    BY <2>1, <1>10 DEF Columns
  <2>3. QED BY <2>2, DeriveSame
<1>15. ASSUME NEW v \in MadeBy(n)
       PROVE  (\A s \in Synth!SourcesOf(y[v].segments) : y[s].there /\ s # v) /\ y[v].columns = Synth!Derive(y[v].segments, Columns(y))
  <2>1. CASE v = w
    <3>1. \A s \in Synth!SourcesOf(segments) : s \in Synth!Vods /\ x[s].there /\ s # w
      BY <1>5, <1>7, <1>9, <1>11, SourcesAre
    <3>2. QED BY <2>1, <3>1, <1>5, <1>8, <1>10, <1>14
  <2>2. CASE v # w
    <3>1. v \in MadeBy(n - 1) /\ v \in Synth!Vods /\ y[v] = x[v] /\ x[v].segments \in Synth!AnySegments
      BY <2>2, <1>6, <1>9, <1>10, <1>12 DEF IsRow
    <3>2. \A s \in Synth!SourcesOf(x[v].segments) : s \in Synth!Vods /\ x[s].there /\ s # v
      BY <3>1, <1>9, SourcesAre
    <3>3. \A s \in Synth!SourcesOf(x[v].segments) : y[s] = x[s]
      BY <3>2, <1>10, <1>11
    <3>4. QED BY <3>1, <3>2, <3>3, <1>9, <1>14
  <2>3. QED BY <2>1, <2>2
<1>16. FreshRows(y, n)
  BY <1>10, <1>13, <1>15 DEF FreshRows
<1>17. QED BY <1>4, <1>16

LEMMA RowsAreFresh == ASSUME Synth!SynthAssumption PROVE FreshRows(Synth!RowsAtFirst[Len(AtFirst)], Len(AtFirst))
<1> DEFINE Bad == {m \in Nat : m <= Len(AtFirst) /\ ~FreshRows(Synth!RowsAtFirst[m], m)}
<1>1. SUFFICES ASSUME Bad # {} PROVE FALSE
  BY DEF Synth!SynthAssumption
<1>2. PICK m \in Bad : \A k \in Bad : m <= k
  BY <1>1, Least
<1>3. m \in Nat /\ m <= Len(AtFirst) /\ ~FreshRows(Synth!RowsAtFirst[m], m) /\ Len(AtFirst) \in Nat
  BY <1>2 DEF Synth!SynthAssumption
<1>4. m # 0
  BY <1>3, FirstRows
<1>5. m - 1 \in Nat /\ m - 1 <= Len(AtFirst) /\ m - 1 \notin Bad /\ m \in 1..Len(AtFirst)
  BY <1>2, <1>3, <1>4
<1>6. FreshRows(Synth!RowsAtFirst[m - 1], m - 1)
  BY <1>5
<1>7. QED BY <1>3, <1>5, <1>6, NextRow

LEMMA SynthInitInv == ASSUME Synth!SynthAssumption, Synth!Init PROVE SynthInv
<1>1. PICK n : n = Len(AtFirst) /\ n \in Nat
  BY DEF Synth!SynthAssumption
<1>2. FreshRows(synthRows, n)
  BY <1>1, RowsAreFresh DEF Synth!Init
<1>3. tx = [t \in Txs |-> Synth!Idle] /\ clock = 0 /\ \A t \in Txs : tx[t] = Synth!Idle
  BY DEF Synth!Init
<1>4. TypesHold
  BY <1>2, <1>3, IdleIs DEF TypesHold, FreshRows
<1>5. BeganApart /\ LocksHold /\ ChecksHold /\ ChecksKnow
  BY <1>3, IdleIs DEF BeganApart, LocksHold, Synth!HoldsRow, ChecksHold, ChecksKnow
<1>6. Synth!Made \subseteq MadeBy(n) /\ Synth!Made \subseteq Synth!Vods
  BY <1>2 DEF Synth!Made, Synth!Existing, FreshRows, Synth!Vods, Synth!SynthAssumption
<1>7. Composed
  BY <1>2, <1>6 DEF Composed, FreshRows
<1>8. ASSUME NEW v \in Synth!Made
      PROVE  Later(synthRows[v].segments, synthRows[v].updated) /\ Known(synthRows[v].segments, synthRows[v].columns, synthRows[v].updated)
  <2>1. Later(synthRows[v].segments, synthRows[v].updated)
    BY <1>3, IdleIs DEF Later, Synth!Writes
  <2>2. synthRows[v].segments \in Synth!AnySegments /\ \A s \in Synth!SourcesOf(synthRows[v].segments) : synthRows[s].there
    BY <1>2, <1>6 DEF FreshRows, IsRow
  <2>3. \A s \in Synth!SourcesOf(synthRows[v].segments) : s \in DOMAIN Synth!Now /\ s \in DOMAIN Columns(synthRows) /\ Columns(synthRows)[s] = Synth!Now[s]
    BY <2>2, SourcesAre DEF Synth!Now, Synth!Existing, Columns
  <2>4. Synth!Derive(synthRows[v].segments, Columns(synthRows)) = Synth!Derive(synthRows[v].segments, Synth!Now)
    BY <2>2, <2>3, DeriveSame
  <2>5. synthRows[v].columns = Synth!Derive(synthRows[v].segments, Synth!Now)
    BY <1>2, <1>6, <2>4 DEF FreshRows
  <2>6. QED BY <2>1, <2>2, <2>5 DEF Known
<1>9. RowsKnow
  BY <1>8 DEF RowsKnow
<1>10. QED BY <1>4, <1>5, <1>7, <1>9 DEF SynthInv

LEMMA SynthStepInv == ASSUME Synth!SynthAssumption, SynthInv, [Synth!Next]_(Synth!synthVars) PROVE SynthInv'
  BY SynthNextInv, SameInv DEF Synth!synthVars

\* However transactions interleave, a synthetic VOD whose columns are not what its sources give is one that
\* the monitor's next round picks, unless a source was being written when it was composed, by one that had
\* begun before, or it was retitled while it was stale.
THEOREM StaleIsPicked == ASSUME Synth!SynthAssumption PROVE Synth!Spec => []Synth!StaleIsKnown
<1>1. Synth!Init => SynthInv
  BY SynthInitInv
<1>2. SynthInv /\ [Synth!Next]_(Synth!synthVars) => SynthInv'
  BY SynthStepInv
<1>3. SynthInv => Synth!StaleIsKnown
  BY InvSynth
<1>4. QED BY <1>1, <1>2, <1>3, PTL DEF Synth!Spec

==============================================================================
