------------------------------ MODULE MCServices ------------------------------
(****************************************************************************)
(* Nineteen parts of the worker and the API that share nothing the models   *)
(* tell apart: a behaviour is one of one part, so that their states add up  *)
(* and do not multiply.                                                     *)
(*                                                                          *)
(* s1, s2, ... are the variables of the part that runs, as listed in its    *)
(* INSTANCE; those it has no use for stay Unused.                           *)
(****************************************************************************)
EXTENDS Integers, Sequences, FiniteSets, TLC

CONSTANTS
  InUse,         \* the parts that run
  None, Unset, Kept, ToTheEnd,
  Calls,         \* tasks at a time, of each part that has several
  Requests,      \* Synthetic
  MaxBegins,
  MaxRotations,  \* YouTubeAccount
  Copies         \* UploadCheck

VARIABLES part, s1, s2, s3, s4, s5, s6, s7, s8, s9, s10

vars == <<part, s1, s2, s3, s4, s5, s6, s7, s8, s9, s10>>

Unused == "unused"

----------------------------------------------------------------------------
(* Synthetic VODs: one real VOD, a whole copy of it and a copy of that; a   *)
(* third may be made.                                                       *)

Window(src, start, end) == [src |-> src, start |-> start, end |-> end, at |-> 0]

Copied == <<<<"a", <<Window("r", 0, ToTheEnd)>>>>, <<"b", <<Window("a", 0, ToTheEnd)>>>>>>

AllRequests ==
  {<<<<Window("r", 0, ToTheEnd)>>, supersedes>> : supersedes \in BOOLEAN}
  \cup {<<<<Window("r", 2, ToTheEnd)>>, TRUE>>, <<Kept, FALSE>>}
  \cup {<<<<Window(v, 0, ToTheEnd)>>, FALSE>> : v \in {"a", "b", "c"}}
KeepingOnly == {<<Kept, FALSE>>}

Synth == INSTANCE Synthetic WITH
  Second <- 2, VideoTypes <- {"vod", "live"}, PlayedFirst <- "live", MaxDepth <- 2,
  RealVods <- {"r"}, SyntheticVods <- {"a", "b", "c"}, AtFirst <- Copied, Txs <- Calls, RealLength <- 4,
  rows <- s1, tx <- s2, todo <- s3, clock <- s4, unseen <- s5, retitled <- s6, together <- s7

ASSUME SynthGiven == Synth!SynthAssumption

Halving == INSTANCE SplitRoute WITH
  Length <- 3, MaxSplits <- 2, MaxChanges <- 2, MaxFaults <- 1,
  made <- s1, used <- s2, calls <- s3, whole <- s4, left <- s5, counts <- s6

ASSUME HalvingGiven == Halving!SplitAssumption

----------------------------------------------------------------------------
(* The YouTube account, the quota, and the viewer's Twitch account.         *)

Account == INSTANCE YouTubeAccount WITH
  MaxGrants <- 1, MaxObjects <- 2, MaxRefreshes <- 2,
  stored <- s1, held <- s2, objects <- s3, calls <- s4, records <- s5, reported <- s6, connected <- s7, inHand <- s8

Quota == INSTANCE YouTubeQuota WITH
  COST <- {1, 3}, MaxDays <- 2, MaxUsed <- 4,
  row <- s1, lock <- s2, spends <- s3, day <- s4, used <- s5, late <- s6

Viewer == INSTANCE ViewerAccount WITH
  Askers <- Calls, Refreshable <- {0, 1}, MaxLinks <- 1, MaxRefreshes <- 1,
  row <- s1, cached <- s2, soon <- s3, links <- s4, lock <- s5, asks <- s6, admin <- s7, linked <- s8, inHand <- s9

ASSUME AccountGiven == Account!AccountAssumption
ASSUME QuotaGiven == Quota!QuotaAssumption
ASSUME ViewerGiven == Viewer!ViewerAssumption

----------------------------------------------------------------------------
(* The API's cache: a VOD, and one that a synthetic VOD is made of.         *)

Cache == INSTANCE ApiCache WITH
  RealVods <- {"u", "v"}, SourcesOf <- [s \in {"s"} |-> {"u"}], MaxWrites <- 2,
  rows <- s1, key <- s2, cached <- s3, render <- s4, outdated <- s5, listener <- s6, notices <- s7, writes <- s8

(* A chat of five comments in three seconds; pages and batches end within a second. *)

ChatOf == INSTANCE Chat WITH
  Offsets <- <<0, 1, 1, 2, 2>>, TwitchPage <- 2, CHAT_BATCH <- 3, PAGE <- 2, MaxCrawls <- 2, MaxSeeks <- 1,
  source <- s1, seq <- s2, next <- s3, crawl <- s4, moved <- s5, cache <- s6, view <- s7, recent <- s8

(* Two streams, three messages, and what the bot has of them.               *)

Bot == INSTANCE BotChat WITH
  Messages <- [m \in 1..3 |-> [at |-> m - 1, user |-> <<"u", "w", "u">>[m]]],
  Streams <- [v \in {"v", "w"} |-> [start |-> IF v = "v" THEN 0 ELSE 2, length |-> IF v = "v" THEN 2 ELSE 1]],
  Moderation <- {[type |-> "delete", target |-> 2], [type |-> "timeout", target |-> "u"],
                 [type |-> "chat_clear", target |-> ""]},
  PAGE <- 1, MaxTime <- 3, MaxActions <- 1, MaxReads <- 2,
  now <- s1, actions <- s2, flagged <- s3, rows <- s4, reads <- s5, vods <- s6, seenGone <- s7, strayed <- s8, begun <- s9

ASSUME CacheGiven == Cache!CacheAssumption
ASSUME ChatOfGiven == ChatOf!ChatAssumption
ASSUME BotGiven == Bot!BotAssumption

----------------------------------------------------------------------------
(* The files of a VOD's jobs, the monitor, and the check of the uploads.    *)

StepsOf == [
  archive   |-> <<"capture", "finalize", "censor", "split", "upload", "cleanup">>,
  dmca      |-> <<"ensure_source", "fetch_vod", "finalize", "dmca_edit", "censor", "split", "upload", "cleanup">>,
  part_dmca |-> <<"ensure_source", "fetch_vod", "finalize", "censor", "split", "dmca_edit", "upload", "cleanup">>]

Media == INSTANCE MediaFiles WITH
  Plans <- {<<<<0, 4>>>>, <<<<0, 2>>, <<2, 4>>>>, <<<<0, 3>>, <<3, 4>>>>}, Whole <- <<0, 4>>,
  MaxJobs <- 2, MaxFaults <- 1, MaxEdits <- 1,
  disk <- s1, job <- s2, run <- s3, settings <- s4, history <- s5, counts <- s6

Removal == INSTANCE UploadRemoval WITH
  Listed <- {<<"live", 1, 1>>, <<"live", 2, 1>>, <<"vod", 1, 1>>}, MaxRequests <- 2, MaxReuploads <- 1, MaxFaults <- 1,
  list <- s1, channel <- s2, links <- s3, request <- s4, describes <- s5, cutShort <- s6, untold <- s7, doomed <- s8,
  counts <- s9

Monitor == INSTANCE StreamJobs WITH
  LastStream <- 2, MaxOddities <- 2,
  twitch <- s1, rows <- s2, queue <- s3, active <- s4, tick <- s5, live <- s6, byHand <- s7, settings <- s8,
  absent <- s9, oddities <- s10

ASSUME RemovalGiven == Removal!RemovalAssumption
ASSUME MonitorGiven == Monitor!StreamsAssumption

Upload(type, n, duration, gaps) == [type |-> type, part |-> n, gen |-> 1, duration |-> duration, gaps |-> gaps]
WholeCopies == {
  {Upload("vod", 1, 3600, {}), Upload("vod", 2, 3600, {})},
  {Upload("vod", 1, 7200, {}), Upload("live", 1, 7200, {})}}
WithAdBreak == {{Upload("live", 1, 7000, {<<300, 200>>})}}

Checks == INSTANCE UploadCheck WITH
  Planned <- 7200, SHORT_BY <- 5, INCOMPLETE_BY <- 60, BATCH <- 1, Trimmed <- {3, 30, 100}, MaxEvents <- 2,
  listed <- s1, channel <- s2, check <- s3, report <- s4, whole <- s5, stale <- s6, events <- s7

----------------------------------------------------------------------------
(* The dashboard: its sessions, its limit of logins, the settings, a job's  *)
(* log, the folders, and a VOD that is edited by hand.                      *)

Sessions == INSTANCE SignIn WITH
  Sids <- {1}, SESSION_TTL <- 3, CHECK <- 1, STATE_TTL <- 1, StatesLimit <- 1, MaxSignIns <- 2, MaxTime <- 3,
  table <- s1, cookie <- s2, pending <- s3, calls <- s4, ended <- s5, clock <- s6, made <- s7, loggedOut <- s8

Logins == INSTANCE LoginLimit WITH
  Tries <- 1..3, attempts <- 2, window <- 3, Second <- 2, MaxTime <- 6,
  failures <- s1, tries <- s2, clock <- s3, told <- s4

Overrides == INSTANCE Settings WITH
  Keys <- {"a", "b"}, Values <- {1, 2}, Env <- [k \in {"a", "b"} |-> 1], Dropped <- {2}, MaxWrites <- 2, MaxFaults <- 1,
  table <- s1, memory <- s2, applied <- s3, calls <- s4, version <- s5, behind <- s6, writes <- s7, faults <- s8

Tags == INSTANCE SiteTags WITH
  Names <- {"new", "x", "y"}, AUTO_TAGS <- {"new"}, MAX_TAGS <- 2, MaxChanges <- 3,
  list <- s1, shapes <- s2, lock <- s3, calls <- s4, blind <- s5, follows <- s6, changes <- s7

Events == INSTANCE JobLog WITH
  NoOne <- None, cap <- 2, PRUNE_EVERY <- 2, Buffer <- 3, Limit <- 2, MaxEvents <- 5, MaxFaults <- 1,
  logged <- s1, pending <- s2, table <- s3, next <- s4, tx <- s5, lock <- s6, since <- s7, poll <- s8, lost <- s9,
  faults <- s10

ASSUME EventsGiven == Events!LogAssumption

Folders == INSTANCE FolderStorage WITH
  MaxJobs <- 2, MaxFaults <- 1,
  folder <- s1, trash <- s2, removals <- s3, deletes <- s4, job <- s5, scan <- s6, stuck <- s7, made <- s8, stale <- s9

Chapter(start, length) == [start |-> start, end |-> length]

Edits == INSTANCE VodEdits WITH
  Durations <- {0, 2, 4}, TwitchDuration <- 4, FromTwitch <- <<Chapter(0, 3), Chapter(3, 1)>>,
  Chapters <- {<<>>, <<Chapter(0, 2)>>, <<Chapter(0, 2), Chapter(2, 2)>>, <<Chapter(1, 5)>>},
  Games <- {<<>>, <<Chapter(0, 4)>>}, DURATION_SLACK <- 1, MaxEdits <- 4,
  vod <- s1, games <- s2, calls <- s3, byHand <- s4, overtaken <- s5, lockedTo <- s6, stepped <- s7, edits <- s8

ASSUME SessionsGiven == Sessions!SignInAssumption
ASSUME LoginsGiven == Logins!LimitAssumption
ASSUME TagsGiven == Tags!TagsAssumption
ASSUME FoldersGiven == Folders!StorageAssumption
ASSUME EditsGiven == Edits!EditsAssumption

----------------------------------------------------------------------------

\* No use for the variables after the first n.
Blank9 == s10 = Unused
Blank8 == s9 = Unused /\ Blank9
Blank7 == s8 = Unused /\ Blank8
Blank6 == s7 = Unused /\ Blank7
Blank4 == s5 = Unused /\ s6 = Unused /\ Blank6

Init ==
  /\ part \in InUse
  /\ \/ part = "synthetic" /\ Synth!Init /\ Blank7
     \/ part = "split" /\ Halving!Init /\ Blank6
     \/ part = "account" /\ Account!Init /\ Blank8
     \/ part = "quota" /\ Quota!Init /\ Blank6
     \/ part = "viewer" /\ Viewer!Init /\ Blank9
     \/ part = "cache" /\ Cache!Init /\ Blank8
     \/ part = "chat" /\ ChatOf!Init /\ Blank8
     \/ part = "bot" /\ Bot!Init /\ Blank9
     \/ part = "media" /\ Media!Init /\ Blank6
     \/ part = "removal" /\ Removal!Init /\ Blank9
     \/ part = "monitor" /\ Monitor!Init
     \/ part = "check" /\ Checks!Init /\ Blank7
     \/ part = "sessions" /\ Sessions!Init /\ Blank8
     \/ part = "logins" /\ Logins!Init /\ Blank4
     \/ part = "settings" /\ Overrides!Init /\ Blank8
     \/ part = "tags" /\ Tags!Init /\ Blank7
     \/ part = "log" /\ Events!Init
     \/ part = "folders" /\ Folders!Init /\ Blank9
     \/ part = "edits" /\ Edits!Init /\ Blank8

Next ==
  /\ UNCHANGED part
  /\ \/ part = "synthetic" /\ Synth!Next /\ UNCHANGED <<s8, s9, s10>>
     \/ part = "split" /\ Halving!Next /\ UNCHANGED <<s7, s8, s9, s10>>
     \/ part = "account" /\ Account!Next /\ UNCHANGED <<s9, s10>>
     \/ part = "quota" /\ Quota!Next /\ UNCHANGED <<s7, s8, s9, s10>>
     \/ part = "viewer" /\ Viewer!Next /\ UNCHANGED s10
     \/ part = "cache" /\ Cache!Next /\ UNCHANGED <<s9, s10>>
     \/ part = "chat" /\ ChatOf!Next /\ UNCHANGED <<s9, s10>>
     \/ part = "bot" /\ Bot!Next /\ UNCHANGED s10
     \/ part = "media" /\ Media!Next /\ UNCHANGED <<s7, s8, s9, s10>>
     \/ part = "removal" /\ Removal!Next /\ UNCHANGED s10
     \/ part = "monitor" /\ Monitor!Next
     \/ part = "check" /\ Checks!Next /\ UNCHANGED <<s8, s9, s10>>
     \/ part = "sessions" /\ Sessions!Next /\ UNCHANGED <<s9, s10>>
     \/ part = "logins" /\ Logins!Next /\ UNCHANGED <<s5, s6, s7, s8, s9, s10>>
     \/ part = "settings" /\ Overrides!Next /\ UNCHANGED <<s9, s10>>
     \/ part = "tags" /\ Tags!Next /\ UNCHANGED <<s8, s9, s10>>
     \/ part = "log" /\ Events!Next
     \/ part = "folders" /\ Folders!Next /\ UNCHANGED s10
     \/ part = "edits" /\ Edits!Next /\ UNCHANGED <<s9, s10>>

Spec == Init /\ [][Next]_vars

----------------------------------------------------------------------------
(* The properties of the parts.                                             *)

\* Each part's variables have the values its module says.
TypesOK ==
  /\ part = "synthetic" => Synth!TypeOK
  /\ part = "split" => Halving!TypeOK
  /\ part = "account" => Account!TypeOK
  /\ part = "quota" => Quota!TypeOK
  /\ part = "viewer" => Viewer!TypeOK
  /\ part = "cache" => Cache!TypeOK
  /\ part = "chat" => ChatOf!TypeOK
  /\ part = "bot" => Bot!TypeOK
  /\ part = "media" => Media!TypeOK
  /\ part = "removal" => Removal!TypeOK
  /\ part = "monitor" => Monitor!TypeOK
  /\ part = "check" => Checks!TypeOK
  /\ part = "sessions" => Sessions!TypeOK
  /\ part = "logins" => Logins!TypeOK
  /\ part = "settings" => Overrides!TypeOK
  /\ part = "tags" => Tags!TypeOK
  /\ part = "log" => Events!TypeOK
  /\ part = "folders" => Folders!TypeOK
  /\ part = "edits" => Edits!TypeOK

\* recompose_stale finds every composition that is not what its sources give (synthetic.py).
StaleIsKnown == part = "synthetic" => Synth!StaleIsKnown

\* ... a retitled VOD's too.
EditsAreSeen == part = "synthetic" => Synth!EditsAreSeen

\* Nothing is made of itself or of nothing, or superseded twice, or split in half and left so
\* (synthetic.py, compose.py, api_v2_routes.py).
MadeSoundly ==
  /\ part = "synthetic" => Synth!MadeSoundly
  /\ part = "split" => Halving!SplitIsWhole

\* The stored token is the connected account's (youtube.py).
AccountStays == part = "account" => Account!AccountStays

\* The dashboard shows every unit counted today (youtube_quota.py).
QuotaCounts == part = "quota" => Quota!QuotaCounts

\* An unlinked account's token is in neither row nor cache (twitch_viewer.py).
UnlinkedIsForgotten == part = "viewer" => Viewer!UnlinkedIsForgotten

\* A cached response is what the rows say (invalidation.py).
CacheIsCurrent == part = "cache" => Cache!CacheIsCurrent

\* A crawl that ends has stored every comment, and so has a read of the bot's log, which forgets no removal
\* (metadata.py, bot_chat.py).
ChatIsWhole ==
  /\ part = "chat" => ChatOf!ChatIsWhole
  /\ part = "bot" => Bot!BotChatKept

\* A viewer's pages leave no comment out (comments.py).
PagesFollow == part = "chat" => ChatOf!PagesFollow

\* What is uploaded is complete, the right stretch and edited once; what is deleted by hand is off the
\* list, and the others do not link to it (media.py, admin.py).
UploadsAreRight ==
  /\ part = "media" => Media!UploadsAreRight
  /\ part = "removal" => Removal!RemovalIsWhole

\* A stream has one job of each kind, and its chat is asked for at its end (monitor.py).
StreamsHaveTheirJobs == part = "monitor" => Monitor!StreamsHaveTheirJobs

\* A lost upload is reported (youtube_check.py).
LossIsReported == part = "check" => Checks!LossIsReported

\* Uploads that lost nothing are not reported as bad (youtube_check.py).
WholeIsNotBad == part = "check" => Checks!WholeIsNotBad

\* Neither a logged out session nor, after CHECK_S, one ended everywhere is let in, and a refused login's
\* Retry-After is how long it takes (admin_auth.py, admin.py).
SignInHolds ==
  /\ part = "sessions" => Sessions!SignOutHolds
  /\ part = "logins" => Logins!WaitIsEnough

\* The worker runs with the saved settings, and only listed tags have a shape (runtime_settings.py,
\* site_tags.py).
SettingsInEffect ==
  /\ part = "settings" => Overrides!SettingsInEffect
  /\ part = "tags" => Tags!ShapesFollowTags

\* Polling a job's log misses nothing (events.py).
PollersMissNothing == part = "log" => Events!PollersMissNothing

\* Deleting a folder takes no later job's files (storage.py).
DeletesAreSafe == part = "folders" => Folders!DeletesAreSafe

\* Locked chapters stay, and a VOD's content fits its duration (vod_edits.py, admin.py).
EditsHold == part = "edits" => Edits!EditsHold
=============================================================================
