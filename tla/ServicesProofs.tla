----------------------------- MODULE ServicesProofs -----------------------------
(******************************************************************************)
(* What AccountsProofs, DashboardProofs and VideosProofs prove of the parts,  *)
(* carried over to the behaviours of MCServices.  The parts of MCServices are *)
(* instances of the same modules as theirs with the same constants, so that   *)
(* they begin alike (PInit), go on alike (PNext), assume the same (PAssumed)  *)
(* and promise the same (PProperty).  Hence the invariant that the proofs     *)
(* about a part rest on holds while that part was picked (PKept: PBegins,     *)
(* PGoesOn; PartsKept), and gives what MCServices says of it (PGives).  Left  *)
(* out are the parts whose property covers another part that is not proved.   *)
(******************************************************************************)
EXTENDS MCServices, TLAPS

\* What MCServices gives the parts.
Accounts == INSTANCE AccountsProofs WITH
  MaxGrants <- 1, MaxObjects <- 2, accountMaxRefreshes <- 2, stored <- s1, held <- s2, objects <- s3,
  accountCalls <- s4, records <- s5, reported <- s6, connected <- s7, accountInHand <- s8, COST <- {1, 3},
  MaxDays <- 2, MaxUsed <- 4, quotaRow <- s1, quotaLock <- s2, spends <- s3, day <- s4, used <- s5,
  quotaLate <- s6, Askers <- Calls, Refreshable <- {0, 1}, MaxLinks <- 1, viewerMaxRefreshes <- 1,
  viewerRow <- s1, cached <- s2, soon <- s3, links <- s4, viewerLock <- s5, asks <- s6, admin <- s7,
  linked <- s8, viewerInHand <- s9, Sids <- {1}, SESSION_TTL <- 3, CHECK <- 1, STATE_TTL <- 1,
  StatesLimit <- 1, MaxSignIns <- 2, sessionsMaxTime <- 3, table <- s1, cookie <- s2, pending <- s3,
  sessionsCalls <- s4, ended <- s5, sessionsClock <- s6, made <- s7, loggedOut <- s8, Tries <- 1..3,
  attempts <- 2, window <- 3, Second <- 2, loginsMaxTime <- 6, failures <- s1, tries <- s2,
  loginsClock <- s3, told <- s4

Dashboard == INSTANCE DashboardProofs WITH
  Keys <- {"a", "b"}, Values <- {1, 2}, Env <- [k \in {"a", "b"} |-> 1], Dropped <- {2}, MaxWrites <- 2,
  MaxFaults <- 1, overridesTable <- s1, memory <- s2, applied <- s3, overridesCalls <- s4, version <- s5,
  behind <- s6, writes <- s7, overridesFaults <- s8, Names <- {"new", "x", "y"}, AUTO_TAGS <- {"new"},
  MAX_TAGS <- 2, MaxChanges <- 3, tagsList <- s1, shapes <- s2, tagsLock <- s3, tagsCalls <- s4,
  blind <- s5, follows <- s6, tagsChanges <- s7, MaxJobs <- 2, folder <- s1, trash <- s2, removals <- s3,
  deletes <- s4, job <- s5, scan <- s6, stuck <- s7, made <- s8, stale <- s9, Durations <- {0, 2, 4},
  Chapters <- {<<>>, <<Chapter(0, 2)>>, <<Chapter(0, 2), Chapter(2, 2)>>, <<Chapter(1, 5)>>},
  Games <- {<<>>, <<Chapter(0, 4)>>}, TwitchDuration <- 4, FromTwitch <- <<Chapter(0, 3), Chapter(3, 1)>>,
  DURATION_SLACK <- 1, MaxEdits <- 4, vod <- s1, games <- s2, editsCalls <- s3, byHand <- s4,
  overtaken <- s5, lockedTo <- s6, stepped <- s7, edits <- s8, NoOne <- None, cap <- 2, PRUNE_EVERY <- 2,
  Buffer <- 3, Limit <- 2, MaxEvents <- 5, logged <- s1, pending <- s2, eventsTable <- s3, next <- s4,
  tx <- s5, eventsLock <- s6, since <- s7, poll <- s8, lost <- s9, eventsFaults <- s10

Videos == INSTANCE VideosProofs WITH
  halvingLength <- 3, MaxSplits <- 2, MaxChanges <- 2, MaxFaults <- 1, halvingMade <- s1, used <- s2,
  calls <- s3, halvingWhole <- s4, left <- s5, halvingCounts <- s6,
  Listed <- {<<"live", 1, 1>>, <<"live", 2, 1>>, <<"vod", 1, 1>>}, MaxRequests <- 2, MaxReuploads <- 1,
  list <- s1, channel <- s2, links <- s3, removalRequest <- s4, describes <- s5, cutShort <- s6,
  untold <- s7, doomed <- s8, removalCounts <- s9, LastStream <- 2, MaxOddities <- 2, twitch <- s1,
  monitorRows <- s2, queue <- s3, active <- s4, tick <- s5, live <- s6, byHand <- s7, settings <- s8,
  absent <- s9, oddities <- s10,
  Messages <- [m \in 1..3 |-> [at |-> m - 1, user |-> <<"u", "w", "u">>[m]]],
  Streams <- [v \in {"v", "w"} |-> [start |-> IF v = "v" THEN 0 ELSE 2, length |-> IF v = "v" THEN 2 ELSE 1]],
  Moderation <- {[type |-> "delete", target |-> 2], [type |-> "timeout", target |-> "u"], [type |-> "chat_clear", target |-> ""]},
  botPAGE <- 1, MaxTime <- 3, MaxActions <- 1, MaxReads <- 2, now <- s1, actions <- s2, flagged <- s3,
  botRows <- s4, reads <- s5, vods <- s6, seenGone <- s7, strayed <- s8, begun <- s9,
  Offsets <- <<0, 1, 1, 2, 2>>, TwitchPage <- 2, CHAT_BATCH <- 3, chatOfPAGE <- 2, MaxCrawls <- 2,
  MaxSeeks <- 1, source <- s1, seq <- s2, next <- s3, crawl <- s4, moved <- s5, cache <- s6, view <- s7,
  recent <- s8, cacheRealVods <- {"u", "v"}, SourcesOf <- [s \in {"s"} |-> {"u"}], MaxWrites <- 2,
  cacheRows <- s1, key <- s2, cached <- s3, render <- s4, outdated <- s5, listener <- s6, notices <- s7,
  writes <- s8, synthRealVods <- {"r"}, SyntheticVods <- {"a", "b", "c"}, AtFirst <- Copied, Txs <- Calls,
  RealLength <- 4, MaxDepth <- 2, Second <- 2, VideoTypes <- {"vod", "live"}, PlayedFirst <- "live",
  synthRows <- s1, tx <- s2, synthTodo <- s3, clock <- s4, unseen <- s5, retitled <- s6, together <- s7

--------------------------------------------------------------------------------
(* YouTubeAccount.                                                            *)

LEMMA AccountInit == ASSUME Account!Init PROVE Accounts!Account!Init
  BY ZenonT(60) DEF
     Account!Init, Account!Idle, Accounts!Account!Init, Accounts!Account!Idle

LEMMA AccountNext == ASSUME Account!Next PROVE Accounts!Account!Next
  BY ZenonT(60) DEF
     Account!Next, Account!RecordSaves, Account!RecordReads, Account!Expire, Account!SaveExchanged,
     Account!Idle, Account!Grant, Account!UsesOlder, Account!GrantOf, Account!Exchange, Account!Done,
     Account!End, Account!RefreshInUse, Account!Refresh, Account!Settle, Account!RefreshFails,
     Account!Refreshed, Account!Take, Account!MakeCreds, Account!Load, Account!BeginCheck,
     Account!HeldDropped, Account!Begin, Accounts!Account!Next, Accounts!Account!RecordSaves,
     Accounts!Account!RecordReads, Accounts!Account!Expire, Accounts!Account!SaveExchanged,
     Accounts!Account!Idle, Accounts!Account!Grant, Accounts!Account!UsesOlder, Accounts!Account!GrantOf,
     Accounts!Account!Exchange, Accounts!Account!Done, Accounts!Account!End, Accounts!Account!RefreshInUse,
     Accounts!Account!Refresh, Accounts!Account!Settle, Accounts!Account!RefreshFails,
     Accounts!Account!Refreshed, Accounts!Account!Take, Accounts!Account!MakeCreds, Accounts!Account!Load,
     Accounts!Account!BeginCheck, Accounts!Account!HeldDropped, Accounts!Account!Begin

LEMMA AccountProperty == ASSUME Accounts!Account!AccountStays PROVE Account!AccountStays
  BY ZenonT(60) DEF
     Account!AccountStays, Account!Grant, Accounts!Account!AccountStays, Accounts!Account!Grant

LEMMA AccountAssumed == Accounts!Account!AccountAssumption
  BY AccountGiven, ZenonT(60) DEF
     Account!AccountAssumption, Accounts!Account!AccountAssumption

AccountKept == part = "account" => Accounts!AccountInv

LEMMA AccountBegins == ASSUME Init PROVE AccountKept
  BY AccountAssumed, AccountInit, Accounts!AccountInitInv DEF Init, AccountKept

LEMMA AccountGoesOn == ASSUME AccountKept, [Next]_vars PROVE AccountKept'
<1>1. part' = "account" => part = "account" /\ [Accounts!Account!Next]_(Accounts!Account!accountVars)
  BY AccountNext DEF Next, vars, Accounts!Account!accountVars
<1>2. QED BY <1>1, AccountAssumed, Accounts!AccountStepInv DEF AccountKept

LEMMA AccountGives == ASSUME Accounts!AccountInv PROVE Account!AccountStays
  BY AccountAssumed, AccountProperty, Accounts!InvAccount

--------------------------------------------------------------------------------
(* YouTubeQuota.                                                              *)

LEMMA QuotaInit == ASSUME Quota!Init PROVE Accounts!Quota!Init
  BY ZenonT(60) DEF
     Quota!Init, Quota!Idle, Accounts!Quota!Init, Accounts!Quota!Idle

LEMMA QuotaNext == ASSUME Quota!Next PROVE Accounts!Quota!Next
  BY ZenonT(60) DEF
     Quota!Next, Quota!Midnight, Quota!CountFails, Quota!Idle, Quota!Commit, Quota!Add, Quota!UsedOn,
     Quota!LockRow, Quota!MayRead, Quota!Insert, Quota!Answered, Accounts!Quota!Next,
     Accounts!Quota!Midnight, Accounts!Quota!CountFails, Accounts!Quota!Idle, Accounts!Quota!Commit,
     Accounts!Quota!Add, Accounts!Quota!UsedOn, Accounts!Quota!LockRow, Accounts!Quota!MayRead,
     Accounts!Quota!Insert, Accounts!Quota!Answered

LEMMA QuotaProperty == ASSUME Accounts!Quota!QuotaCounts PROVE Quota!QuotaCounts
  BY ZenonT(60) DEF
     Quota!QuotaCounts, Quota!UsedToday, Quota!UsedOn, Accounts!Quota!QuotaCounts,
     Accounts!Quota!UsedToday, Accounts!Quota!UsedOn

LEMMA QuotaAssumed == Accounts!Quota!QuotaAssumption
  BY QuotaGiven, ZenonT(60) DEF
     Quota!QuotaAssumption, Accounts!Quota!QuotaAssumption

QuotaKept == part = "quota" => Accounts!QuotaInv

LEMMA QuotaBegins == ASSUME Init PROVE QuotaKept
  BY QuotaAssumed, QuotaInit, Accounts!QuotaInitInv DEF Init, QuotaKept

LEMMA QuotaGoesOn == ASSUME QuotaKept, [Next]_vars PROVE QuotaKept'
<1>1. part' = "quota" => part = "quota" /\ [Accounts!Quota!Next]_(Accounts!Quota!quotaVars)
  BY QuotaNext DEF Next, vars, Accounts!Quota!quotaVars
<1>2. QED BY <1>1, QuotaAssumed, Accounts!QuotaNextInv DEF QuotaKept

LEMMA QuotaGives == ASSUME Accounts!QuotaInv PROVE Quota!QuotaCounts
  BY QuotaAssumed, QuotaProperty, Accounts!InvQuota

--------------------------------------------------------------------------------
(* ViewerAccount.                                                             *)

LEMMA ViewerInit == ASSUME Viewer!Init PROVE Accounts!Viewer!Init
  BY ZenonT(60) DEF
     Viewer!Init, Viewer!Idle, Viewer!NoTask, Viewer!LinkOf, Accounts!Viewer!Init, Accounts!Viewer!Idle,
     Accounts!Viewer!NoTask, Accounts!Viewer!LinkOf

LEMMA ViewerNext == ASSUME Viewer!Next PROVE Accounts!Viewer!Next
  BY ZenonT(60) DEF
     Viewer!Next, Viewer!Forget, Viewer!LinkOf, Viewer!NoTask, Viewer!Forgotten, Viewer!SaveLink,
     Viewer!StartUnlink, Viewer!StartLink, Viewer!NearEnd, Viewer!CheckLoaded, Viewer!Goto,
     Viewer!CheckLoad, Viewer!CacheRefreshed, Viewer!Answer, Viewer!Idle, Viewer!SaveRefreshed,
     Viewer!Refreshed, Viewer!Loaded, Viewer!Use, Viewer!Load, Viewer!Cached, Viewer!Ask,
     Accounts!Viewer!Next, Accounts!Viewer!Forget, Accounts!Viewer!LinkOf, Accounts!Viewer!NoTask,
     Accounts!Viewer!Forgotten, Accounts!Viewer!SaveLink, Accounts!Viewer!StartUnlink,
     Accounts!Viewer!StartLink, Accounts!Viewer!NearEnd, Accounts!Viewer!CheckLoaded, Accounts!Viewer!Goto,
     Accounts!Viewer!CheckLoad, Accounts!Viewer!CacheRefreshed, Accounts!Viewer!Answer,
     Accounts!Viewer!Idle, Accounts!Viewer!SaveRefreshed, Accounts!Viewer!Refreshed,
     Accounts!Viewer!Loaded, Accounts!Viewer!Use, Accounts!Viewer!Load, Accounts!Viewer!Cached,
     Accounts!Viewer!Ask

LEMMA ViewerProperty == ASSUME Accounts!Viewer!UnlinkedIsForgotten PROVE Viewer!UnlinkedIsForgotten
  BY ZenonT(60) DEF
     Viewer!UnlinkedIsForgotten, Viewer!LinkOf, Viewer!NoTask, Accounts!Viewer!UnlinkedIsForgotten,
     Accounts!Viewer!LinkOf, Accounts!Viewer!NoTask

LEMMA ViewerAssumed == Accounts!Viewer!ViewerAssumption
  BY ViewerGiven, ZenonT(60) DEF
     Viewer!ViewerAssumption, Accounts!Viewer!ViewerAssumption

ViewerKept == part = "viewer" => Accounts!ViewerInv

LEMMA ViewerBegins == ASSUME Init PROVE ViewerKept
  BY ViewerAssumed, ViewerInit, Accounts!ViewerInitInv DEF Init, ViewerKept

LEMMA ViewerGoesOn == ASSUME ViewerKept, [Next]_vars PROVE ViewerKept'
<1>1. part' = "viewer" => part = "viewer" /\ [Accounts!Viewer!Next]_(Accounts!Viewer!viewerVars)
  BY ViewerNext DEF Next, vars, Accounts!Viewer!viewerVars
<1>2. QED BY <1>1, ViewerAssumed, Accounts!ViewerNextInv DEF ViewerKept

LEMMA ViewerGives == ASSUME Accounts!ViewerInv PROVE Viewer!UnlinkedIsForgotten
  BY ViewerAssumed, ViewerProperty, Accounts!InvViewer

--------------------------------------------------------------------------------
(* SignIn.                                                                    *)

LEMMA SessionsInit == ASSUME Sessions!Init PROVE Accounts!Sessions!Init
  BY ZenonT(60) DEF
     Sessions!Init, Sessions!Idle, Accounts!Sessions!Init, Accounts!Sessions!Idle

LEMMA SessionsNext == ASSUME Sessions!Next PROVE Accounts!Sessions!Next
  BY ZenonT(60) DEF
     Sessions!Next, Sessions!Tick, Sessions!SignOutEverywhere, Sessions!Standing, Sessions!Logout,
     Sessions!Removed, Sessions!Stored, Sessions!StartSignIn, Sessions!RoomForOne, Sessions!Newest,
     Sessions!Done, Sessions!Idle, Sessions!Goes, Sessions!Answered, Sessions!To, Sessions!CheckedAt,
     Sessions!Check, Sessions!Read, Sessions!Ask, Sessions!LongEnded, Sessions!Login, Sessions!Replace,
     Sessions!Redeem, Sessions!CodeLogin, Sessions!Callback, Sessions!NotPending, Accounts!Sessions!Next,
     Accounts!Sessions!Tick, Accounts!Sessions!SignOutEverywhere, Accounts!Sessions!Standing,
     Accounts!Sessions!Logout, Accounts!Sessions!Removed, Accounts!Sessions!Stored,
     Accounts!Sessions!StartSignIn, Accounts!Sessions!RoomForOne, Accounts!Sessions!Newest,
     Accounts!Sessions!Done, Accounts!Sessions!Idle, Accounts!Sessions!Goes, Accounts!Sessions!Answered,
     Accounts!Sessions!To, Accounts!Sessions!CheckedAt, Accounts!Sessions!Check, Accounts!Sessions!Read,
     Accounts!Sessions!Ask, Accounts!Sessions!LongEnded, Accounts!Sessions!Login,
     Accounts!Sessions!Replace, Accounts!Sessions!Redeem, Accounts!Sessions!CodeLogin,
     Accounts!Sessions!Callback, Accounts!Sessions!NotPending

LEMMA SessionsProperty == ASSUME Accounts!Sessions!SignOutHolds PROVE Sessions!SignOutHolds
  BY ZenonT(60) DEF
     Sessions!SignOutHolds, Accounts!Sessions!SignOutHolds

LEMMA SessionsAssumed == Accounts!Sessions!SignInAssumption
  BY SessionsGiven, ZenonT(60) DEF
     Sessions!SignInAssumption, Accounts!Sessions!SignInAssumption

SessionsKept == part = "sessions" => Accounts!SignInInv

LEMMA SessionsBegins == ASSUME Init PROVE SessionsKept
  BY SessionsAssumed, SessionsInit, Accounts!SessionsInitInv DEF Init, SessionsKept

LEMMA SessionsGoesOn == ASSUME SessionsKept, [Next]_vars PROVE SessionsKept'
<1>1. part' = "sessions" => part = "sessions" /\ [Accounts!Sessions!Next]_(Accounts!Sessions!signInVars)
  BY SessionsNext DEF Next, vars, Accounts!Sessions!signInVars
<1>2. QED BY <1>1, SessionsAssumed, Accounts!SessionsStepInv DEF SessionsKept

LEMMA SessionsGives == ASSUME Accounts!SignInInv PROVE Sessions!SignOutHolds
  BY SessionsAssumed, SessionsProperty, Accounts!InvSignIn

--------------------------------------------------------------------------------
(* LoginLimit.                                                                *)

LEMMA LoginsInit == ASSUME Logins!Init PROVE Accounts!Logins!Init
  BY ZenonT(60) DEF
     Logins!Init, Accounts!Logins!Init

LEMMA LoginsNext == ASSUME Logins!Next PROVE Accounts!Logins!Next
  BY ZenonT(60) DEF
     Logins!Next, Logins!Right, Logins!Wrong, Logins!Login, Logins!Recent, Logins!Dropped,
     Logins!DropsFirst, Logins!Old, Logins!RetryAfter, Logins!CountedFrom, Logins!WholeSeconds,
     Logins!Tick, Accounts!Logins!Next, Accounts!Logins!Right, Accounts!Logins!Wrong,
     Accounts!Logins!Login, Accounts!Logins!Recent, Accounts!Logins!Dropped, Accounts!Logins!DropsFirst,
     Accounts!Logins!Old, Accounts!Logins!RetryAfter, Accounts!Logins!CountedFrom,
     Accounts!Logins!WholeSeconds, Accounts!Logins!Tick

LEMMA LoginsProperty == ASSUME Accounts!Logins!WaitIsEnough PROVE Logins!WaitIsEnough
  BY ZenonT(60) DEF
     Logins!WaitIsEnough, Logins!Recent, Logins!Dropped, Logins!DropsFirst, Logins!Old, Logins!RetryAfter,
     Logins!CountedFrom, Logins!WholeSeconds, Accounts!Logins!WaitIsEnough, Accounts!Logins!Recent,
     Accounts!Logins!Dropped, Accounts!Logins!DropsFirst, Accounts!Logins!Old, Accounts!Logins!RetryAfter,
     Accounts!Logins!CountedFrom, Accounts!Logins!WholeSeconds

LEMMA LoginsAssumed == Accounts!Logins!LimitAssumption
  BY LoginsGiven, ZenonT(60) DEF
     Logins!LimitAssumption, Accounts!Logins!LimitAssumption

LoginsKept == part = "logins" => Accounts!LimitInv

LEMMA LoginsBegins == ASSUME Init PROVE LoginsKept
  BY LoginsAssumed, LoginsInit, Accounts!LoginsInitInv DEF Init, LoginsKept

LEMMA LoginsGoesOn == ASSUME LoginsKept, [Next]_vars PROVE LoginsKept'
<1>1. part' = "logins" => part = "logins" /\ [Accounts!Logins!Next]_(Accounts!Logins!limitVars)
  BY LoginsNext DEF Next, vars, Accounts!Logins!limitVars
<1>2. QED BY <1>1, LoginsAssumed, Accounts!LoginsNextInv DEF LoginsKept

LEMMA LoginsGives == ASSUME Accounts!LimitInv PROVE Logins!WaitIsEnough
  BY LoginsAssumed, LoginsProperty, Accounts!InvLimit

--------------------------------------------------------------------------------
(* Settings.                                                                  *)

LEMMA OverridesInit == ASSUME Overrides!Init PROVE Dashboard!Overrides!Init
  BY ZenonT(60) DEF
     Overrides!Init, Overrides!Idle, Overrides!NoRows, Dashboard!Overrides!Init, Dashboard!Overrides!Idle,
     Dashboard!Overrides!NoRows

LEMMA OverridesNext == ASSUME Overrides!Next PROVE Dashboard!Overrides!Next
  BY ZenonT(60) DEF
     Overrides!Next, Overrides!LoadFails, Overrides!Idle, Overrides!NoRows, Overrides!Apply,
     Overrides!Effective, Overrides!Valid, Overrides!Read, Overrides!Reset, Overrides!Restrict,
     Overrides!Save, Overrides!Update, Overrides!Restart, Dashboard!Overrides!Next,
     Dashboard!Overrides!LoadFails, Dashboard!Overrides!Idle, Dashboard!Overrides!NoRows,
     Dashboard!Overrides!Apply, Dashboard!Overrides!Effective, Dashboard!Overrides!Valid,
     Dashboard!Overrides!Read, Dashboard!Overrides!Reset, Dashboard!Overrides!Restrict,
     Dashboard!Overrides!Save, Dashboard!Overrides!Update, Dashboard!Overrides!Restart

LEMMA OverridesProperty == ASSUME Dashboard!Overrides!SettingsInEffect PROVE Overrides!SettingsInEffect
  BY ZenonT(60) DEF
     Overrides!SettingsInEffect, Overrides!Valid, Dashboard!Overrides!SettingsInEffect,
     Dashboard!Overrides!Valid

OverridesKept == part = "settings" => Dashboard!SettingsInv

LEMMA OverridesBegins == ASSUME Init PROVE OverridesKept
  BY OverridesInit, Dashboard!OverridesInitInv DEF Init, OverridesKept

LEMMA OverridesGoesOn == ASSUME OverridesKept, [Next]_vars PROVE OverridesKept'
<1>1. part' = "settings" => part = "settings" /\ [Dashboard!Overrides!Next]_(Dashboard!Overrides!settingsVars)
  BY OverridesNext DEF Next, vars, Dashboard!Overrides!settingsVars
<1>2. QED BY <1>1, Dashboard!OverridesNextInv DEF OverridesKept

LEMMA OverridesGives == ASSUME Dashboard!SettingsInv PROVE Overrides!SettingsInEffect
  BY OverridesProperty, Dashboard!InvSettings

--------------------------------------------------------------------------------
(* SiteTags.                                                                  *)

LEMMA TagsInit == ASSUME Tags!Init PROVE Dashboard!Tags!Init
  BY ZenonT(60) DEF
     Tags!Init, Tags!Idle, Dashboard!Tags!Init, Dashboard!Tags!Idle

LEMMA TagsNext == ASSUME Tags!Next PROVE Dashboard!Tags!Next
  BY ZenonT(60) DEF
     Tags!Next, Tags!Fails, Tags!Idle, Tags!Commit, Tags!WriteShape, Tags!OthersWrite, Tags!Purge,
     Tags!WriteList, Tags!Load, Tags!Listed, Tags!NoRow, Tags!Lock, Tags!BeginShape, Tags!Request,
     Tags!BeginSave, Tags!Valid, Tags!Cardinality, Tags!IsFiniteSet, Dashboard!Tags!Next,
     Dashboard!Tags!Fails, Dashboard!Tags!Idle, Dashboard!Tags!Commit, Dashboard!Tags!WriteShape,
     Dashboard!Tags!OthersWrite, Dashboard!Tags!Purge, Dashboard!Tags!WriteList, Dashboard!Tags!Load,
     Dashboard!Tags!Listed, Dashboard!Tags!NoRow, Dashboard!Tags!Lock, Dashboard!Tags!BeginShape,
     Dashboard!Tags!Request, Dashboard!Tags!BeginSave, Dashboard!Tags!Valid, Dashboard!Tags!Cardinality,
     Dashboard!Tags!IsFiniteSet

LEMMA TagsProperty == ASSUME Dashboard!Tags!ShapesFollowTags PROVE Tags!ShapesFollowTags
  BY ZenonT(60) DEF
     Tags!ShapesFollowTags, Tags!Listed, Tags!NoRow, Dashboard!Tags!ShapesFollowTags,
     Dashboard!Tags!Listed, Dashboard!Tags!NoRow

LEMMA TagsAssumed == Dashboard!Tags!TagsAssumption
  BY TagsGiven, ZenonT(60) DEF
     Tags!TagsAssumption, Dashboard!Tags!TagsAssumption

TagsKept == part = "tags" => Dashboard!TagInv

LEMMA TagsBegins == ASSUME Init PROVE TagsKept
  BY TagsAssumed, TagsInit, Dashboard!TagsInitInv DEF Init, TagsKept

LEMMA TagsGoesOn == ASSUME TagsKept, [Next]_vars PROVE TagsKept'
<1>1. part' = "tags" => part = "tags" /\ [Dashboard!Tags!Next]_(Dashboard!Tags!siteVars)
  BY TagsNext DEF Next, vars, Dashboard!Tags!siteVars
<1>2. QED BY <1>1, TagsAssumed, Dashboard!TagsNextInv DEF TagsKept

LEMMA TagsGives == ASSUME Dashboard!TagInv PROVE Tags!ShapesFollowTags
  BY TagsAssumed, TagsProperty DEF Dashboard!TagInv

--------------------------------------------------------------------------------
(* FolderStorage.                                                             *)

LEMMA FoldersInit == ASSUME Folders!Init PROVE Dashboard!Folders!Init
  BY ZenonT(60) DEF
     Folders!Init, Dashboard!Folders!Init

LEMMA FoldersNext == ASSUME Folders!Next PROVE Dashboard!Folders!Next
  BY ZenonT(60) DEF
     Folders!Next, Folders!Remove, Folders!Dropped, Folders!Fault, Folders!Move, Folders!RemovedInPlace,
     Folders!Active, Folders!InPlace, Folders!ToTrash, Folders!AskJobs, Folders!Find, Folders!CacheExpires,
     Folders!ScanEnds, Folders!ScanBegins, Folders!Seen, Folders!Restart, Folders!JobEnds, Folders!Work,
     Folders!Enqueue, Dashboard!Folders!Next, Dashboard!Folders!Remove, Dashboard!Folders!Dropped,
     Dashboard!Folders!Fault, Dashboard!Folders!Move, Dashboard!Folders!RemovedInPlace,
     Dashboard!Folders!Active, Dashboard!Folders!InPlace, Dashboard!Folders!ToTrash,
     Dashboard!Folders!AskJobs, Dashboard!Folders!Find, Dashboard!Folders!CacheExpires,
     Dashboard!Folders!ScanEnds, Dashboard!Folders!ScanBegins, Dashboard!Folders!Seen,
     Dashboard!Folders!Restart, Dashboard!Folders!JobEnds, Dashboard!Folders!Work,
     Dashboard!Folders!Enqueue

LEMMA FoldersProperty == ASSUME Dashboard!Folders!DeletesAreSafe PROVE Folders!DeletesAreSafe
  BY ZenonT(60) DEF
     Folders!DeletesAreSafe, Folders!Active, Dashboard!Folders!DeletesAreSafe, Dashboard!Folders!Active

LEMMA FoldersAssumed == Dashboard!Folders!StorageAssumption
  BY FoldersGiven, ZenonT(60) DEF
     Folders!StorageAssumption, Dashboard!Folders!StorageAssumption

FoldersKept == part = "folders" => Dashboard!StorageInv

LEMMA FoldersBegins == ASSUME Init PROVE FoldersKept
  BY FoldersAssumed, FoldersInit, Dashboard!FoldersInitInv DEF Init, FoldersKept

LEMMA FoldersGoesOn == ASSUME FoldersKept, [Next]_vars PROVE FoldersKept'
<1>1. part' = "folders" => part = "folders" /\ [Dashboard!Folders!Next]_(Dashboard!Folders!storageVars)
  BY FoldersNext DEF Next, vars, Dashboard!Folders!storageVars
<1>2. QED BY <1>1, FoldersAssumed, Dashboard!FoldersNextInv DEF FoldersKept

LEMMA FoldersGives == ASSUME Dashboard!StorageInv PROVE Folders!DeletesAreSafe
  BY FoldersAssumed, FoldersProperty, Dashboard!InvStorage

--------------------------------------------------------------------------------
(* VodEdits.                                                                  *)

LEMMA EditsInit == ASSUME Edits!Init PROVE Dashboard!Edits!Init
  BY ZenonT(60) DEF
     Edits!Init, Edits!Idle, Dashboard!Edits!Init, Dashboard!Edits!Idle

LEMMA EditsNext == ASSUME Edits!Next PROVE Dashboard!Edits!Next
  BY ZenonT(60) DEF
     Edits!Next, Edits!LockedPatch, Edits!Ends, Edits!Idle, Edits!CheckFits, Edits!ContentEnd,
     Edits!Elements, Edits!Max, Edits!Lock, Edits!History, Edits!GamesEnd, Edits!RowFree, Edits!StepWrites,
     Edits!Beside, Edits!At, Edits!SaveDuration, Edits!PatchDuration, Edits!ReadGames, Edits!PutGames,
     Edits!GamesFit, Edits!PutChapters, Edits!ChaptersFit, Edits!Refused, Edits!Read, Edits!Ops,
     Dashboard!Edits!Next, Dashboard!Edits!LockedPatch, Dashboard!Edits!Ends, Dashboard!Edits!Idle,
     Dashboard!Edits!CheckFits, Dashboard!Edits!ContentEnd, Dashboard!Edits!Elements, Dashboard!Edits!Max,
     Dashboard!Edits!Lock, Dashboard!Edits!History, Dashboard!Edits!GamesEnd, Dashboard!Edits!RowFree,
     Dashboard!Edits!StepWrites, Dashboard!Edits!Beside, Dashboard!Edits!At, Dashboard!Edits!SaveDuration,
     Dashboard!Edits!PatchDuration, Dashboard!Edits!ReadGames, Dashboard!Edits!PutGames,
     Dashboard!Edits!GamesFit, Dashboard!Edits!PutChapters, Dashboard!Edits!ChaptersFit,
     Dashboard!Edits!Refused, Dashboard!Edits!Read, Dashboard!Edits!Ops

LEMMA EditsProperty == ASSUME Dashboard!Edits!EditsHold PROVE Edits!EditsHold
  BY ZenonT(60) DEF
     Edits!EditsHold, Edits!Elements, Dashboard!Edits!EditsHold, Dashboard!Edits!Elements

LEMMA EditsAssumed == Dashboard!Edits!EditsAssumption
  BY EditsGiven, ZenonT(60) DEF
     Edits!EditsAssumption, Dashboard!Edits!EditsAssumption

EditsKept == part = "edits" => Dashboard!EditInv

LEMMA EditsBegins == ASSUME Init PROVE EditsKept
  BY EditsAssumed, EditsInit, Dashboard!EditsInitInv DEF Init, EditsKept

LEMMA EditsGoesOn == ASSUME EditsKept, [Next]_vars PROVE EditsKept'
<1>1. part' = "edits" => part = "edits" /\ [Dashboard!Edits!Next]_(Dashboard!Edits!editVars)
  BY EditsNext DEF Next, vars, Dashboard!Edits!editVars
<1>2. QED BY <1>1, EditsAssumed, Dashboard!EditsNextInv DEF EditsKept

LEMMA EditsGives == ASSUME Dashboard!EditInv PROVE Edits!EditsHold
  BY EditsAssumed, EditsProperty, Dashboard!InvEdits

--------------------------------------------------------------------------------
(* JobLog.                                                                    *)

LEMMA EventsInit == ASSUME Events!Init PROVE Dashboard!Events!Init
  BY ZenonT(60) DEF
     Events!Init, Events!Out, Events!Flushers, Dashboard!Events!Init, Dashboard!Events!Out,
     Dashboard!Events!Flushers

LEMMA EventsNext == ASSUME Events!Next PROVE Dashboard!Events!Next
  BY ZenonT(60) DEF
     Events!Next, Events!Fails, Events!Flushed, Events!Out, Events!ToSet, Events!Fault, Events!Commit,
     Events!Pruned, Events!Cardinality, Events!IsFiniteSet, Events!Seqs, Events!Insert, Events!Flush,
     Events!Free, Events!Flushers, Events!Read, Events!InOrder, Events!Restart, Events!Cancel, Events!Add,
     Dashboard!Events!Next, Dashboard!Events!Fails, Dashboard!Events!Flushed, Dashboard!Events!Out,
     Dashboard!Events!ToSet, Dashboard!Events!Fault, Dashboard!Events!Commit, Dashboard!Events!Pruned,
     Dashboard!Events!Cardinality, Dashboard!Events!IsFiniteSet, Dashboard!Events!Seqs,
     Dashboard!Events!Insert, Dashboard!Events!Flush, Dashboard!Events!Free, Dashboard!Events!Flushers,
     Dashboard!Events!Read, Dashboard!Events!InOrder, Dashboard!Events!Restart, Dashboard!Events!Cancel,
     Dashboard!Events!Add

LEMMA EventsProperty == ASSUME Dashboard!Events!PollersMissNothing PROVE Events!PollersMissNothing
  BY ZenonT(60) DEF
     Events!PollersMissNothing, Events!ToSet, Events!Seqs, Events!Cardinality, Events!IsFiniteSet,
     Events!Flushers, Dashboard!Events!PollersMissNothing, Dashboard!Events!ToSet, Dashboard!Events!Seqs,
     Dashboard!Events!Cardinality, Dashboard!Events!IsFiniteSet, Dashboard!Events!Flushers

LEMMA EventsAssumed == Dashboard!Events!LogAssumption
  BY EventsGiven, ZenonT(60) DEF
     Events!LogAssumption, Events!Flushers, Dashboard!Events!LogAssumption, Dashboard!Events!Flushers

EventsKept == part = "log" => Dashboard!LogInv

LEMMA EventsBegins == ASSUME Init PROVE EventsKept
  BY EventsAssumed, EventsInit, Dashboard!EventsInitInv DEF Init, EventsKept

LEMMA EventsGoesOn == ASSUME EventsKept, [Next]_vars PROVE EventsKept'
<1>1. part' = "log" => part = "log" /\ [Dashboard!Events!Next]_(Dashboard!Events!logVars)
  BY EventsNext DEF Next, vars, Dashboard!Events!logVars
<1>2. QED BY <1>1, EventsAssumed, Dashboard!EventsNextInv DEF EventsKept

LEMMA EventsGives == ASSUME Dashboard!LogInv PROVE Events!PollersMissNothing
  BY EventsAssumed, EventsProperty, Dashboard!InvLog

--------------------------------------------------------------------------------
(* StreamJobs.                                                                *)

LEMMA MonitorInit == ASSUME Monitor!Init PROVE Videos!Monitor!Init
  BY ZenonT(60) DEF
     Monitor!Init, Monitor!Streams, Monitor!NoRequest, Monitor!Idle, Monitor!Kinds, Videos!Monitor!Init,
     Videos!Monitor!Streams, Videos!Monitor!NoRequest, Videos!Monitor!Idle, Videos!Monitor!Kinds

LEMMA MonitorNext == ASSUME Monitor!Next PROVE Videos!Monitor!Next
  BY ZenonT(60) DEF
     Monitor!Next, Monitor!Toggle, Monitor!Odd, Monitor!EnqueueByHand, Monitor!NoRequest, Monitor!Queued,
     Monitor!AskToArchive, Monitor!UpsertVod, Monitor!ArchiveEnds, Monitor!ResolveVod, Monitor!HasVod,
     Monitor!Recorded, Monitor!Streams, Monitor!TickFails, Monitor!GivenUp, Monitor!Idle,
     Monitor!EnqueueArchive, Monitor!CheckArchive, Monitor!Step, Monitor!LiveOnly, Monitor!Archived,
     Monitor!ExistsAny, Monitor!EnqueueLive, Monitor!CheckLive, Monitor!SetLive, Monitor!EnqueueBotChat,
     Monitor!StreamEnded, Monitor!Look, Monitor!GoesOff, Monitor!VideoAppears, Monitor!GoesOn,
     Videos!Monitor!Next, Videos!Monitor!Toggle, Videos!Monitor!Odd, Videos!Monitor!EnqueueByHand,
     Videos!Monitor!NoRequest, Videos!Monitor!Queued, Videos!Monitor!AskToArchive,
     Videos!Monitor!UpsertVod, Videos!Monitor!ArchiveEnds, Videos!Monitor!ResolveVod,
     Videos!Monitor!HasVod, Videos!Monitor!Recorded, Videos!Monitor!Streams, Videos!Monitor!TickFails,
     Videos!Monitor!GivenUp, Videos!Monitor!Idle, Videos!Monitor!EnqueueArchive,
     Videos!Monitor!CheckArchive, Videos!Monitor!Step, Videos!Monitor!LiveOnly, Videos!Monitor!Archived,
     Videos!Monitor!ExistsAny, Videos!Monitor!EnqueueLive, Videos!Monitor!CheckLive,
     Videos!Monitor!SetLive, Videos!Monitor!EnqueueBotChat, Videos!Monitor!StreamEnded,
     Videos!Monitor!Look, Videos!Monitor!GoesOff, Videos!Monitor!VideoAppears, Videos!Monitor!GoesOn

LEMMA MonitorProperty == ASSUME Videos!Monitor!StreamsHaveTheirJobs PROVE Monitor!StreamsHaveTheirJobs
  BY ZenonT(60) DEF
     Monitor!StreamsHaveTheirJobs, Monitor!ExistsAny, Monitor!Streams, Monitor!Kinds,
     Videos!Monitor!StreamsHaveTheirJobs, Videos!Monitor!ExistsAny, Videos!Monitor!Streams,
     Videos!Monitor!Kinds

LEMMA MonitorAssumed == Videos!Monitor!StreamsAssumption
  BY MonitorGiven, ZenonT(60) DEF
     Monitor!StreamsAssumption, Videos!Monitor!StreamsAssumption

MonitorKept == part = "monitor" => Videos!StreamInv

LEMMA MonitorBegins == ASSUME Init PROVE MonitorKept
  BY MonitorAssumed, MonitorInit, Videos!MonitorInitInv DEF Init, MonitorKept

LEMMA MonitorGoesOn == ASSUME MonitorKept, [Next]_vars PROVE MonitorKept'
<1>1. part' = "monitor" => part = "monitor" /\ [Videos!Monitor!Next]_(Videos!Monitor!streamVars)
  BY MonitorNext DEF Next, vars, Videos!Monitor!streamVars
<1>2. QED BY <1>1, MonitorAssumed, Videos!MonitorStepInv DEF MonitorKept

LEMMA MonitorGives == ASSUME Videos!StreamInv PROVE Monitor!StreamsHaveTheirJobs
  BY MonitorAssumed, MonitorProperty, Videos!InvStreams

--------------------------------------------------------------------------------
(* BotChat.                                                                   *)

LEMMA BotInit == ASSUME Bot!Init PROVE Videos!Bot!Init
  BY ZenonT(60) DEF
     Bot!Init, Bot!Vods, Bot!NoRead, Bot!Locks, Bot!NoRows, Videos!Bot!Init, Videos!Bot!Vods,
     Videos!Bot!NoRead, Videos!Bot!Locks, Videos!Bot!NoRows

LEMMA BotNext == ASSUME Bot!Next PROVE Videos!Bot!Next
  BY ZenonT(60) DEF
     Bot!Next, Bot!ReadFails, Bot!NoRead, Bot!Store, Bot!MessagesOf, Bot!End, Bot!Upserted, Bot!Merged,
     Bot!Annotated, Bot!Hits, Bot!ReadPage, Bot!Locks, Bot!Backfill, Bot!Start, Bot!ActiveOf,
     Bot!ReadByHand, Bot!MonitorAsks, Bot!Vods, Bot!Moderate, Bot!Cardinality, Bot!IsFiniteSet, Bot!Tick,
     Videos!Bot!Next, Videos!Bot!ReadFails, Videos!Bot!NoRead, Videos!Bot!Store, Videos!Bot!MessagesOf,
     Videos!Bot!End, Videos!Bot!Upserted, Videos!Bot!Merged, Videos!Bot!Annotated, Videos!Bot!Hits,
     Videos!Bot!ReadPage, Videos!Bot!Locks, Videos!Bot!Backfill, Videos!Bot!Start, Videos!Bot!ActiveOf,
     Videos!Bot!ReadByHand, Videos!Bot!MonitorAsks, Videos!Bot!Vods, Videos!Bot!Moderate,
     Videos!Bot!Cardinality, Videos!Bot!IsFiniteSet, Videos!Bot!Tick

LEMMA BotProperty == ASSUME Videos!Bot!BotChatKept PROVE Bot!BotChatKept
  BY ZenonT(60) DEF
     Bot!BotChatKept, Bot!MessagesOf, Bot!End, Bot!Vods, Videos!Bot!BotChatKept, Videos!Bot!MessagesOf,
     Videos!Bot!End, Videos!Bot!Vods

LEMMA BotAssumed == Videos!Bot!BotAssumption
  BY BotGiven, ZenonT(60) DEF
     Bot!BotAssumption, Bot!Vods, Videos!Bot!BotAssumption, Videos!Bot!Vods

BotKept == part = "bot" => Videos!BotInv

LEMMA BotBegins == ASSUME Init PROVE BotKept
  BY BotAssumed, BotInit, Videos!BotInitInv DEF Init, BotKept

LEMMA BotGoesOn == ASSUME BotKept, [Next]_vars PROVE BotKept'
<1>1. part' = "bot" => part = "bot" /\ [Videos!Bot!Next]_(Videos!Bot!botVars)
  BY BotNext DEF Next, vars, Videos!Bot!botVars
<1>2. QED BY <1>1, BotAssumed, Videos!BotStepInv DEF BotKept

LEMMA BotGives == ASSUME Videos!BotInv PROVE Bot!BotChatKept
  BY BotAssumed, BotProperty, Videos!InvBot

--------------------------------------------------------------------------------
(* Chat.                                                                      *)

LEMMA ChatOfInit == ASSUME ChatOf!Init PROVE Videos!ChatOf!Init
  BY ZenonT(60) DEF
     ChatOf!Init, ChatOf!NoCrawl, Videos!ChatOf!Init, Videos!ChatOf!NoCrawl

\* What a page shows is the same.
LEMMA ChatOfOrdered == \A rows : ChatOf!Ordered(rows) = Videos!ChatOf!Ordered(rows)
  BY ZenonT(60) DEF
     ChatOf!Ordered, ChatOf!Before, ChatOf!SetToSortSeq, ChatOf!SetToSeq, ChatOf!IsInjective,
     ChatOf!Cardinality, ChatOf!IsFiniteSet, Videos!ChatOf!Ordered, Videos!ChatOf!Before,
     Videos!ChatOf!SetToSortSeq, Videos!ChatOf!SetToSeq, Videos!ChatOf!IsInjective,
     Videos!ChatOf!Cardinality, Videos!ChatOf!IsFiniteSet

LEMMA ChatOfPageOf == \A rows : ChatOf!PageOf(rows) = Videos!ChatOf!PageOf(rows)
  BY ChatOfOrdered DEF
     ChatOf!PageOf, ChatOf!Smaller, Videos!ChatOf!PageOf, Videos!ChatOf!Smaller

LEMMA ChatOfStartingId == ChatOf!StartingId = Videos!ChatOf!StartingId
  BY ChatOfOrdered DEF
     ChatOf!StartingId, ChatOf!Cached, ChatOf!Body, ChatOf!Stored, Videos!ChatOf!StartingId,
     Videos!ChatOf!Cached, Videos!ChatOf!Body, Videos!ChatOf!Stored

LEMMA ChatOfOffsetPage == \A offset : ChatOf!OffsetPage(offset) = Videos!ChatOf!OffsetPage(offset)
  BY ChatOfOrdered, ChatOfPageOf, ChatOfStartingId, ZenonT(30) DEF
     ChatOf!OffsetPage, ChatOf!Stored, Videos!ChatOf!OffsetPage, Videos!ChatOf!Stored

LEMMA ChatOfStartCrawl == ChatOf!StartCrawl => Videos!ChatOf!StartCrawl
  BY ZenonT(60) DEF
     ChatOf!StartCrawl, ChatOf!ResumeAt, ChatOf!MaxOffset, ChatOf!Stored, ChatOf!Max, ChatOf!FirstFrom,
     ChatOf!Comments, ChatOf!Min, Videos!ChatOf!StartCrawl, Videos!ChatOf!ResumeAt,
     Videos!ChatOf!MaxOffset, Videos!ChatOf!Stored, Videos!ChatOf!Max, Videos!ChatOf!FirstFrom,
     Videos!ChatOf!Comments, Videos!ChatOf!Min

LEMMA ChatOfCrawlPage == ChatOf!CrawlPage => Videos!ChatOf!CrawlPage
  BY ZenonT(60) DEF
     ChatOf!CrawlPage, ChatOf!Inserted, ChatOf!Stored, ChatOf!ToSet, ChatOf!Smaller,
     Videos!ChatOf!CrawlPage, Videos!ChatOf!Inserted, Videos!ChatOf!Stored, Videos!ChatOf!ToSet,
     Videos!ChatOf!Smaller

LEMMA ChatOfCrawlFails == ChatOf!CrawlFails => Videos!ChatOf!CrawlFails
  BY ZenonT(60) DEF
     ChatOf!CrawlFails, Videos!ChatOf!CrawlFails

LEMMA ChatOfBotRead == ChatOf!BotRead => Videos!ChatOf!BotRead
  BY ZenonT(60) DEF
     ChatOf!BotRead, ChatOf!Cardinality, ChatOf!IsFiniteSet, ChatOf!Numbered, ChatOf!Stored,
     ChatOf!Comments, Videos!ChatOf!BotRead, Videos!ChatOf!Cardinality, Videos!ChatOf!IsFiniteSet,
     Videos!ChatOf!Numbered, Videos!ChatOf!Stored, Videos!ChatOf!Comments

LEMMA ChatOfSeek == \A offset : ChatOf!Seek(offset) => Videos!ChatOf!Seek(offset)
  BY ChatOfOffsetPage, ChatOfStartingId, ZenonT(30) DEF
     ChatOf!Seek, ChatOf!Cached, ChatOf!Body, ChatOf!Shown, ChatOf!Stored, Videos!ChatOf!Seek,
     Videos!ChatOf!Cached, Videos!ChatOf!Body, Videos!ChatOf!Shown, Videos!ChatOf!Stored

LEMMA ChatOfFollow == ChatOf!Follow => Videos!ChatOf!Follow
  BY ChatOfPageOf, ZenonT(30) DEF
     ChatOf!Follow, ChatOf!CursorRows, ChatOf!Cached, ChatOf!Body, ChatOf!Shown, ChatOf!Stored,
     Videos!ChatOf!Follow, Videos!ChatOf!CursorRows, Videos!ChatOf!Cached, Videos!ChatOf!Body,
     Videos!ChatOf!Shown, Videos!ChatOf!Stored

LEMMA ChatOfDropped == ChatOf!Dropped => Videos!ChatOf!Dropped
  BY ZenonT(60) DEF
     ChatOf!Dropped, Videos!ChatOf!Dropped

LEMMA ChatOfExpire == \A e : ChatOf!Expire(e) => Videos!ChatOf!Expire(e)
  BY ZenonT(60) DEF
     ChatOf!Expire, Videos!ChatOf!Expire

LEMMA ChatOfNext == ASSUME ChatOf!Next PROVE Videos!ChatOf!Next
  BY ChatOfStartCrawl, ChatOfCrawlPage, ChatOfCrawlFails, ChatOfBotRead, ChatOfSeek, ChatOfFollow, ChatOfDropped, ChatOfExpire, ZenonT(60) DEF ChatOf!Next, ChatOf!ToSet, Videos!ChatOf!Next, Videos!ChatOf!ToSet

LEMMA ChatOfProperty == ASSUME Videos!ChatOf!ChatIsWhole PROVE ChatOf!ChatIsWhole
  BY ZenonT(60) DEF
     ChatOf!ChatIsWhole, ChatOf!Stored, ChatOf!Comments, Videos!ChatOf!ChatIsWhole, Videos!ChatOf!Stored,
     Videos!ChatOf!Comments

LEMMA ChatOfAssumed == Videos!ChatOf!ChatAssumption
  BY ChatOfGiven, ZenonT(60) DEF
     ChatOf!ChatAssumption, Videos!ChatOf!ChatAssumption

ChatOfKept == part = "chat" => Videos!ChatInv

LEMMA ChatOfBegins == ASSUME Init PROVE ChatOfKept
  BY ChatOfAssumed, ChatOfInit, Videos!ChatOfInitInv DEF Init, ChatOfKept

LEMMA ChatOfGoesOn == ASSUME ChatOfKept, [Next]_vars PROVE ChatOfKept'
<1>1. part' = "chat" => part = "chat" /\ [Videos!ChatOf!Next]_(Videos!ChatOf!chatVars)
  BY ChatOfNext DEF Next, vars, Videos!ChatOf!chatVars
<1>2. QED BY <1>1, ChatOfAssumed, Videos!ChatOfNextInv DEF ChatOfKept

LEMMA ChatOfGives == ASSUME Videos!ChatInv PROVE ChatOf!ChatIsWhole
  BY ChatOfAssumed, ChatOfProperty, Videos!InvChat

--------------------------------------------------------------------------------
(* ApiCache.                                                                  *)

LEMMA CacheInit == ASSUME Cache!Init PROVE Videos!Cache!Init
  BY ZenonT(60) DEF
     Cache!Init, Cache!NoRender, Cache!Keys, Cache!Vods, Cache!SyntheticVods, Cache!NoVod,
     Videos!Cache!Init, Videos!Cache!NoRender, Videos!Cache!Keys, Videos!Cache!Vods,
     Videos!Cache!SyntheticVods, Videos!Cache!NoVod

LEMMA CacheNext == ASSUME Cache!Next PROVE Videos!Cache!Next
  BY ZenonT(60) DEF
     Cache!Next, Cache!ChangeSegments, Cache!Commit, Cache!SetToSeq, Cache!IsInjective, Cache!Cardinality,
     Cache!IsFiniteSet, Cache!SyntheticVods, Cache!MoveRows, Cache!Hide, Cache!WriteRow, Cache!Vods,
     Cache!Lost, Cache!ClearAll, Cache!Invalidated, Cache!Listen, Cache!Notified, Cache!Drops, Cache!NoVod,
     Cache!Expire, Cache!Fill, Cache!NoRender, Cache!ReadRows, Cache!Response, Cache!Titles,
     Cache!MadeFrom, Cache!Body, Cache!OwnAndSources, Cache!MadeOf, Cache!Missing, Cache!Miss,
     Videos!Cache!Next, Videos!Cache!ChangeSegments, Videos!Cache!Commit, Videos!Cache!SetToSeq,
     Videos!Cache!IsInjective, Videos!Cache!Cardinality, Videos!Cache!IsFiniteSet,
     Videos!Cache!SyntheticVods, Videos!Cache!MoveRows, Videos!Cache!Hide, Videos!Cache!WriteRow,
     Videos!Cache!Vods, Videos!Cache!Lost, Videos!Cache!ClearAll, Videos!Cache!Invalidated,
     Videos!Cache!Listen, Videos!Cache!Notified, Videos!Cache!Drops, Videos!Cache!NoVod,
     Videos!Cache!Expire, Videos!Cache!Fill, Videos!Cache!NoRender, Videos!Cache!ReadRows,
     Videos!Cache!Response, Videos!Cache!Titles, Videos!Cache!MadeFrom, Videos!Cache!Body,
     Videos!Cache!OwnAndSources, Videos!Cache!MadeOf, Videos!Cache!Missing, Videos!Cache!Miss

LEMMA CacheProperty == ASSUME Videos!Cache!CacheIsCurrent PROVE Cache!CacheIsCurrent
  BY ZenonT(60) DEF
     Cache!CacheIsCurrent, Cache!Body, Cache!OwnAndSources, Cache!MadeFrom, Cache!SyntheticVods,
     Cache!MadeOf, Cache!Vods, Cache!Missing, Cache!Heard, Cache!Drops, Cache!NoVod,
     Videos!Cache!CacheIsCurrent, Videos!Cache!Body, Videos!Cache!OwnAndSources, Videos!Cache!MadeFrom,
     Videos!Cache!SyntheticVods, Videos!Cache!MadeOf, Videos!Cache!Vods, Videos!Cache!Missing,
     Videos!Cache!Heard, Videos!Cache!Drops, Videos!Cache!NoVod

LEMMA CacheAssumed == Videos!Cache!CacheAssumption
  BY CacheGiven, ZenonT(60) DEF
     Cache!CacheAssumption, Cache!IsFiniteSet, Cache!SyntheticVods, Cache!Vods, Cache!NoVod,
     Videos!Cache!CacheAssumption, Videos!Cache!IsFiniteSet, Videos!Cache!SyntheticVods, Videos!Cache!Vods,
     Videos!Cache!NoVod

CacheKept == part = "cache" => Videos!CacheInv

LEMMA CacheBegins == ASSUME Init PROVE CacheKept
  BY CacheAssumed, CacheInit, Videos!CacheInitInv DEF Init, CacheKept

LEMMA CacheGoesOn == ASSUME CacheKept, [Next]_vars PROVE CacheKept'
<1>1. part' = "cache" => part = "cache" /\ [Videos!Cache!Next]_(Videos!Cache!cacheVars)
  BY CacheNext DEF Next, vars, Videos!Cache!cacheVars
<1>2. QED BY <1>1, CacheAssumed, Videos!CacheNextInv DEF CacheKept

LEMMA CacheGives == ASSUME Videos!CacheInv PROVE Cache!CacheIsCurrent
  BY CacheAssumed, CacheProperty, Videos!InvCache

--------------------------------------------------------------------------------
(* Synthetic.                                                                 *)

\* What the parts compute is the same.
LEMMA SynthResolve == \A segments, durations : Synth!Resolve(segments, durations) = Videos!Synth!Resolve(segments, durations)
  BY DEF
     Synth!Resolve, Synth!Min, Synth!Greatest, Videos!Synth!Resolve, Videos!Synth!Min,
     Videos!Synth!Greatest

LEMMA SynthDurationsOf == \A sources : Synth!DurationsOf(sources) = Videos!Synth!DurationsOf(sources)
  BY DEF
     Synth!DurationsOf, Videos!Synth!DurationsOf

LEMMA SynthTotalOf == \A resolved : Synth!TotalOf(resolved) = Videos!Synth!TotalOf(resolved)
  BY DEF
     Synth!TotalOf, Synth!ToSet, Synth!LengthOf, Synth!Greatest, Synth!Max, Videos!Synth!TotalOf,
     Videos!Synth!ToSet, Videos!Synth!LengthOf, Videos!Synth!Greatest, Videos!Synth!Max

LEMMA SynthLengthOf == \A seg : Synth!LengthOf(seg) = Videos!Synth!LengthOf(seg)
  BY DEF
     Synth!LengthOf, Synth!Greatest, Videos!Synth!LengthOf, Videos!Synth!Greatest

LEMMA SynthCeil == \A at : Synth!Ceil(at) = Videos!Synth!Ceil(at)
  BY DEF
     Synth!Ceil, Videos!Synth!Ceil

LEMMA SynthClip == \A chapters, lo, hi : Synth!Clip(chapters, lo, hi) = Videos!Synth!Clip(chapters, lo, hi)
  BY DEF
     Synth!Clip, Synth!Until, Synth!EndOf, Synth!Least, Synth!From, Synth!Greatest, Videos!Synth!Clip,
     Videos!Synth!Until, Videos!Synth!EndOf, Videos!Synth!Least, Videos!Synth!From, Videos!Synth!Greatest

LEMMA SynthShift == \A chapters, by : Synth!Shift(chapters, by) = Videos!Synth!Shift(chapters, by)
  BY DEF
     Synth!Shift, Videos!Synth!Shift

LEMMA SynthGapChapter == \A start, len : Synth!GapChapter(start, len) = Videos!Synth!GapChapter(start, len)
  BY DEF
     Synth!GapChapter, Synth!GapName, Videos!Synth!GapChapter, Videos!Synth!GapName

LEMMA SynthOverlap == \A p, q : Synth!Overlap(p, q) <=> Videos!Synth!Overlap(p, q)
  BY DEF
     Synth!Overlap, Synth!Greatest, Synth!Least, Videos!Synth!Overlap, Videos!Synth!Greatest,
     Videos!Synth!Least

LEMMA SynthValid == \A segments, sources : Synth!Valid(segments, sources) <=> Videos!Synth!Valid(segments, sources)
  BY DEF
     Synth!Valid, Videos!Synth!Valid

LEMMA SynthCheckNesting == \A v, segments, inner : Synth!CheckNesting(v, segments, inner) <=> Videos!Synth!CheckNesting(v, segments, inner)
  BY DEF
     Synth!CheckNesting, Synth!Levels, Synth!SourcesOf, Synth!ToSet, Videos!Synth!CheckNesting,
     Videos!Synth!Levels, Videos!Synth!SourcesOf, Videos!Synth!ToSet

LEMMA SynthNow == Synth!Now = Videos!Synth!Now
  BY DEF
     Synth!Now, Synth!Existing, Synth!Vods, Videos!Synth!Now, Videos!Synth!Existing, Videos!Synth!Vods

LEMMA SynthInnerNow == Synth!InnerNow = Videos!Synth!InnerNow
  BY DEF
     Synth!InnerNow, Synth!Made, Synth!Existing, Synth!Vods, Videos!Synth!InnerNow, Videos!Synth!Made,
     Videos!Synth!Existing, Videos!Synth!Vods

LEMMA SynthDerive ==
  ASSUME NEW segments, NEW sources PROVE Synth!Derive(segments, sources) = Videos!Synth!Derive(segments, sources)
<1> DEFINE resolved == Synth!Resolve(segments, Synth!DurationsOf(sources))
           Before(i) == Synth!Max({0} \cup {resolved[k].at + Synth!LengthOf(resolved[k]) : k \in 1..(i - 1)})
           Gap(i) == IF resolved[i].at > Before(i)
                     THEN {Synth!GapChapter(Before(i), resolved[i].at - Before(i))} ELSE {}
           Shows(s) == IF Synth!LengthOf(s) = 0 THEN {}
                       ELSE Synth!Shift(Synth!Clip(sources[s.src].chapters, s.start, s.end), s.at - s.start)
           Found == [duration |-> Synth!Ceil(Synth!TotalOf(resolved)),
                     chapters |-> UNION {Gap(i) \cup Shows(resolved[i]) : i \in DOMAIN resolved}]
<1> DEFINE resolvedV == Videos!Synth!Resolve(segments, Videos!Synth!DurationsOf(sources))
           BeforeV(i) == Videos!Synth!Max({0} \cup {resolvedV[k].at + Videos!Synth!LengthOf(resolvedV[k]) : k \in 1..(i - 1)})
           GapV(i) == IF resolvedV[i].at > BeforeV(i)
                      THEN {Videos!Synth!GapChapter(BeforeV(i), resolvedV[i].at - BeforeV(i))} ELSE {}
           ShowsV(s) == IF Videos!Synth!LengthOf(s) = 0 THEN {}
                        ELSE Videos!Synth!Shift(Videos!Synth!Clip(sources[s.src].chapters, s.start, s.end), s.at - s.start)
           FoundV == [duration |-> Videos!Synth!Ceil(Videos!Synth!TotalOf(resolvedV)),
                      chapters |-> UNION {GapV(i) \cup ShowsV(resolvedV[i]) : i \in DOMAIN resolvedV}]
<1>1. Synth!Derive(segments, sources) = Found
  BY Zenon DEF Synth!Derive
<1>2. Videos!Synth!Derive(segments, sources) = FoundV
  BY Zenon DEF Videos!Synth!Derive
<1>3. resolved = resolvedV
  BY SynthResolve, SynthDurationsOf
<1> HIDE DEF resolved, resolvedV
<1>4. \A i : Before(i) = BeforeV(i)
  BY <1>3 DEF Synth!Max, Synth!LengthOf, Synth!Greatest, Videos!Synth!Max, Videos!Synth!LengthOf, Videos!Synth!Greatest
<1> HIDE DEF Before, BeforeV
<1>5. \A i : Gap(i) = GapV(i)
  BY <1>3, <1>4, SynthGapChapter
<1>6. \A s : Shows(s) = ShowsV(s)
  BY SynthLengthOf, SynthShift, SynthClip
<1> HIDE DEF Gap, GapV, Shows, ShowsV
<1>7. UNION {Gap(i) \cup Shows(resolved[i]) : i \in DOMAIN resolved}
      = UNION {GapV(i) \cup ShowsV(resolvedV[i]) : i \in DOMAIN resolvedV}
  BY <1>3, <1>5, <1>6
<1>8. Synth!Ceil(Synth!TotalOf(resolved)) = Videos!Synth!Ceil(Videos!Synth!TotalOf(resolvedV))
  BY <1>3, SynthTotalOf, SynthCeil
<1>9. Found = FoundV
  BY <1>7, <1>8
<1>10. QED BY <1>1, <1>2, <1>9

LEMMA SynthRowsAtFirst == Synth!RowsAtFirst = Videos!Synth!RowsAtFirst
<1> DEFINE Rows(g) == [n \in 0..Len(Copied) |->
             IF n = 0 THEN [v \in Synth!Vods |-> IF v \in {"r"} THEN Synth!RowAtFirst(Synth!RealColumns(0), <<>>) ELSE Synth!NoRow]
             ELSE [g[n - 1] EXCEPT ![Copied[n][1]] =
                     Synth!RowAtFirst(Synth!Derive(Copied[n][2], [v \in Synth!Vods |-> g[n - 1][v].columns]), Copied[n][2])]]
           RowsV(g) == [n \in 0..Len(Copied) |->
             IF n = 0 THEN [v \in Videos!Synth!Vods |-> IF v \in {"r"} THEN Videos!Synth!RowAtFirst(Videos!Synth!RealColumns(0), <<>>) ELSE Videos!Synth!NoRow]
             ELSE [g[n - 1] EXCEPT ![Copied[n][1]] =
                     Videos!Synth!RowAtFirst(Videos!Synth!Derive(Copied[n][2], [v \in Videos!Synth!Vods |-> g[n - 1][v].columns]), Copied[n][2])]]
<1>1. Synth!RowsAtFirst = CHOOSE g : g = Rows(g)
  BY ZenonT(30) DEF Synth!RowsAtFirst
<1>2. Videos!Synth!RowsAtFirst = CHOOSE g : g = RowsV(g)
  BY ZenonT(30) DEF Videos!Synth!RowsAtFirst
<1>3. \A g : Rows(g) = RowsV(g)
  BY SynthDerive, ZenonT(30) DEF Synth!Vods, Synth!RowAtFirst, Synth!RealColumns, Synth!NoRow, Synth!Nothing,
     Videos!Synth!Vods, Videos!Synth!RowAtFirst, Videos!Synth!RealColumns, Videos!Synth!NoRow, Videos!Synth!Nothing
<1> HIDE DEF Rows, RowsV
<1>4. (CHOOSE g : g = Rows(g)) = (CHOOSE g : g = RowsV(g))
  BY <1>3, Zenon
<1>5. QED BY <1>1, <1>2, <1>4

LEMMA SynthInit == ASSUME Synth!Init PROVE Videos!Synth!Init
  BY SynthRowsAtFirst, ZenonT(30) DEF
     Synth!Init, Synth!Idle, Synth!Nothing, Synth!Vods, Videos!Synth!Init, Videos!Synth!Idle,
     Videos!Synth!Nothing, Videos!Synth!Vods

LEMMA SynthCovers ==
  ASSUME NEW v, NEW segments PROVE Synth!NoDoubleCover(v, segments) <=> Videos!Synth!NoDoubleCover(v, segments)
<1> DEFINE mine == Synth!Resolve(segments, Synth!DurationsOf(Synth!Now))
           Theirs(w) == SelectSeq(s1[w].segments, LAMBDA s : s.src \in Synth!SourcesOf(segments))
           Apart(w, own) == s1[w].supersedes =>
             \A p \in Synth!ToSet(own), q \in Synth!ToSet(Synth!Resolve(Theirs(w), Synth!DurationsOf(Synth!Now))) :
               ~Synth!Overlap(p, q)
<1> DEFINE mineV == Videos!Synth!Resolve(segments, Videos!Synth!DurationsOf(Videos!Synth!Now))
           TheirsV(w) == SelectSeq(s1[w].segments, LAMBDA s : s.src \in Videos!Synth!SourcesOf(segments))
           ApartV(w, own) == s1[w].supersedes =>
             \A p \in Videos!Synth!ToSet(own), q \in Videos!Synth!ToSet(Videos!Synth!Resolve(TheirsV(w), Videos!Synth!DurationsOf(Videos!Synth!Now))) :
               ~Videos!Synth!Overlap(p, q)
<1>1. Synth!NoDoubleCover(v, segments) <=> \A w \in Synth!Made \ {v} : Apart(w, mine)
  BY Zenon DEF Synth!NoDoubleCover
<1>2. Videos!Synth!NoDoubleCover(v, segments) <=> \A w \in Videos!Synth!Made \ {v} : ApartV(w, mineV)
  BY Zenon DEF Videos!Synth!NoDoubleCover
<1>3. \A w : Theirs(w) = TheirsV(w)
  BY Zenon DEF Synth!SourcesOf, Synth!ToSet, Videos!Synth!SourcesOf, Videos!Synth!ToSet
<1> HIDE DEF Theirs, TheirsV
<1>4. \A w, own : Apart(w, own) <=> ApartV(w, own)
  BY <1>3, SynthResolve, SynthDurationsOf, SynthNow, SynthOverlap DEF Synth!ToSet, Videos!Synth!ToSet
<1>5. Synth!Made = Videos!Synth!Made
  BY DEF Synth!Made, Videos!Synth!Made, Synth!Existing, Videos!Synth!Existing, Synth!Vods, Videos!Synth!Vods
<1>6. mine = mineV
  BY SynthResolve, SynthDurationsOf, SynthNow
<1> HIDE DEF Apart, ApartV, mine, mineV
<1>7. QED BY <1>1, <1>2, <1>4, <1>5, <1>6

LEMMA SynthChecked ==
  \A v, segments, supersedes : Synth!Checked(v, segments, supersedes) <=> Videos!Synth!Checked(v, segments, supersedes)
  BY SynthCovers, SynthValid, SynthCheckNesting, SynthNow, SynthInnerNow DEF Synth!Checked, Videos!Synth!Checked

LEMMA SynthFresh == \A v : Synth!Fresh(v) <=> Videos!Synth!Fresh(v)
  BY SynthDerive, SynthNow DEF
     Synth!Fresh, Videos!Synth!Fresh

LEMMA SynthRead == \A t, segments, supersedes : Synth!Read(t, segments, supersedes) <=> Videos!Synth!Read(t, segments, supersedes)
  BY SynthDerive, SynthNow DEF
     Synth!Read, Synth!Overtaken, Synth!Writes, Synth!SourcesOf, Synth!ToSet, Synth!Now, Synth!Existing,
     Synth!Vods, Videos!Synth!Read, Videos!Synth!Overtaken, Videos!Synth!Writes, Videos!Synth!SourcesOf,
     Videos!Synth!ToSet, Videos!Synth!Now, Videos!Synth!Existing, Videos!Synth!Vods

LEMMA SynthEnd == \A t : Synth!End(t) <=> Videos!Synth!End(t)
  BY DEF
     Synth!End, Synth!Idle, Synth!Nothing, Synth!Vods, Videos!Synth!End, Videos!Synth!Idle,
     Videos!Synth!Nothing, Videos!Synth!Vods

LEMMA SynthReadSources == \A t : Synth!ReadSources(t) => Videos!Synth!ReadSources(t)
  BY SynthRead DEF
     Synth!ReadSources, Videos!Synth!ReadSources

LEMMA SynthCheck == \A t, asked, supersedes : Synth!Check(t, asked, supersedes) => Videos!Synth!Check(t, asked, supersedes)
  BY SynthChecked, SynthRead, SynthEnd DEF
     Synth!Check, Videos!Synth!Check

LEMMA SynthLock == \A t : Synth!Lock(t) => Videos!Synth!Lock(t)
  BY DEF
     Synth!Lock, Synth!End, Synth!Idle, Synth!Nothing, Synth!Vods, Synth!Locked, Synth!HoldsRow,
     Videos!Synth!Lock, Videos!Synth!End, Videos!Synth!Idle, Videos!Synth!Nothing, Videos!Synth!Vods,
     Videos!Synth!Locked, Videos!Synth!HoldsRow

LEMMA SynthCommitWrite == \A t : Synth!CommitWrite(t) => Videos!Synth!CommitWrite(t)
  BY DEF
     Synth!CommitWrite, Synth!Write, Synth!End, Synth!Idle, Synth!Nothing, Synth!Vods, Synth!DatedAt,
     Synth!CanInsert, Synth!HoldsRow, Synth!SourcesOf, Synth!ToSet, Videos!Synth!CommitWrite,
     Videos!Synth!Write, Videos!Synth!End, Videos!Synth!Idle, Videos!Synth!Nothing, Videos!Synth!Vods,
     Videos!Synth!DatedAt, Videos!Synth!CanInsert, Videos!Synth!HoldsRow, Videos!Synth!SourcesOf,
     Videos!Synth!ToSet

LEMMA SynthCommitDelete == \A t : Synth!CommitDelete(t) => Videos!Synth!CommitDelete(t)
  BY DEF
     Synth!CommitDelete, Synth!End, Synth!Idle, Synth!Nothing, Synth!Vods, Synth!NoRow, Synth!SourcesOf,
     Synth!ToSet, Synth!Made, Synth!Existing, Videos!Synth!CommitDelete, Videos!Synth!End,
     Videos!Synth!Idle, Videos!Synth!Nothing, Videos!Synth!Vods, Videos!Synth!NoRow,
     Videos!Synth!SourcesOf, Videos!Synth!ToSet, Videos!Synth!Made, Videos!Synth!Existing

LEMMA SynthAbort == \A t : Synth!Abort(t) => Videos!Synth!Abort(t)
  BY DEF
     Synth!Abort, Synth!End, Synth!Idle, Synth!Nothing, Synth!Vods, Videos!Synth!Abort, Videos!Synth!End,
     Videos!Synth!Idle, Videos!Synth!Nothing, Videos!Synth!Vods

LEMMA SynthCommitEdit == \A t : Synth!CommitEdit(t) => Videos!Synth!CommitEdit(t)
  BY DEF
     Synth!CommitEdit, Synth!End, Synth!Idle, Synth!Nothing, Synth!Vods, Synth!RealColumns,
     Videos!Synth!CommitEdit, Videos!Synth!End, Videos!Synth!Idle, Videos!Synth!Nothing, Videos!Synth!Vods,
     Videos!Synth!RealColumns

LEMMA SynthCommitRecompose == \A t : Synth!CommitRecompose(t) => Videos!Synth!CommitRecompose(t)
  BY DEF
     Synth!CommitRecompose, Synth!End, Synth!Idle, Synth!Nothing, Synth!Vods, Synth!DatedAt,
     Videos!Synth!CommitRecompose, Videos!Synth!End, Videos!Synth!Idle, Videos!Synth!Nothing,
     Videos!Synth!Vods, Videos!Synth!DatedAt

LEMMA SynthEdit == \A t, v : Synth!Edit(t, v) => Videos!Synth!Edit(t, v)
  BY DEF
     Synth!Edit, Synth!Begin, Synth!Idle, Synth!Nothing, Synth!Vods, Synth!Locked, Synth!HoldsRow,
     Videos!Synth!Edit, Videos!Synth!Begin, Videos!Synth!Idle, Videos!Synth!Nothing, Videos!Synth!Vods,
     Videos!Synth!Locked, Videos!Synth!HoldsRow

LEMMA SynthCreate == \A t, v : Synth!Create(t, v) => Videos!Synth!Create(t, v)
  BY DEF
     Synth!Create, Synth!Begin, Synth!Idle, Synth!Nothing, Synth!Vods, Videos!Synth!Create,
     Videos!Synth!Begin, Videos!Synth!Idle, Videos!Synth!Nothing, Videos!Synth!Vods

LEMMA SynthChange == \A t, v : Synth!Change(t, v) => Videos!Synth!Change(t, v)
  BY DEF
     Synth!Change, Synth!Begin, Synth!Idle, Synth!Nothing, Synth!Vods, Videos!Synth!Change,
     Videos!Synth!Begin, Videos!Synth!Idle, Videos!Synth!Nothing, Videos!Synth!Vods

LEMMA SynthDelete == \A t, v : Synth!Delete(t, v) => Videos!Synth!Delete(t, v)
  BY DEF
     Synth!Delete, Synth!Begin, Synth!Idle, Synth!Nothing, Synth!Vods, Videos!Synth!Delete,
     Videos!Synth!Begin, Videos!Synth!Idle, Videos!Synth!Nothing, Videos!Synth!Vods

LEMMA SynthRecompose == \A t, v : Synth!Recompose(t, v) => Videos!Synth!Recompose(t, v)
  BY DEF
     Synth!Recompose, Synth!Begin, Synth!Idle, Synth!Nothing, Synth!Vods, Synth!Locked, Synth!HoldsRow,
     Synth!Made, Synth!Existing, Videos!Synth!Recompose, Videos!Synth!Begin, Videos!Synth!Idle,
     Videos!Synth!Nothing, Videos!Synth!Vods, Videos!Synth!Locked, Videos!Synth!HoldsRow,
     Videos!Synth!Made, Videos!Synth!Existing

LEMMA SynthRetitle == \A v : Synth!Retitle(v) => Videos!Synth!Retitle(v)
  BY DEF
     Synth!Retitle, Synth!StaleIds, Synth!SourcesOf, Synth!ToSet, Synth!Made, Synth!Existing, Synth!Vods,
     Synth!Writes, Synth!Locked, Synth!HoldsRow, Videos!Synth!Retitle, Videos!Synth!StaleIds,
     Videos!Synth!SourcesOf, Videos!Synth!ToSet, Videos!Synth!Made, Videos!Synth!Existing,
     Videos!Synth!Vods, Videos!Synth!Writes, Videos!Synth!Locked, Videos!Synth!HoldsRow

LEMMA SynthFindStale == Synth!FindStale => Videos!Synth!FindStale
  BY DEF
     Synth!FindStale, Synth!StaleIds, Synth!SourcesOf, Synth!ToSet, Synth!Made, Synth!Existing, Synth!Vods,
     Videos!Synth!FindStale, Videos!Synth!StaleIds, Videos!Synth!SourcesOf, Videos!Synth!ToSet,
     Videos!Synth!Made, Videos!Synth!Existing, Videos!Synth!Vods

LEMMA SynthNext == ASSUME Synth!Next PROVE Videos!Synth!Next
  BY SynthCheck, SynthReadSources, SynthLock, SynthCommitWrite, SynthCommitDelete, SynthAbort, SynthCommitEdit, SynthCommitRecompose,
     SynthEdit, SynthCreate, SynthChange, SynthDelete, SynthRecompose, SynthRetitle, SynthFindStale
  DEF Synth!Next, Videos!Synth!Next

LEMMA SynthProperty == ASSUME Videos!Synth!StaleIsKnown PROVE Synth!StaleIsKnown
  BY SynthFresh DEF
     Synth!StaleIsKnown, Synth!StaleIds, Synth!SourcesOf, Synth!ToSet, Synth!Made, Synth!Existing,
     Synth!Vods, Videos!Synth!StaleIsKnown, Videos!Synth!StaleIds, Videos!Synth!SourcesOf,
     Videos!Synth!ToSet, Videos!Synth!Made, Videos!Synth!Existing, Videos!Synth!Vods

LEMMA SynthAssumed == Videos!Synth!SynthAssumption
  BY SynthGiven, ZenonT(60) DEF
     Synth!SynthAssumption, Synth!SourcesOf, Synth!ToSet, Synth!AnySegments, Synth!Vods,
     Videos!Synth!SynthAssumption, Videos!Synth!SourcesOf, Videos!Synth!ToSet, Videos!Synth!AnySegments,
     Videos!Synth!Vods

SynthKept == part = "synthetic" => Videos!SynthInv

LEMMA SynthBegins == ASSUME Init PROVE SynthKept
  BY SynthAssumed, SynthInit, Videos!SynthInitInv DEF Init, SynthKept

LEMMA SynthGoesOn == ASSUME SynthKept, [Next]_vars PROVE SynthKept'
<1>1. part' = "synthetic" => part = "synthetic" /\ [Videos!Synth!Next]_(Videos!Synth!synthVars)
  BY SynthNext DEF Next, vars, Videos!Synth!synthVars
<1>2. QED BY <1>1, SynthAssumed, Videos!SynthStepInv DEF SynthKept

LEMMA SynthGives == ASSUME Videos!SynthInv PROVE Synth!StaleIsKnown
  BY SynthAssumed, SynthProperty, Videos!InvSynth

--------------------------------------------------------------------------------
\* Whichever part was picked, its invariant holds.
AllKept ==
  /\ AccountKept /\ QuotaKept /\ ViewerKept /\ SessionsKept /\ LoginsKept /\ OverridesKept
  /\ TagsKept /\ FoldersKept /\ EditsKept /\ EventsKept /\ MonitorKept /\ BotKept
  /\ ChatOfKept /\ CacheKept /\ SynthKept

LEMMA PartsKept == Spec => []AllKept
<1>1. Init => AllKept
  BY AccountBegins, QuotaBegins, ViewerBegins, SessionsBegins, LoginsBegins, OverridesBegins, TagsBegins,
     FoldersBegins, EditsBegins, EventsBegins, MonitorBegins, BotBegins, ChatOfBegins, CacheBegins,
     SynthBegins
  DEF AllKept
<1>2. AllKept /\ [Next]_vars => AllKept'
  BY AccountGoesOn, QuotaGoesOn, ViewerGoesOn, SessionsGoesOn, LoginsGoesOn, OverridesGoesOn, TagsGoesOn,
     FoldersGoesOn, EditsGoesOn, EventsGoesOn, MonitorGoesOn, BotGoesOn, ChatOfGoesOn, CacheGoesOn,
     SynthGoesOn
  DEF AllKept
<1>3. QED BY <1>1, <1>2, PTL DEF Spec

\* The stored token is of the account connected last (youtube.py).
THEOREM AccountStaysConnected == Spec => []AccountStays
<1>1. AllKept => AccountStays
  BY AccountGives DEF AllKept, AccountKept, AccountStays
<1>2. QED BY <1>1, PartsKept, PTL

\* The dashboard shows every unit counted today (youtube_quota.py).
THEOREM QuotaIsCounted == Spec => []QuotaCounts
<1>1. AllKept => QuotaCounts
  BY QuotaGives DEF AllKept, QuotaKept, QuotaCounts
<1>2. QED BY <1>1, PartsKept, PTL

\* An unlinked account leaves no token behind (twitch_viewer.py).
THEOREM UnlinkedStaysForgotten == Spec => []UnlinkedIsForgotten
<1>1. AllKept => UnlinkedIsForgotten
  BY ViewerGives DEF AllKept, ViewerKept, UnlinkedIsForgotten
<1>2. QED BY <1>1, PartsKept, PTL

\* A session that was ended is not let in, and a refused login is told how long to wait (admin_auth.py).
THEOREM SignInIsGuarded == Spec => []SignInHolds
<1>1. AllKept => SignInHolds
  BY SessionsGives, LoginsGives DEF AllKept, SessionsKept, LoginsKept, SignInHolds
<1>2. QED BY <1>1, PartsKept, PTL

\* The worker runs with what is saved, and only listed tags have a shape (runtime_settings.py, site_tags.py).
THEOREM SettingsAreInEffect == Spec => []SettingsInEffect
<1>1. AllKept => SettingsInEffect
  BY OverridesGives, TagsGives DEF AllKept, OverridesKept, TagsKept, SettingsInEffect
<1>2. QED BY <1>1, PartsKept, PTL

\* A delete takes no later job's files (storage.py).
THEOREM FoldersAreDeletedSafely == Spec => []DeletesAreSafe
<1>1. AllKept => DeletesAreSafe
  BY FoldersGives DEF AllKept, FoldersKept, DeletesAreSafe
<1>2. QED BY <1>1, PartsKept, PTL

\* Locked chapters stay, and what a VOD shows fits its duration (vod_edits.py, admin.py).
THEOREM HandEditsHold == Spec => []EditsHold
<1>1. AllKept => EditsHold
  BY EditsGives DEF AllKept, EditsKept, EditsHold
<1>2. QED BY <1>1, PartsKept, PTL

\* Whoever polls a job's log is shown all that was kept, in order (events.py).
THEOREM LogIsFollowed == Spec => []PollersMissNothing
<1>1. AllKept => PollersMissNothing
  BY EventsGives DEF AllKept, EventsKept, PollersMissNothing
<1>2. QED BY <1>1, PartsKept, PTL

\* A stream gets one job of each kind, and its chat is asked for (monitor.py).
THEOREM StreamsAreFollowed == Spec => []StreamsHaveTheirJobs
<1>1. AllKept => StreamsHaveTheirJobs
  BY MonitorGives DEF AllKept, MonitorKept, StreamsHaveTheirJobs
<1>2. QED BY <1>1, PartsKept, PTL

\* A crawl that ends has every comment, and so has a read of the bot's log (metadata.py, bot_chat.py).
THEOREM ChatStaysWhole == Spec => []ChatIsWhole
<1>1. AllKept => ChatIsWhole
  BY ChatOfGives, BotGives DEF AllKept, ChatOfKept, BotKept, ChatIsWhole
<1>2. QED BY <1>1, PartsKept, PTL

\* A cached response is what the rows say (invalidation.py).
THEOREM CacheStaysCurrent == Spec => []CacheIsCurrent
<1>1. AllKept => CacheIsCurrent
  BY CacheGives DEF AllKept, CacheKept, CacheIsCurrent
<1>2. QED BY <1>1, PartsKept, PTL

\* A composition that is not what its sources give is known to be stale (synthetic.py).
THEOREM StaleCompositionsAreKnown == Spec => []StaleIsKnown
<1>1. AllKept => StaleIsKnown
  BY SynthGives DEF AllKept, SynthKept, StaleIsKnown
<1>2. QED BY <1>1, PartsKept, PTL

================================================================================
