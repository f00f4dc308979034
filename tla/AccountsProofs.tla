---------------------------- MODULE AccountsProofs ---------------------------
(****************************************************************************)
(* What TLAPS proves of the accounts and what guards them: the YouTube      *)
(* account, its quota, the viewer's Twitch account, and the dashboard's     *)
(* sessions and logins.  Each is an instance of its module.                 *)
(****************************************************************************)
EXTENDS Integers, Sequences, FiniteSets, WellFoundedInduction, TLAPS

CONSTANTS
  Calls, None, MaxGrants, MaxRotations, MaxObjects, accountMaxRefreshes, COST, MaxDays, MaxUsed,
  Askers, Refreshable, Unset, MaxLinks, viewerMaxRefreshes, Sids, SESSION_TTL, CHECK, STATE_TTL,
  StatesLimit, MaxSignIns, sessionsMaxTime, Tries, attempts, window, Second, loginsMaxTime

VARIABLES
  stored, held, objects, accountCalls, records, reported, connected, accountInHand, quotaRow,
  quotaLock, spends, day, used, quotaLate, viewerRow, cached, soon, links, viewerLock, asks, admin,
  linked, viewerInHand, table, cookie, pending, sessionsCalls, ended, sessionsClock, made,
  loggedOut, failures, tries, loginsClock, told

Account == INSTANCE YouTubeAccount WITH
  calls <- accountCalls, inHand <- accountInHand, MaxRefreshes <- accountMaxRefreshes
Quota == INSTANCE YouTubeQuota WITH row <- quotaRow, lock <- quotaLock, late <- quotaLate
Viewer == INSTANCE ViewerAccount WITH
  row <- viewerRow, lock <- viewerLock, inHand <- viewerInHand, MaxRefreshes <- viewerMaxRefreshes
Sessions == INSTANCE SignIn WITH
  calls <- sessionsCalls, clock <- sessionsClock, MaxTime <- sessionsMaxTime
Logins == INSTANCE LoginLimit WITH clock <- loginsClock, MaxTime <- loginsMaxTime

------------------------------------------------------------------------------
(* YouTubeAccount.                                                          *)

Refreshes == (0..MaxGrants) \X (0..MaxRotations)
AccountTokens == [refresh : Refreshes \cup {None}, access : BOOLEAN]
Credentials == [refresh : Refreshes, valid : BOOLEAN]
AccountCallRecords ==
  [doing : {"nothing", "call", "check", "checkTwice", "connect"},
   step : {"idle", "load", "loaded", "refreshing", "using", "settling", "service", "exchanged", "saved"},
   creds : Nat, token : AccountTokens \cup {None}, until : Nat]
Reports == [id : Nat, refresh : Refreshes, read : BOOLEAN]

AccountTypes ==
  /\ stored \in AccountTokens \cup {None} /\ objects \in Seq(Credentials) /\ held \in 0..Len(objects)
  /\ accountCalls \in [Calls -> AccountCallRecords] /\ records \in Seq(Reports) /\ reported \in Nat
  /\ connected \in (0..MaxGrants) \cup {None} /\ accountInHand \in BOOLEAN

\* A call has credentials from when it took them, and a token from when it read it.
CallFits(call, objs) ==
  /\ call.creds <= Len(objs)
  /\ call.creds # 0 <=> call.step \in {"refreshing", "using", "settling"}
  /\ call.step \in {"load", "loaded"} => call.doing \in {"call", "check"}
  /\ call.step = "loaded" => call.token \in AccountTokens /\ call.token.refresh \in Refreshes
  /\ call.step = "exchanged" => call.token \in AccountTokens

\* It goes by the authorization that was saved last.
CallIsCurrent(call, objs, grant) ==
  /\ call.step = "loaded" => call.token.refresh[1] = grant
  /\ call.creds # 0 => objs[call.creds].refresh[1] = grant

CallsFit == \A c \in Calls : CallFits(accountCalls[c], objects)

StoredCurrent  == stored # None => Account!Grant(stored.refresh) = connected
RecordsCurrent == \A i \in 1..Len(records) : records[i].refresh[1] = connected
CallsCurrent   == \A c \in Calls : CallIsCurrent(accountCalls[c], objects, connected)

\* The credentials at hand may be the older account's only until the check of the call that saved the
\* newer one, and no call has taken any since.
HeldCurrent ==
  held # 0 =>
    \/ objects[held].refresh[1] = connected
    \/ (\E d \in Calls : accountCalls[d].step = "saved") /\ \A c \in Calls : accountCalls[c].creds = 0

Current == StoredCurrent /\ RecordsCurrent /\ CallsCurrent /\ HeldCurrent

AccountInv == AccountTypes /\ CallsFit /\ (accountInHand \/ Current)

----------------------------------------------------------------------------
(* Credentials keep their authorization, and a call's record its fields.    *)

GrowsOnly(objs, objs2) ==
  /\ objs2 \in Seq(Credentials) /\ Len(objs) <= Len(objs2)
  /\ \A o \in 1..Len(objs) : objs2[o].refresh[1] = objs[o].refresh[1]

LEMMA StillFits ==
  ASSUME NEW call \in AccountCallRecords, NEW objs \in Seq(Credentials), NEW objs2 \in Seq(Credentials),
         GrowsOnly(objs, objs2), CallFits(call, objs), NEW grant
  PROVE  CallFits(call, objs2) /\ (CallIsCurrent(call, objs, grant) => CallIsCurrent(call, objs2, grant))
<1>1. call.creds \in Nat /\ Len(objs) \in Nat /\ Len(objs2) \in Nat
  BY DEF AccountCallRecords
<1>2. CallFits(call, objs2)
  BY <1>1 DEF GrowsOnly, CallFits
<1>3. call.creds # 0 => objs2[call.creds].refresh[1] = objs[call.creds].refresh[1]
  <2>1. call.creds # 0 => call.creds \in 1..Len(objs)
    BY <1>1 DEF CallFits
  <2>2. QED BY <2>1 DEF GrowsOnly
<1>4. QED BY <1>2, <1>3 DEF CallIsCurrent

LEMMA AccountBeginning ==
  /\ Account!Idle \in AccountCallRecords /\ Account!Idle.creds = 0 /\ Account!Idle.step = "idle"
  /\ \A objs \in Seq(Credentials) : CallFits(Account!Idle, objs)
  /\ \A objs \in Seq(Credentials) : \A grant : CallIsCurrent(Account!Idle, objs, grant)
<1>1. Account!Idle \in AccountCallRecords /\ Account!Idle.creds = 0 /\ Account!Idle.step = "idle"
  BY DEF Account!Idle, AccountCallRecords
<1>2. \A objs \in Seq(Credentials) : CallFits(Account!Idle, objs)
  BY <1>1 DEF CallFits
<1>3. QED BY <1>1, <1>2 DEF CallIsCurrent

\* What a step of one call asks: that its record fits, and, unless an older account's was in use, that what
\* the step leaves is current.
LEMMA AccountOneCall ==
  ASSUME AccountInv, AccountTypes', NEW c \in Calls, NEW r \in AccountCallRecords, accountCalls' = [accountCalls EXCEPT ![c] = r],
         GrowsOnly(objects, objects'), CallFits(r, objects'), accountInHand => accountInHand',
         ~accountInHand' => connected' = connected /\ CallIsCurrent(r, objects', connected) /\ StoredCurrent' /\ RecordsCurrent'
                     /\ HeldCurrent'
  PROVE  AccountInv'
<1>1. accountCalls \in [Calls -> AccountCallRecords] /\ objects \in Seq(Credentials) /\ objects' \in Seq(Credentials)
  BY DEF AccountInv, AccountTypes
<1>2. accountCalls'[c] = r /\ \A d \in Calls : d # c => accountCalls'[d] = accountCalls[d]
  BY <1>1
<1>3. ASSUME NEW d \in Calls, d # c
      PROVE  CallFits(accountCalls[d], objects') /\ (CallIsCurrent(accountCalls[d], objects, connected) => CallIsCurrent(accountCalls[d], objects', connected))
  <2>1. accountCalls[d] \in AccountCallRecords /\ CallFits(accountCalls[d], objects)
    BY <1>1 DEF AccountInv, CallsFit
  <2>2. QED BY <1>1, <2>1, StillFits
<1>4. \A d \in Calls : CallFits(accountCalls'[d], objects')
  <2>1. SUFFICES ASSUME NEW d \in Calls PROVE CallFits(accountCalls'[d], objects')
    OBVIOUS
  <2>2. CASE d = c
    <3>1. accountCalls'[d] = r
      BY <1>2, <2>2
    <3>2. QED BY <3>1
  <2>3. CASE d # c
    <3>1. accountCalls'[d] = accountCalls[d]
      BY <1>2, <2>3
    <3>2. QED BY <1>3, <2>3, <3>1
  <2>4. QED BY <2>2, <2>3
<1>5. ASSUME ~accountInHand' PROVE CallsCurrent'
  <2>1. SUFFICES ASSUME NEW d \in Calls PROVE CallIsCurrent(accountCalls'[d], objects', connected)
    BY <1>5 DEF CallsCurrent
  <2>2. CASE d = c
    <3>1. accountCalls'[d] = r
      BY <1>2, <2>2
    <3>2. QED BY <1>5, <3>1
  <2>3. CASE d # c
    <3>1. accountCalls'[d] = accountCalls[d]
      BY <1>2, <2>3
    <3>2. CallIsCurrent(accountCalls[d], objects, connected)
      BY <1>5 DEF AccountInv, Current, CallsCurrent
    <3>3. CallIsCurrent(accountCalls[d], objects', connected)
      BY <1>3, <2>3, <3>2
    <3>4. QED BY <3>1, <3>3
  <2>4. QED BY <2>2, <2>3
<1>6. CallsFit'
  BY <1>4 DEF CallsFit
<1>7. accountInHand' \/ Current'
  BY <1>5 DEF Current
<1>8. QED BY <1>6, <1>7 DEF AccountInv

LEMMA Unmoved == ASSUME objects \in Seq(Credentials), objects' = objects PROVE GrowsOnly(objects, objects')
BY DEF GrowsOnly

\* A call that takes credentials, whatever its record was.
LEMMA Taken ==
  ASSUME accountCalls \in [Calls -> AccountCallRecords], NEW c \in Calls, NEW creds \in Nat, NEW doing \in {"call", "check", "checkTwice"},
         Account!Take(c, creds, doing), creds # 0, creds <= Len(objects')
  PROVE  \E r \in AccountCallRecords :
           /\ accountCalls' = [accountCalls EXCEPT ![c] = r] /\ CallFits(r, objects') /\ r.creds = creds
           /\ r.step \in {"refreshing", "using"}
<1>1. accountCalls[c] \in AccountCallRecords
  OBVIOUS
<1>2. PICK step \in {"refreshing", "using"} :
        step = IF doing = "check" \/ ~objects'[creds].valid THEN "refreshing" ELSE "using"
  OBVIOUS
<1>3. PICK r : r = [accountCalls[c] EXCEPT !.doing = doing, !.creds = creds, !.step = step]
  OBVIOUS
<1>4. accountCalls' = [accountCalls EXCEPT ![c] = r]
  BY <1>2, <1>3 DEF Account!Take
<1>5. r = [doing |-> doing, step |-> step, creds |-> creds, token |-> accountCalls[c].token, until |-> accountCalls[c].until]
  BY <1>1, <1>3, ZenonT(30) DEF AccountCallRecords
<1>6. accountCalls[c].token \in AccountTokens \cup {None} /\ accountCalls[c].until \in Nat
  BY <1>1 DEF AccountCallRecords
<1>7. r \in AccountCallRecords /\ r.step = step /\ r.creds = creds
  BY <1>5, <1>6 DEF AccountCallRecords
<1>8. CallFits(r, objects')
  BY <1>7 DEF CallFits
<1>9. QED BY <1>4, <1>7, <1>8

\* A call that goes to a step with no credentials.
LEMMA Gone ==
  ASSUME accountCalls \in [Calls -> AccountCallRecords], NEW c \in Calls, NEW doing \in {"call", "check"},
         accountCalls[c].creds = 0, accountCalls' = [accountCalls EXCEPT ![c].doing = doing, ![c].step = "load"]
  PROVE  \E r \in AccountCallRecords :
           accountCalls' = [accountCalls EXCEPT ![c] = r] /\ r.creds = 0 /\ r.step = "load" /\ r.doing \in {"call", "check"}
<1>1. accountCalls[c] \in AccountCallRecords
  OBVIOUS
<1>2. PICK r : r = [[accountCalls[c] EXCEPT !.doing = doing] EXCEPT !.step = "load"]
  OBVIOUS
<1>3. accountCalls' = [accountCalls EXCEPT ![c] = r]
  BY <1>2, ZenonT(30)
<1>4. r = [doing |-> doing, step |-> "load", creds |-> 0, token |-> accountCalls[c].token, until |-> accountCalls[c].until]
  BY <1>1, <1>2, ZenonT(30) DEF AccountCallRecords
<1>5. accountCalls[c].token \in AccountTokens \cup {None} /\ accountCalls[c].until \in Nat
  BY <1>1 DEF AccountCallRecords
<1>6. r \in AccountCallRecords /\ r.creds = 0 /\ r.step = "load" /\ r.doing \in {"call", "check"}
  BY <1>4, <1>5 DEF AccountCallRecords
<1>7. QED BY <1>3, <1>6

LEMMA GrantOfRefresh ==
  ASSUME Account!AccountAssumption, NEW refresh \in Refreshes
  PROVE  Account!Grant(refresh) = refresh[1] /\ refresh[1] \in 0..MaxGrants /\ refresh[1] # None /\ refresh # None
BY DEF Account!AccountAssumption, Refreshes, Account!Grant

\* The credentials at hand stay as current as they are while no call that saved an account goes on and no
\* call takes any.
LEMMA HeldStays ==
  ASSUME AccountTypes, HeldCurrent, held' = held, connected' = connected, GrowsOnly(objects, objects'), NEW c \in Calls,
         NEW r \in AccountCallRecords, accountCalls' = [accountCalls EXCEPT ![c] = r], accountCalls[c].step = "saved" => r.step = "saved",
         r.creds = 0 \/ r.creds = accountCalls[c].creds
  PROVE  HeldCurrent'
<1>1. accountCalls \in [Calls -> AccountCallRecords] /\ held \in 0..Len(objects) /\ Len(objects) \in Nat
  BY DEF AccountTypes
<1>2. accountCalls'[c] = r /\ \A d \in Calls : d # c => accountCalls'[d] = accountCalls[d]
  BY <1>1
<1>3. held # 0 => objects'[held].refresh[1] = objects[held].refresh[1]
  BY <1>1 DEF GrowsOnly
<1>4. (\E d \in Calls : accountCalls[d].step = "saved") => \E d \in Calls : accountCalls'[d].step = "saved"
  BY <1>2
<1>5. (\A d \in Calls : accountCalls[d].creds = 0) => \A d \in Calls : accountCalls'[d].creds = 0
  BY <1>2
<1>6. QED BY <1>3, <1>4, <1>5 DEF HeldCurrent

LEMMA BeginInv == ASSUME Account!AccountAssumption, AccountInv, NEW c \in Calls, Account!Begin(c) PROVE AccountInv'
<1>1. accountCalls[c].step \in {"idle", "service"} /\ UNCHANGED <<stored, held, objects, records, reported, connected>>
  BY DEF Account!Begin
<1>2. /\ accountCalls \in [Calls -> AccountCallRecords] /\ objects \in Seq(Credentials) /\ held \in 0..Len(objects) /\ Len(objects) \in Nat
      /\ CallFits(accountCalls[c], objects)
  BY DEF AccountInv, AccountTypes, CallsFit
<1>3. accountCalls[c].creds = 0
  BY <1>1, <1>2 DEF CallFits
<1>4. GrowsOnly(objects, objects')
  BY <1>1, <1>2, Unmoved
<1>5. CASE held = 0
  <2>1. accountCalls' = [accountCalls EXCEPT ![c].doing = "call", ![c].step = "load"] /\ accountInHand' = accountInHand
    BY <1>5 DEF Account!Begin
  <2>2. PICK r \in AccountCallRecords : accountCalls' = [accountCalls EXCEPT ![c] = r] /\ r.creds = 0 /\ r.step = "load" /\ r.doing \in {"call", "check"}
    BY <1>2, <1>3, <2>1, Gone
  <2>3. CallFits(r, objects') /\ CallIsCurrent(r, objects', connected)
    BY <1>1, <1>2, <2>2 DEF CallFits, CallIsCurrent
  <2>4. AccountTypes'
    BY <1>1, <2>1, <2>2 DEF AccountInv, AccountTypes
  <2>5. ASSUME ~accountInHand' PROVE StoredCurrent' /\ RecordsCurrent' /\ HeldCurrent'
    BY <1>1, <1>5, <2>1, <2>5 DEF AccountInv, Current, StoredCurrent, RecordsCurrent, HeldCurrent
  <2>6. QED BY <1>1, <1>4, <2>1, <2>2, <2>3, <2>4, <2>5, AccountOneCall
<1>6. CASE held # 0
  <2>1. /\ Account!Take(c, held, "call")
        /\ accountInHand' = \/ accountInHand
                            \/ Account!Grant(objects[held].refresh) # connected /\ \E d \in Calls : accountCalls[d].step = "saved"
    BY <1>6 DEF Account!Begin
  <2>2. held \in Nat /\ held <= Len(objects')
    BY <1>1, <1>2
  <2>3. PICK r \in AccountCallRecords :
          /\ accountCalls' = [accountCalls EXCEPT ![c] = r] /\ CallFits(r, objects') /\ r.creds = held
          /\ r.step \in {"refreshing", "using"}
    BY <1>2, <1>6, <2>1, <2>2, Taken
  <2>4. objects[held].refresh \in Refreshes
    <3>1. held \in 1..Len(objects)
      BY <1>2, <1>6
    <3>2. objects[held] \in Credentials
      BY <1>2, <3>1
    <3>3. QED BY <3>2 DEF Credentials
  <2>5. ASSUME ~accountInHand' PROVE objects[held].refresh[1] = connected
    <3>1. Account!Grant(objects[held].refresh) = objects[held].refresh[1]
      BY <2>4, GrantOfRefresh
    <3>2. HeldCurrent /\ ~(Account!Grant(objects[held].refresh) # connected /\ \E d \in Calls : accountCalls[d].step = "saved")
      BY <2>1, <2>5 DEF AccountInv, Current
    <3>3. QED BY <1>6, <3>1, <3>2 DEF HeldCurrent
  <2>6. accountInHand' \in BOOLEAN /\ (accountInHand => accountInHand')
    BY <2>1
  <2>7. AccountTypes'
    BY <1>1, <2>3, <2>6 DEF AccountInv, AccountTypes
  <2>8. ASSUME ~accountInHand'
        PROVE  CallIsCurrent(r, objects', connected) /\ StoredCurrent' /\ RecordsCurrent' /\ HeldCurrent'
    <3>1. ~accountInHand
      BY <2>6, <2>8
    <3>2. CallIsCurrent(r, objects', connected)
      BY <1>1, <2>3, <2>5, <2>8 DEF CallIsCurrent
    <3>3. HeldCurrent'
      BY <1>1, <2>5, <2>8 DEF HeldCurrent
    <3>4. QED BY <1>1, <3>1, <3>2, <3>3 DEF AccountInv, Current, StoredCurrent, RecordsCurrent
  <2>9. QED BY <1>1, <1>4, <2>3, <2>6, <2>7, <2>8, AccountOneCall
<1>7. QED BY <1>5, <1>6

LEMMA BeginCheckInv == ASSUME AccountInv, NEW c \in Calls, Account!BeginCheck(c) PROVE AccountInv'
<1>1. /\ accountCalls[c].step \in {"idle", "saved"} /\ held' = 0 /\ UNCHANGED <<stored, objects, records, reported, connected, accountInHand>>
      /\ accountCalls' = [accountCalls EXCEPT ![c].doing = "check", ![c].step = "load"]
  BY DEF Account!BeginCheck, Account!HeldDropped
<1>2. accountCalls \in [Calls -> AccountCallRecords] /\ objects \in Seq(Credentials) /\ Len(objects) \in Nat /\ CallFits(accountCalls[c], objects)
  BY DEF AccountInv, AccountTypes, CallsFit
<1>3. accountCalls[c].creds = 0
  BY <1>1, <1>2 DEF CallFits
<1>4. PICK r \in AccountCallRecords : accountCalls' = [accountCalls EXCEPT ![c] = r] /\ r.creds = 0 /\ r.step = "load" /\ r.doing \in {"call", "check"}
  BY <1>1, <1>2, <1>3, Gone
<1>5. CallFits(r, objects') /\ CallIsCurrent(r, objects', connected)
  BY <1>1, <1>2, <1>4 DEF CallFits, CallIsCurrent
<1>6. AccountTypes'
  <2>1. held' \in 0..Len(objects')
    BY <1>1, <1>2
  <2>2. accountCalls' \in [Calls -> AccountCallRecords]
    BY <1>2, <1>4
  <2>3. QED BY <1>1, <2>1, <2>2 DEF AccountInv, AccountTypes
<1>7. ASSUME ~accountInHand' PROVE StoredCurrent' /\ RecordsCurrent' /\ HeldCurrent'
  BY <1>1, <1>7 DEF AccountInv, Current, StoredCurrent, RecordsCurrent, HeldCurrent
<1>8. GrowsOnly(objects, objects')
  BY <1>1, <1>2, Unmoved
<1>9. QED BY <1>1, <1>4, <1>5, <1>6, <1>7, <1>8, AccountOneCall

\* A call that ends, or goes on with no credentials but those it has, and nothing else that changes.
LEMMA Moved ==
  ASSUME AccountInv, NEW c \in Calls, NEW r \in AccountCallRecords, accountCalls' = [accountCalls EXCEPT ![c] = r],
         UNCHANGED <<stored, held, objects, records, reported, connected, accountInHand>>,
         CallFits(r, objects), ~accountInHand => CallIsCurrent(r, objects, connected),
         accountCalls[c].step = "saved" => r.step = "saved", r.creds = 0 \/ r.creds = accountCalls[c].creds
  PROVE  AccountInv'
<1>1. objects \in Seq(Credentials)
  BY DEF AccountInv, AccountTypes
<1>2. GrowsOnly(objects, objects')
  BY <1>1, Unmoved
<1>3. AccountTypes'
  BY DEF AccountInv, AccountTypes
<1>4. ASSUME ~accountInHand' PROVE StoredCurrent' /\ RecordsCurrent' /\ HeldCurrent'
  <2>1. HeldCurrent /\ AccountTypes
    BY <1>4 DEF AccountInv, Current
  <2>2. HeldCurrent'
    BY <1>2, <2>1, HeldStays
  <2>3. QED BY <1>4, <2>2 DEF AccountInv, Current, StoredCurrent, RecordsCurrent
<1>5. QED BY <1>2, <1>3, <1>4, AccountOneCall

LEMMA LoadInv == ASSUME Account!AccountAssumption, AccountInv, NEW c \in Calls, Account!Load(c) PROVE AccountInv'
<1>1. accountCalls[c].step = "load" /\ UNCHANGED <<stored, held, objects, records, reported, connected, accountInHand>>
  BY DEF Account!Load
<1>2. /\ accountCalls \in [Calls -> AccountCallRecords] /\ accountCalls[c] \in AccountCallRecords /\ objects \in Seq(Credentials)
      /\ CallFits(accountCalls[c], objects) /\ stored \in AccountTokens \cup {None} /\ Len(objects) \in Nat
  BY DEF AccountInv, AccountTypes, CallsFit
<1>3. accountCalls[c].creds = 0
  BY <1>1, <1>2 DEF CallFits
<1>4. CASE stored = None \/ stored.refresh = None
  <2>1. accountCalls' = [accountCalls EXCEPT ![c] = Account!Idle]
    BY <1>4 DEF Account!Load, Account!End
  <2>2. QED BY <1>1, <1>2, <2>1, AccountBeginning, Moved
<1>5. CASE ~(stored = None \/ stored.refresh = None)
  <2>1. accountCalls' = [accountCalls EXCEPT ![c].step = "loaded", ![c].token = stored]
    BY <1>5 DEF Account!Load
  <2>2. PICK r : r = [[accountCalls[c] EXCEPT !.step = "loaded"] EXCEPT !.token = stored]
    OBVIOUS
  <2>3. accountCalls' = [accountCalls EXCEPT ![c] = r]
    BY <1>2, <2>1, <2>2, ZenonT(30)
  <2>4. r = [doing |-> accountCalls[c].doing, step |-> "loaded", creds |-> 0, token |-> stored, until |-> accountCalls[c].until]
    BY <1>2, <1>3, <2>2, ZenonT(30) DEF AccountCallRecords
  <2>5. accountCalls[c].doing \in {"nothing", "call", "check", "checkTwice", "connect"} /\ accountCalls[c].until \in Nat
    BY <1>2 DEF AccountCallRecords
  <2>6. r \in AccountCallRecords /\ r.creds = 0 /\ r.step = "loaded" /\ r.token = stored /\ r.doing = accountCalls[c].doing
    BY <1>2, <2>4, <2>5 DEF AccountCallRecords
  <2>7. stored \in AccountTokens /\ stored.refresh \in Refreshes
    BY <1>2, <1>5 DEF AccountTokens
  <2>8. CallFits(r, objects)
    BY <1>1, <1>2, <2>6, <2>7 DEF CallFits
  <2>9. ~accountInHand => CallIsCurrent(r, objects, connected)
    <3>1. Account!Grant(stored.refresh) = stored.refresh[1]
      BY <2>7, GrantOfRefresh
    <3>2. QED BY <1>5, <2>6, <3>1 DEF AccountInv, Current, StoredCurrent, CallIsCurrent
  <2>10. QED BY <1>1, <2>3, <2>6, <2>8, <2>9, Moved
<1>6. QED BY <1>4, <1>5

LEMMA MakeCredsInv == ASSUME Account!AccountAssumption, AccountInv, NEW c \in Calls, Account!MakeCreds(c) PROVE AccountInv'
<1> DEFINE token == accountCalls[c].token
           doing == IF accountCalls[c].doing = "check" /\ ~token.access THEN "checkTwice" ELSE accountCalls[c].doing
<1>1. /\ accountCalls[c].step = "loaded" /\ objects' = Append(objects, [refresh |-> token.refresh, valid |-> token.access])
      /\ held' = Len(objects) + 1 /\ Account!Take(c, held', doing)
      /\ UNCHANGED <<stored, records, reported, connected, accountInHand>>
  BY DEF Account!MakeCreds
<1>2. /\ accountCalls \in [Calls -> AccountCallRecords] /\ accountCalls[c] \in AccountCallRecords /\ objects \in Seq(Credentials)
      /\ CallFits(accountCalls[c], objects) /\ Len(objects) \in Nat
  BY DEF AccountInv, AccountTypes, CallsFit
<1>3. token \in AccountTokens /\ token.refresh \in Refreshes
  BY <1>1, <1>2 DEF CallFits
<1>4. [refresh |-> token.refresh, valid |-> token.access] \in Credentials
  BY <1>3 DEF AccountTokens, Credentials
<1>5. /\ objects' \in Seq(Credentials) /\ Len(objects') = Len(objects) + 1
      /\ \A o \in 1..Len(objects) : objects'[o] = objects[o]
      /\ objects'[Len(objects) + 1].refresh = token.refresh
  BY <1>1, <1>2, <1>4
<1>6. GrowsOnly(objects, objects')
  BY <1>2, <1>5 DEF GrowsOnly
<1>7. PICK new \in Nat : new = Len(objects) + 1
  BY <1>2
<1>8. \A d \in {"call", "check", "checkTwice"} : d = doing => Account!Take(c, new, d)
  BY <1>1, <1>7
<1>9. doing \in {"call", "check", "checkTwice"}
  BY <1>1, <1>2 DEF CallFits
<1>10. PICK r \in AccountCallRecords :
         /\ accountCalls' = [accountCalls EXCEPT ![c] = r] /\ CallFits(r, objects') /\ r.creds = new
         /\ r.step \in {"refreshing", "using"}
  BY <1>2, <1>5, <1>7, <1>8, <1>9, Taken
<1>11. AccountTypes'
  BY <1>1, <1>2, <1>5, <1>10 DEF AccountInv, AccountTypes
<1>12. ASSUME ~accountInHand'
       PROVE  CallIsCurrent(r, objects', connected) /\ StoredCurrent' /\ RecordsCurrent' /\ HeldCurrent'
  <2>1. token.refresh[1] = connected
    BY <1>1, <1>12 DEF AccountInv, Current, CallsCurrent, CallIsCurrent
  <2>2. objects'[new].refresh[1] = connected
    BY <1>5, <1>7, <2>1
  <2>3. CallIsCurrent(r, objects', connected)
    BY <1>10, <2>2 DEF CallIsCurrent
  <2>4. HeldCurrent'
    BY <1>1, <1>7, <2>2 DEF HeldCurrent
  <2>5. QED BY <1>1, <1>12, <2>3, <2>4 DEF AccountInv, Current, StoredCurrent, RecordsCurrent
<1>13. QED BY <1>1, <1>6, <1>10, <1>11, <1>12, AccountOneCall

----------------------------------------------------------------------------
(* Refreshes.                                                               *)

\* A refresh changes the credentials, not their authorization, and is to be recorded.
LEMMA RefreshedOnce ==
  ASSUME Account!AccountAssumption, AccountTypes, NEW o \in 1..Len(objects), Account!Refresh(o)
  PROVE  /\ GrowsOnly(objects, objects') /\ Len(objects') = Len(objects)
         /\ records' \in Seq(Reports) /\ reported' \in Nat /\ reported' = reported + 1
         /\ objects[o].refresh[1] = connected /\ RecordsCurrent /\ connected' = connected => RecordsCurrent'
<1>1. objects \in Seq(Credentials) /\ objects[o] \in Credentials /\ records \in Seq(Reports) /\ reported \in Nat
  BY DEF AccountTypes
<1>2. PICK old \in Refreshes : old = objects[o].refresh
  BY <1>1 DEF Credentials
<1>3. old[1] \in 0..MaxGrants /\ old[2] \in 0..MaxRotations /\ MaxRotations \in Nat /\ old = <<old[1], old[2]>>
  BY DEF Refreshes, Account!AccountAssumption
<1>4. PICK new : /\ new \in {old, <<old[1], old[2] + 1>>} /\ (new # old => old[2] < MaxRotations)
                 /\ objects' = [objects EXCEPT ![o] = [refresh |-> new, valid |-> TRUE]]
                 /\ records' = Append(records, [id |-> reported + 1, refresh |-> new, read |-> FALSE])
                 /\ reported' = reported + 1
  BY <1>2 DEF Account!Refresh
<1>5. new \in Refreshes /\ new[1] = old[1]
  <2>1. CASE new = old
    BY <2>1
  <2>2. CASE new # old
    <3>1. old[2] + 1 \in 0..MaxRotations /\ new = <<old[1], old[2] + 1>>
      BY <1>3, <1>4, <2>2
    <3>2. QED BY <1>3, <3>1 DEF Refreshes
  <2>3. QED BY <2>1, <2>2
<1>6. PICK creds \in Credentials : creds = [refresh |-> new, valid |-> TRUE]
  BY <1>5 DEF Credentials
<1>7. PICK report \in Reports : report = [id |-> reported + 1, refresh |-> new, read |-> FALSE]
  <2>1. reported + 1 \in Nat
    BY <1>1
  <2>2. QED BY <1>5, <2>1 DEF Reports
<1>8. /\ objects' \in Seq(Credentials) /\ Len(objects') = Len(objects)
      /\ \A i \in 1..Len(objects) : objects'[i] = IF i = o THEN creds ELSE objects[i]
  BY <1>1, <1>4, <1>6
<1>9. creds.refresh[1] = objects[o].refresh[1]
  BY <1>2, <1>5, <1>6
<1>10. GrowsOnly(objects, objects')
  BY <1>1, <1>8, <1>9 DEF GrowsOnly
<1>11. /\ records' \in Seq(Reports) /\ Len(records') = Len(records) + 1 /\ Len(records) \in Nat
       /\ records'[Len(records) + 1] = report /\ \A i \in 1..Len(records) : records'[i] = records[i]
  BY <1>1, <1>4, <1>7
<1>12. ASSUME objects[o].refresh[1] = connected, RecordsCurrent, connected' = connected PROVE RecordsCurrent'
  <2>1. report.refresh[1] = connected
    BY <1>2, <1>5, <1>7, <1>12
  <2>2. SUFFICES ASSUME NEW i \in 1..(Len(records) + 1) PROVE records'[i].refresh[1] = connected
    BY <1>11, <1>12 DEF RecordsCurrent
  <2>3. CASE i = Len(records) + 1
    BY <1>11, <2>1, <2>3
  <2>4. CASE i # Len(records) + 1
    <3>1. i \in 1..Len(records)
      BY <1>11, <2>4
    <3>2. QED BY <1>11, <1>12, <3>1 DEF RecordsCurrent
  <2>5. QED BY <2>3, <2>4
<1>13. QED BY <1>1, <1>4, <1>8, <1>10, <1>11, <1>12

LEMMA RefreshedInv == ASSUME Account!AccountAssumption, AccountInv, NEW c \in Calls, Account!Refreshed(c) PROVE AccountInv'
<1>1. accountCalls[c].step = "refreshing" /\ Account!Refresh(accountCalls[c].creds) /\ UNCHANGED <<stored, held, connected, accountInHand>>
  BY DEF Account!Refreshed
<1>2. /\ accountCalls \in [Calls -> AccountCallRecords] /\ accountCalls[c] \in AccountCallRecords /\ objects \in Seq(Credentials)
      /\ CallFits(accountCalls[c], objects) /\ Len(objects) \in Nat /\ held \in 0..Len(objects) /\ AccountTypes
  BY DEF AccountInv, AccountTypes, CallsFit
<1>3. PICK o \in 1..Len(objects) : o = accountCalls[c].creds
  BY <1>1, <1>2 DEF CallFits, AccountCallRecords
<1>4. /\ GrowsOnly(objects, objects') /\ Len(objects') = Len(objects)
      /\ records' \in Seq(Reports) /\ reported' \in Nat /\ reported' = reported + 1
      /\ objects[o].refresh[1] = connected /\ RecordsCurrent /\ connected' = connected => RecordsCurrent'
  BY <1>1, <1>2, <1>3, RefreshedOnce
<1>5. objects' \in Seq(Credentials)
  BY <1>4 DEF GrowsOnly
<1>6. ASSUME ~accountInHand
      PROVE  /\ StoredCurrent' /\ RecordsCurrent' /\ objects'[o].refresh[1] = connected
             /\ HeldCurrent' /\ (held # 0 => objects'[held].refresh[1] = connected)
  <2>1. objects[o].refresh[1] = connected /\ o # 0
    BY <1>3, <1>6 DEF AccountInv, Current, CallsCurrent, CallIsCurrent
  <2>2. held # 0 => objects[held].refresh[1] = connected
    BY <1>3, <1>6, <2>1 DEF AccountInv, Current, HeldCurrent
  <2>3. held # 0 => objects'[held].refresh[1] = objects[held].refresh[1]
    BY <1>2, <1>4 DEF GrowsOnly
  <2>4. objects'[o].refresh[1] = objects[o].refresh[1]
    BY <1>4 DEF GrowsOnly
  <2>5. QED BY <1>1, <1>4, <1>6, <2>1, <2>2, <2>3, <2>4
            DEF AccountInv, Current, StoredCurrent, HeldCurrent
<1>7. accountCalls' \in [Calls -> AccountCallRecords] => AccountTypes'
  BY <1>1, <1>2, <1>4, <1>5 DEF AccountTypes
<1>8. CASE accountCalls[c].doing = "check"
  <2>1. accountCalls' = [accountCalls EXCEPT ![c].step = "settling", ![c].until = reported + 1]
    BY <1>8 DEF Account!Refreshed
  <2>2. PICK r : r = [[accountCalls[c] EXCEPT !.step = "settling"] EXCEPT !.until = reported + 1]
    OBVIOUS
  <2>3. accountCalls' = [accountCalls EXCEPT ![c] = r]
    BY <1>2, <2>1, <2>2, ZenonT(30)
  <2>4. r = [doing |-> accountCalls[c].doing, step |-> "settling", creds |-> o, token |-> accountCalls[c].token, until |-> reported + 1]
    BY <1>2, <1>3, <2>2, ZenonT(30) DEF AccountCallRecords
  <2>5. accountCalls[c].doing \in {"nothing", "call", "check", "checkTwice", "connect"} /\ accountCalls[c].token \in AccountTokens \cup {None}
        /\ o \in Nat /\ reported + 1 \in Nat
    BY <1>2, <1>4 DEF AccountCallRecords
  <2>6. r \in AccountCallRecords /\ r.creds = o /\ r.step = "settling"
    BY <2>4, <2>5 DEF AccountCallRecords
  <2>7. CallFits(r, objects')
    BY <1>4, <2>6 DEF CallFits
  <2>8. ~accountInHand => CallIsCurrent(r, objects', connected)
    BY <1>6, <2>6 DEF CallIsCurrent
  <2>9. AccountTypes'
    BY <1>2, <1>7, <2>3, <2>6
  <2>10. QED BY <1>1, <1>4, <1>6, <2>3, <2>6, <2>7, <2>8, <2>9, AccountOneCall
<1>9. CASE accountCalls[c].doing # "check" /\ held = 0
  <2>1. accountCalls' = [accountCalls EXCEPT ![c] = Account!Idle]
    BY <1>9 DEF Account!Refreshed, Account!End
  <2>2. AccountTypes'
    BY <1>2, <1>7, <2>1, AccountBeginning
  <2>3. CallFits(Account!Idle, objects') /\ CallIsCurrent(Account!Idle, objects', connected) /\ Account!Idle \in AccountCallRecords
    BY <1>5, AccountBeginning
  <2>4. QED BY <1>1, <1>4, <1>6, <2>1, <2>2, <2>3, AccountOneCall
<1>10. CASE accountCalls[c].doing # "check" /\ held # 0
  <2>1. \A d \in {"call", "check"} :
          d = (IF accountCalls[c].doing = "checkTwice" THEN "check" ELSE "call") => Account!Take(c, held, d)
    BY <1>10 DEF Account!Refreshed
  <2>2. PICK d \in {"call", "check"} : Account!Take(c, held, d)
    BY <2>1
  <2>3. held \in Nat /\ held <= Len(objects')
    BY <1>2, <1>4
  <2>4. PICK r \in AccountCallRecords :
          /\ accountCalls' = [accountCalls EXCEPT ![c] = r] /\ CallFits(r, objects') /\ r.creds = held
          /\ r.step \in {"refreshing", "using"}
    BY <1>2, <1>10, <2>2, <2>3, Taken
  <2>5. ~accountInHand => CallIsCurrent(r, objects', connected)
    BY <1>6, <1>10, <2>4 DEF CallIsCurrent
  <2>6. AccountTypes'
    BY <1>2, <1>7, <2>4
  <2>7. QED BY <1>1, <1>4, <1>6, <2>4, <2>5, <2>6, AccountOneCall
<1>11. QED BY <1>8, <1>9, <1>10

\* A step of no call.
LEMMA AccountNoCall ==
  ASSUME AccountInv, UNCHANGED <<accountCalls, held, connected, accountInHand>>, GrowsOnly(objects, objects'),
         Len(objects') = Len(objects), stored' \in AccountTokens \cup {None}, records' \in Seq(Reports), reported' \in Nat,
         ~accountInHand => StoredCurrent' /\ RecordsCurrent'
  PROVE  AccountInv'
<1>1. objects \in Seq(Credentials) /\ objects' \in Seq(Credentials) /\ held \in 0..Len(objects) /\ Len(objects) \in Nat
  BY DEF AccountInv, AccountTypes, GrowsOnly
<1>2. AccountTypes'
  BY <1>1 DEF AccountInv, AccountTypes
<1>3. ASSUME NEW c \in Calls
      PROVE  CallFits(accountCalls[c], objects') /\ (CallIsCurrent(accountCalls[c], objects, connected) => CallIsCurrent(accountCalls[c], objects', connected))
  <2>1. accountCalls[c] \in AccountCallRecords /\ CallFits(accountCalls[c], objects)
    BY DEF AccountInv, AccountTypes, CallsFit
  <2>2. QED BY <1>1, <2>1, StillFits
<1>4. CallsFit'
  BY <1>3 DEF CallsFit
<1>5. ASSUME ~accountInHand PROVE CallsCurrent' /\ HeldCurrent'
  <2>1. CallsCurrent'
    BY <1>3, <1>5 DEF AccountInv, Current, CallsCurrent
  <2>2. held # 0 => objects'[held].refresh[1] = objects[held].refresh[1]
    BY <1>1 DEF GrowsOnly
  <2>3. QED BY <1>5, <2>1, <2>2 DEF AccountInv, Current, HeldCurrent
<1>6. QED BY <1>2, <1>4, <1>5 DEF AccountInv, Current

LEMMA RefreshInUseInv == ASSUME Account!AccountAssumption, AccountInv, NEW c \in Calls, Account!RefreshInUse(c) PROVE AccountInv'
<1>1. accountCalls[c].step = "using" /\ Account!Refresh(accountCalls[c].creds) /\ UNCHANGED <<stored, held, accountCalls, connected, accountInHand>>
  BY DEF Account!RefreshInUse
<1>2. accountCalls[c] \in AccountCallRecords /\ CallFits(accountCalls[c], objects) /\ AccountTypes /\ stored \in AccountTokens \cup {None}
  BY DEF AccountInv, AccountTypes, CallsFit
<1>3. PICK o \in 1..Len(objects) : o = accountCalls[c].creds
  BY <1>1, <1>2 DEF CallFits, AccountCallRecords, AccountTypes
<1>4. /\ GrowsOnly(objects, objects') /\ Len(objects') = Len(objects)
      /\ records' \in Seq(Reports) /\ reported' \in Nat /\ reported' = reported + 1
      /\ objects[o].refresh[1] = connected /\ RecordsCurrent /\ connected' = connected => RecordsCurrent'
  BY <1>1, <1>2, <1>3, RefreshedOnce
<1>5. ASSUME ~accountInHand PROVE StoredCurrent' /\ RecordsCurrent'
  <2>1. objects[o].refresh[1] = connected
    BY <1>3, <1>5 DEF AccountInv, Current, CallsCurrent, CallIsCurrent
  <2>2. QED BY <1>1, <1>4, <1>5, <2>1 DEF AccountInv, Current, StoredCurrent
<1>6. QED BY <1>1, <1>2, <1>4, <1>5, AccountNoCall

LEMMA ExpireInv == ASSUME AccountInv, NEW o \in DOMAIN objects, Account!Expire(o) PROVE AccountInv'
<1>1. objects' = [objects EXCEPT ![o].valid = FALSE] /\ UNCHANGED <<stored, held, accountCalls, records, reported, connected, accountInHand>>
  BY DEF Account!Expire
<1>2. objects \in Seq(Credentials) /\ o \in 1..Len(objects) /\ objects[o] \in Credentials
  BY DEF AccountInv, AccountTypes
<1>3. PICK creds : creds = [objects[o] EXCEPT !.valid = FALSE]
  OBVIOUS
<1>4. objects' = [objects EXCEPT ![o] = creds]
  BY <1>1, <1>3
<1>5. creds \in Credentials /\ creds.refresh = objects[o].refresh
  BY <1>2, <1>3 DEF Credentials
<1>6. /\ objects' \in Seq(Credentials) /\ Len(objects') = Len(objects)
      /\ \A i \in 1..Len(objects) : objects'[i] = IF i = o THEN creds ELSE objects[i]
  BY <1>2, <1>4, <1>5
<1>7. GrowsOnly(objects, objects')
  BY <1>2, <1>5, <1>6 DEF GrowsOnly
<1>8. stored' \in AccountTokens \cup {None} /\ records' \in Seq(Reports) /\ reported' \in Nat
  BY <1>1 DEF AccountInv, AccountTypes
<1>9. ~accountInHand => StoredCurrent' /\ RecordsCurrent'
  BY <1>1 DEF AccountInv, Current, StoredCurrent, RecordsCurrent
<1>10. QED BY <1>1, <1>6, <1>7, <1>8, <1>9, AccountNoCall

LEMMA RecordsInv == ASSUME Account!AccountAssumption, AccountInv, Account!RecordReads \/ Account!RecordSaves PROVE AccountInv'
<1>1. records # <<>> /\ UNCHANGED <<held, objects, accountCalls, reported, connected, accountInHand>>
  BY DEF Account!RecordReads, Account!RecordSaves
<1>2. /\ records \in Seq(Reports) /\ objects \in Seq(Credentials) /\ stored \in AccountTokens \cup {None} /\ reported \in Nat
      /\ Len(records) \in Nat
  BY DEF AccountInv, AccountTypes
<1>3. 1 \in 1..Len(records) /\ records[1] \in Reports
  BY <1>1, <1>2
<1>4. GrowsOnly(objects, objects')
  BY <1>1, <1>2, Unmoved
<1>5. CASE Account!RecordReads
  <2>1. records' = [records EXCEPT ![1].read = TRUE] /\ stored' = stored
    BY <1>5 DEF Account!RecordReads
  <2>2. PICK report : report = [records[1] EXCEPT !.read = TRUE]
    OBVIOUS
  <2>3. records' = [records EXCEPT ![1] = report]
    BY <2>1, <2>2
  <2>4. report \in Reports /\ report.refresh = records[1].refresh
    BY <1>3, <2>2 DEF Reports
  <2>5. /\ records' \in Seq(Reports) /\ Len(records') = Len(records)
        /\ \A i \in 1..Len(records) : records'[i].refresh = records[i].refresh
    BY <1>2, <1>3, <2>3, <2>4
  <2>6. ~accountInHand => StoredCurrent' /\ RecordsCurrent'
    BY <1>1, <2>1, <2>5 DEF AccountInv, Current, StoredCurrent, RecordsCurrent
  <2>7. QED BY <1>1, <1>2, <1>4, <2>1, <2>5, <2>6, AccountNoCall
<1>6. CASE Account!RecordSaves
  <2>1. stored' = [refresh |-> records[1].refresh, access |-> TRUE] /\ records' = Tail(records)
    BY <1>6 DEF Account!RecordSaves
  <2>2. records[1].refresh \in Refreshes
    BY <1>3 DEF Reports
  <2>3. stored' \in AccountTokens \cup {None} /\ stored'.refresh = records[1].refresh
    BY <2>1, <2>2 DEF AccountTokens
  <2>4. /\ records' \in Seq(Reports) /\ Len(records') = Len(records) - 1
        /\ \A i \in 1..(Len(records) - 1) : records'[i] = records[i + 1] /\ i + 1 \in 1..Len(records)
    BY <1>1, <1>2, <2>1
  <2>5. ASSUME ~accountInHand PROVE StoredCurrent' /\ RecordsCurrent'
    <3>1. RecordsCurrent
      BY <2>5 DEF AccountInv, Current
    <3>2. Account!Grant(records[1].refresh) = records[1].refresh[1]
      BY <2>2, GrantOfRefresh
    <3>3. Account!Grant(stored'.refresh) = connected
      BY <1>3, <2>3, <3>1, <3>2 DEF RecordsCurrent
    <3>4. RecordsCurrent'
      BY <1>1, <2>4, <3>1 DEF RecordsCurrent
    <3>5. QED BY <1>1, <3>3, <3>4 DEF StoredCurrent
  <2>6. QED BY <1>1, <1>2, <1>4, <2>3, <2>4, <2>5, AccountNoCall
<1>7. QED BY <1>5, <1>6

LEMMA RefreshFailsInv == ASSUME AccountInv, NEW c \in Calls, Account!RefreshFails(c) PROVE AccountInv'
<1>1. /\ accountCalls[c].step = "refreshing" /\ held' \in {held, 0} /\ accountCalls' = [accountCalls EXCEPT ![c] = Account!Idle]
      /\ UNCHANGED <<stored, objects, records, reported, connected, accountInHand>>
  BY DEF Account!RefreshFails, Account!End
<1>2. objects \in Seq(Credentials) /\ held \in 0..Len(objects) /\ Len(objects) \in Nat /\ AccountTypes
  BY DEF AccountInv, AccountTypes
<1>3. Account!Idle \in AccountCallRecords /\ Account!Idle.creds = 0 /\ CallFits(Account!Idle, objects) /\ CallIsCurrent(Account!Idle, objects, connected)
  BY <1>2, AccountBeginning
<1>4. CASE held' = held
  BY <1>1, <1>3, <1>4, Moved
<1>5. CASE held' = 0
  <2>1. held' \in 0..Len(objects')
    BY <1>1, <1>2, <1>5
  <2>2. accountCalls' \in [Calls -> AccountCallRecords]
    BY <1>1, <1>3 DEF AccountInv, AccountTypes
  <2>3. AccountTypes'
    BY <1>1, <2>1, <2>2 DEF AccountInv, AccountTypes
  <2>4. GrowsOnly(objects, objects')
    BY <1>1, <1>2, Unmoved
  <2>5. ~accountInHand' => StoredCurrent' /\ RecordsCurrent' /\ HeldCurrent'
    BY <1>1, <1>5 DEF AccountInv, Current, StoredCurrent, RecordsCurrent, HeldCurrent
  <2>6. QED BY <1>1, <1>3, <2>3, <2>4, <2>5, AccountOneCall
<1>6. QED BY <1>1, <1>4, <1>5

LEMMA OthersInv ==
  ASSUME Account!AccountAssumption, AccountInv, NEW c \in Calls, Account!Settle(c) \/ Account!Done(c) \/ Account!Exchange(c)
  PROVE  AccountInv'
<1>1. UNCHANGED <<stored, held, objects, records, reported, connected, accountInHand>>
  BY DEF Account!Settle, Account!Done, Account!Exchange
<1>2. objects \in Seq(Credentials) /\ stored \in AccountTokens \cup {None} /\ connected \in (0..MaxGrants) \cup {None} /\ Len(objects) \in Nat
  BY DEF AccountInv, AccountTypes
<1>3. CASE Account!Settle(c)
  <2>1. accountCalls[c].step = "settling" /\ accountCalls' = [accountCalls EXCEPT ![c] = [Account!Idle EXCEPT !.step = "service"]]
    BY <1>3 DEF Account!Settle
  <2>2. PICK r : r = [Account!Idle EXCEPT !.step = "service"]
    OBVIOUS
  <2>3. r = [doing |-> "nothing", step |-> "service", creds |-> 0, token |-> None, until |-> 0]
    BY <2>2 DEF Account!Idle
  <2>4. r \in AccountCallRecords /\ r.creds = 0 /\ r.step = "service"
    BY <2>3 DEF AccountCallRecords
  <2>5. CallFits(r, objects) /\ CallIsCurrent(r, objects, connected)
    BY <1>2, <2>4 DEF CallFits, CallIsCurrent
  <2>6. accountCalls' = [accountCalls EXCEPT ![c] = r]
    BY <2>1, <2>2
  <2>7. QED BY <1>1, <2>1, <2>4, <2>5, <2>6, Moved
<1>4. CASE Account!Done(c)
  <2>1. accountCalls[c].step = "using" /\ accountCalls' = [accountCalls EXCEPT ![c] = Account!Idle]
    BY <1>4 DEF Account!Done, Account!End
  <2>2. QED BY <1>1, <1>2, <2>1, AccountBeginning, Moved
<1>5. CASE Account!Exchange(c)
  <2>1. PICK sent \in BOOLEAN :
          LET kept == IF stored = None THEN None ELSE stored.refresh
              next == 1 + (IF connected = None THEN -1 ELSE connected)
          IN  /\ accountCalls[c] = Account!Idle /\ (sent => next <= MaxGrants)
              /\ accountCalls' = [accountCalls EXCEPT ![c] = [Account!Idle EXCEPT !.doing = "connect", !.step = "exchanged",
                             !.token = [refresh |-> IF sent THEN <<next, 0>> ELSE kept, access |-> TRUE]]]
    BY <1>5 DEF Account!Exchange
  <2>2. PICK next \in Int : next = 1 + (IF connected = None THEN -1 ELSE connected)
    BY <1>2 DEF Account!AccountAssumption
  <2>3. next >= 0
    BY <1>2, <2>2 DEF Account!AccountAssumption
  <2>4. sent => <<next, 0>> \in Refreshes
    BY <2>1, <2>2, <2>3 DEF Account!AccountAssumption, Refreshes
  <2>5. PICK refresh \in Refreshes \cup {None} :
          refresh = IF sent THEN <<next, 0>> ELSE IF stored = None THEN None ELSE stored.refresh
    BY <1>2, <2>4 DEF AccountTokens
  <2>6. PICK token \in AccountTokens : token = [refresh |-> refresh, access |-> TRUE]
    BY DEF AccountTokens
  <2>7. accountCalls[c] = Account!Idle /\ accountCalls' = [accountCalls EXCEPT ![c] = [Account!Idle EXCEPT !.doing = "connect", !.step = "exchanged", !.token = token]]
    BY <2>1, <2>2, <2>5, <2>6
  <2>8. PICK r : r = [Account!Idle EXCEPT !.doing = "connect", !.step = "exchanged", !.token = token]
    OBVIOUS
  <2>9. r = [doing |-> "connect", step |-> "exchanged", creds |-> 0, token |-> token, until |-> 0]
    BY <2>8 DEF Account!Idle
  <2>10. r \in AccountCallRecords /\ r.creds = 0 /\ r.step = "exchanged" /\ r.token = token
    BY <2>9 DEF AccountCallRecords
  <2>11. CallFits(r, objects) /\ CallIsCurrent(r, objects, connected)
    BY <1>2, <2>10 DEF CallFits, CallIsCurrent
  <2>12. accountCalls' = [accountCalls EXCEPT ![c] = r] /\ accountCalls[c].step # "saved"
    BY <2>7, <2>8, AccountBeginning
  <2>13. QED BY <1>1, <2>10, <2>11, <2>12, Moved
<1>6. QED BY <1>3, <1>4, <1>5

----------------------------------------------------------------------------
(* An account is saved.                                                     *)

\* Nothing of an older authorization was in use: what is, is of the one saved, and the credentials at
\* hand are no one's, or of that authorization too.
LEMMA NoneOlder ==
  ASSUME Account!AccountAssumption, AccountInv, ~accountInHand, NEW grant, ~Account!UsesOlder(grant)
  PROVE  /\ \A i \in 1..Len(records) : records[i].refresh[1] = grant
         /\ \A c \in Calls : CallIsCurrent(accountCalls[c], objects, grant)
         /\ \A c \in Calls : accountCalls[c].creds # 0 => connected = grant
<1>1. /\ accountCalls \in [Calls -> AccountCallRecords] /\ objects \in Seq(Credentials) /\ records \in Seq(Reports)
      /\ Len(objects) \in Nat
  BY DEF AccountInv, AccountTypes
<1>2. (\A c \in Calls : Account!GrantOf(c) \in {None, grant}) /\ \A i \in DOMAIN records : Account!Grant(records[i].refresh) = grant
  BY DEF Account!UsesOlder
<1>3. ASSUME NEW i \in 1..Len(records) PROVE records[i].refresh[1] = grant
  <2>1. records[i] \in Reports /\ i \in DOMAIN records
    BY <1>1
  <2>2. records[i].refresh \in Refreshes
    BY <2>1 DEF Reports
  <2>3. Account!Grant(records[i].refresh) = records[i].refresh[1]
    BY <2>2, GrantOfRefresh
  <2>4. QED BY <1>2, <2>1, <2>3
<1>4. ASSUME NEW c \in Calls
      PROVE  CallIsCurrent(accountCalls[c], objects, grant) /\ (accountCalls[c].creds # 0 => connected = grant)
  <2>1. accountCalls[c] \in AccountCallRecords /\ CallFits(accountCalls[c], objects) /\ CallIsCurrent(accountCalls[c], objects, connected)
    BY <1>1 DEF AccountInv, CallsFit, Current, CallsCurrent
  <2>2. Account!GrantOf(c) \in {None, grant}
    BY <1>2
  <2>3. CASE accountCalls[c].step = "loaded"
    <3>1. accountCalls[c].token.refresh \in Refreshes /\ accountCalls[c].creds = 0
      BY <2>1, <2>3 DEF CallFits
    <3>2. Account!GrantOf(c) = Account!Grant(accountCalls[c].token.refresh)
      BY <2>3, <3>1 DEF Account!GrantOf
    <3>3. Account!GrantOf(c) = accountCalls[c].token.refresh[1] /\ Account!GrantOf(c) # None
      BY <3>1, <3>2, GrantOfRefresh
    <3>4. QED BY <2>2, <3>1, <3>3 DEF CallIsCurrent
  <2>4. CASE accountCalls[c].step # "loaded" /\ accountCalls[c].creds # 0
    <3>1. accountCalls[c].creds \in 1..Len(objects)
      BY <1>1, <2>1, <2>4 DEF CallFits, AccountCallRecords
    <3>2. objects[accountCalls[c].creds] \in Credentials
      BY <1>1, <3>1
    <3>3. objects[accountCalls[c].creds].refresh \in Refreshes
      BY <3>2 DEF Credentials
    <3>4. Account!GrantOf(c) = Account!Grant(objects[accountCalls[c].creds].refresh)
      BY <2>4 DEF Account!GrantOf
    <3>5. Account!GrantOf(c) = objects[accountCalls[c].creds].refresh[1] /\ Account!GrantOf(c) # None
      BY <3>3, <3>4, GrantOfRefresh
    <3>6. QED BY <2>1, <2>2, <2>4, <3>5 DEF CallIsCurrent
  <2>5. CASE accountCalls[c].step # "loaded" /\ accountCalls[c].creds = 0
    BY <2>5 DEF CallIsCurrent
  <2>6. QED BY <2>3, <2>4, <2>5
<1>5. QED BY <1>3, <1>4

LEMMA SavedInv == ASSUME Account!AccountAssumption, AccountInv, NEW c \in Calls, Account!SaveExchanged(c) PROVE AccountInv'
<1> DEFINE grant == Account!Grant(accountCalls[c].token.refresh)
<1>1. /\ accountCalls[c].step = "exchanged" /\ stored' = accountCalls[c].token /\ connected' = grant
      /\ accountInHand' = (accountInHand \/ Account!UsesOlder(grant)) /\ accountCalls' = [accountCalls EXCEPT ![c] = [Account!Idle EXCEPT !.step = "saved"]]
      /\ UNCHANGED <<held, objects, records, reported>>
  BY DEF Account!SaveExchanged
<1>2. /\ accountCalls \in [Calls -> AccountCallRecords] /\ accountCalls[c] \in AccountCallRecords /\ CallFits(accountCalls[c], objects)
      /\ objects \in Seq(Credentials) /\ Len(objects) \in Nat
  BY DEF AccountInv, AccountTypes, CallsFit
<1>3. accountCalls[c].token \in AccountTokens /\ accountCalls[c].token.refresh \in Refreshes \cup {None} /\ accountCalls[c].creds = 0
  BY <1>1, <1>2 DEF CallFits, AccountTokens
<1>4. grant \in (0..MaxGrants) \cup {None}
  <2>1. CASE accountCalls[c].token.refresh = None
    BY <2>1 DEF Account!Grant
  <2>2. CASE accountCalls[c].token.refresh \in Refreshes
    BY <2>2, GrantOfRefresh
  <2>3. QED BY <1>3, <2>1, <2>2
<1>5. PICK r : r = [Account!Idle EXCEPT !.step = "saved"]
  OBVIOUS
<1>6. r = [doing |-> "nothing", step |-> "saved", creds |-> 0, token |-> None, until |-> 0]
  BY <1>5 DEF Account!Idle
<1>7. r \in AccountCallRecords /\ r.creds = 0 /\ r.step = "saved"
  BY <1>6 DEF AccountCallRecords
<1>8. accountCalls' = [accountCalls EXCEPT ![c] = r] /\ accountCalls'[c] = r /\ \A d \in Calls : d # c => accountCalls'[d] = accountCalls[d]
  BY <1>1, <1>2, <1>5
<1>9. CallFits(r, objects') /\ \A g : CallIsCurrent(r, objects, g)
  BY <1>1, <1>2, <1>7 DEF CallFits, CallIsCurrent
<1>10. AccountTypes'
  <2>1. accountCalls' \in [Calls -> AccountCallRecords] /\ accountInHand' \in BOOLEAN
    BY <1>1, <1>2, <1>7, <1>8
  <2>2. QED BY <1>1, <1>3, <1>4, <2>1 DEF AccountInv, AccountTypes
<1>11. CallsFit'
  <2>1. SUFFICES ASSUME NEW d \in Calls PROVE CallFits(accountCalls'[d], objects)
    BY <1>1 DEF CallsFit
  <2>2. CASE d = c
    BY <1>1, <1>8, <1>9, <2>2
  <2>3. CASE d # c
    <3>1. accountCalls'[d] = accountCalls[d]
      BY <1>8, <2>3
    <3>2. QED BY <3>1 DEF AccountInv, CallsFit
  <2>4. QED BY <2>2, <2>3
<1>12. ASSUME ~accountInHand' PROVE Current'
  <2>1. ~accountInHand /\ ~Account!UsesOlder(grant)
    BY <1>1, <1>12
  <2>2. /\ \A i \in 1..Len(records) : records[i].refresh[1] = grant
        /\ \A d \in Calls : CallIsCurrent(accountCalls[d], objects, grant)
        /\ \A d \in Calls : accountCalls[d].creds # 0 => connected = grant
    BY <2>1, NoneOlder
  <2>3. StoredCurrent'
    BY <1>1 DEF StoredCurrent
  <2>4. RecordsCurrent'
    BY <1>1, <2>2 DEF RecordsCurrent
  <2>5. CallsCurrent'
    <3>1. SUFFICES ASSUME NEW d \in Calls PROVE CallIsCurrent(accountCalls'[d], objects, grant)
      BY <1>1 DEF CallsCurrent
    <3>2. CASE d = c
      <4>1. accountCalls'[d] = r
        BY <1>8, <3>2
      <4>2. QED BY <1>9, <4>1
    <3>3. CASE d # c
      <4>1. accountCalls'[d] = accountCalls[d]
        BY <1>8, <3>3
      <4>2. QED BY <2>2, <4>1
    <3>4. QED BY <3>2, <3>3
  <2>6. HeldCurrent'
    <3>1. SUFFICES ASSUME held # 0, objects[held].refresh[1] # grant
                   PROVE  (\E d \in Calls : accountCalls'[d].step = "saved") /\ \A d \in Calls : accountCalls'[d].creds = 0
      BY <1>1 DEF HeldCurrent
    <3>2. \A d \in Calls : accountCalls[d].creds = 0
      <4>1. SUFFICES ASSUME NEW d \in Calls, accountCalls[d].creds # 0 PROVE FALSE
        OBVIOUS
      <4>2. connected = grant
        BY <2>2, <4>1
      <4>3. QED BY <2>1, <3>1, <4>1, <4>2 DEF AccountInv, Current, HeldCurrent
    <3>3. QED BY <1>7, <1>8, <3>2
  <2>7. QED BY <2>3, <2>4, <2>5, <2>6 DEF Current
<1>13. QED BY <1>10, <1>11, <1>12 DEF AccountInv

----------------------------------------------------------------------------

LEMMA AccountInitInv == ASSUME Account!AccountAssumption, Account!Init PROVE AccountInv
<1>1. stored \in AccountTokens \cup {None} /\ connected \in (0..MaxGrants) \cup {None}
  <2>1. <<0, 0>> \in Refreshes /\ 0 \in 0..MaxGrants
    BY DEF Refreshes, Account!AccountAssumption
  <2>2. [refresh |-> <<0, 0>>, access |-> FALSE] \in AccountTokens
    BY <2>1 DEF AccountTokens
  <2>3. stored \in AccountTokens \cup {None}
    BY <2>2 DEF Account!Init
  <2>4. connected = 0 \/ connected = None
    BY DEF Account!Init
  <2>5. QED BY <2>1, <2>3, <2>4
<1>2. objects = <<>> /\ held = 0 /\ records = <<>> /\ reported = 0 /\ accountInHand = FALSE
  BY DEF Account!Init
<1>3. accountCalls \in [Calls -> AccountCallRecords] /\ \A c \in Calls : accountCalls[c] = Account!Idle
  BY AccountBeginning DEF Account!Init
<1>4. <<>> \in Seq(Credentials) /\ Len(objects) = 0 /\ <<>> \in Seq(Reports) /\ Len(records) = 0
  BY <1>2
<1>5. AccountTypes
  <2>1. held \in 0..Len(objects) /\ reported \in Nat
    BY <1>2, <1>4
  <2>2. accountInHand \in BOOLEAN
    BY <1>2
  <2>3. objects \in Seq(Credentials) /\ records \in Seq(Reports)
    BY <1>2, <1>4
  <2>4. QED BY <1>1, <1>3, <2>1, <2>2, <2>3 DEF AccountTypes
<1>6. CallsFit
  <2>1. CallFits(Account!Idle, objects)
    BY <1>2, <1>4, AccountBeginning
  <2>2. QED BY <1>3, <2>1 DEF CallsFit
<1>7. Current
  <2>1. CallsCurrent
    <3>1. CallIsCurrent(Account!Idle, objects, connected)
      BY <1>2, <1>4, AccountBeginning
    <3>2. QED BY <1>3, <3>1 DEF CallsCurrent
  <2>2. StoredCurrent
    <3>1. SUFFICES ASSUME stored # None PROVE Account!Grant(stored.refresh) = connected
      BY DEF StoredCurrent
    <3>2. stored = [refresh |-> <<0, 0>>, access |-> FALSE] /\ connected = 0
      BY <3>1 DEF Account!Init
    <3>3. <<0, 0>> \in Refreshes
      BY DEF Refreshes, Account!AccountAssumption
    <3>4. QED BY <3>2, <3>3, GrantOfRefresh
  <2>3. QED BY <1>2, <1>4, <2>1, <2>2 DEF Current, RecordsCurrent, HeldCurrent
<1>8. QED BY <1>5, <1>6, <1>7 DEF AccountInv

LEMMA AccountNextInv == ASSUME Account!AccountAssumption, AccountInv, Account!Next PROVE AccountInv'
<1>1. ASSUME NEW c \in Calls, Account!Begin(c) \/ Account!BeginCheck(c) \/ Account!Load(c) \/ Account!MakeCreds(c) PROVE AccountInv'
  BY <1>1, BeginInv, BeginCheckInv, LoadInv, MakeCredsInv
<1>2. ASSUME NEW c \in Calls, Account!Refreshed(c) \/ Account!RefreshFails(c) \/ Account!RefreshInUse(c) PROVE AccountInv'
  BY <1>2, RefreshedInv, RefreshFailsInv, RefreshInUseInv
<1>3. ASSUME NEW c \in Calls, Account!Settle(c) \/ Account!Done(c) \/ Account!Exchange(c) \/ Account!SaveExchanged(c) PROVE AccountInv'
  BY <1>3, OthersInv, SavedInv
<1>4. ASSUME NEW o \in DOMAIN objects, Account!Expire(o) PROVE AccountInv'
  BY <1>4, ExpireInv
<1>5. ASSUME Account!RecordReads \/ Account!RecordSaves PROVE AccountInv'
  BY <1>5, RecordsInv
<1>6. QED BY <1>1, <1>2, <1>3, <1>4, <1>5 DEF Account!Next

LEMMA InvAccount == ASSUME AccountInv PROVE Account!TypeOK /\ Account!AccountStays
<1>1. Account!TypeOK
  <2>1. \A c \in Calls : accountCalls[c].creds \in 0..Len(objects)
    BY DEF AccountInv, AccountTypes, CallsFit, CallFits, AccountCallRecords
  <2>2. stored # None /\ stored.refresh # None => stored.refresh \in Refreshes
    BY DEF AccountInv, AccountTypes, AccountTokens
  <2>3. QED BY <2>1, <2>2 DEF AccountInv, AccountTypes, Account!TypeOK, Refreshes
<1>2. Account!AccountStays
  BY DEF AccountInv, Current, StoredCurrent, Account!AccountStays
<1>3. QED BY <1>1, <1>2

LEMMA AccountStepInv == ASSUME Account!AccountAssumption, AccountInv, [Account!Next]_(Account!accountVars) PROVE AccountInv'
<1>1. ASSUME AccountInv, UNCHANGED Account!accountVars PROVE AccountInv'
  BY <1>1 DEF Account!accountVars, AccountInv, AccountTypes, CallsFit, Current, StoredCurrent, RecordsCurrent, CallsCurrent,
              HeldCurrent
<1>2. QED BY <1>1, AccountNextInv

\* However calls, checks, refreshes and their records interleave with admins who connect accounts, the
\* stored token is of the account that was connected last, unless the one before it was in use when that
\* was saved (youtube.py).
THEOREM StoredTokenIsConnected == ASSUME Account!AccountAssumption PROVE Account!Spec => [](Account!TypeOK /\ Account!AccountStays)
<1>1. AccountInv /\ [Account!Next]_(Account!accountVars) => AccountInv'
  BY AccountStepInv
<1>2. Account!Init => AccountInv
  BY AccountInitInv
<1>3. AccountInv => Account!TypeOK /\ Account!AccountStays
  BY InvAccount
<1>4. QED BY <1>1, <1>2, <1>3, PTL DEF Account!Spec

------------------------------------------------------------------------------
(* YouTubeQuota.                                                            *)

\* Whoever read the row to change it has it locked, and it still says what was read.
ReadsHold == \A c \in Calls : spends[c].step = "locked" => quotaLock = c /\ spends[c].read = quotaRow

\* Neither a call nor the row is of a day to come.
DaysPast ==
  /\ \A c \in Calls : spends[c].day <= day
  /\ quotaRow # None => quotaRow.day <= day

QuotaInv == Quota!TypeOK /\ ReadsHold /\ DaysPast /\ Quota!QuotaCounts

----------------------------------------------------------------------------
(* Lemmas on the row.                                                       *)

LEMMA UsedOnType == ASSUME NEW v \in Quota!Rows, NEW d \in Nat PROVE Quota!UsedOn(v, d) \in Nat
  BY DEF Quota!UsedOn, Quota!Rows

LEMMA AddType ==
  ASSUME Quota!QuotaAssumption, NEW v \in Quota!Rows, NEW cost \in COST \cup {0}, NEW d \in Nat
  PROVE  /\ Quota!Add(v, cost, d) \in Quota!Rows /\ Quota!Add(v, cost, d) # None
         /\ Quota!Add(v, cost, d).day = d /\ Quota!Add(v, cost, d).used = Quota!UsedOn(v, d) + cost
<1>1. Quota!UsedOn(v, d) + cost \in Nat
  BY UsedOnType DEF Quota!QuotaAssumption
<1>2. Quota!Add(v, cost, d) \in [day : Nat, used : Nat]
  BY <1>1 DEF Quota!Add
<1>3. QED BY <1>2 DEF Quota!Add, Quota!Rows, Quota!QuotaAssumption

LEMMA IdleType == Quota!Idle \in Quota!Spends /\ Quota!Idle.step = "idle" /\ Quota!Idle.day = 0
  BY DEF Quota!Idle, Quota!Spends, Quota!Rows

----------------------------------------------------------------------------
(* Each step keeps the invariant.                                           *)

LEMMA QuotaInitInv == ASSUME Quota!QuotaAssumption, Quota!Init PROVE QuotaInv
<1>1. Quota!TypeOK
  BY IdleType DEF Quota!Init, Quota!TypeOK, Quota!Rows
<1>2. ReadsHold /\ DaysPast
  BY IdleType DEF Quota!Init, ReadsHold, DaysPast
<1>3. Quota!QuotaCounts
  BY DEF Quota!Init, Quota!QuotaCounts, Quota!UsedToday, Quota!UsedOn
<1>4. QED BY <1>1, <1>2, <1>3 DEF QuotaInv

\* A step that leaves the row, the day and the count alone: what remains to show is that the calls
\* have their types, their days, and what they read.
LEMMA QuietStep ==
  ASSUME QuotaInv, UNCHANGED <<quotaRow, day, used, quotaLate>>,
         quotaLock' \in Calls \cup {None}, spends' \in [Calls -> Quota!Spends],
         \A c \in Calls : spends'[c].day <= day, ReadsHold'
  PROVE  QuotaInv'
<1>1. Quota!TypeOK' /\ DaysPast'
  BY DEF QuotaInv, Quota!TypeOK, DaysPast
<1>2. Quota!QuotaCounts'
  BY DEF QuotaInv, Quota!QuotaCounts, Quota!UsedToday
<1>3. QED BY <1>1, <1>2 DEF QuotaInv

LEMMA QuotaAnsweredInv == ASSUME QuotaInv, NEW c \in Calls, Quota!Answered(c) PROVE QuotaInv'
<1>1. PICK cost \in COST : spends' = [spends EXCEPT ![c].step = "insert", ![c].day = day, ![c].cost = cost]
  BY DEF Quota!Answered
<1>2. UNCHANGED <<quotaRow, quotaLock, day, used, quotaLate>> /\ day \in Nat /\ spends \in [Calls -> Quota!Spends]
  BY DEF Quota!Answered, QuotaInv, Quota!TypeOK
<1>3. spends' \in [Calls -> Quota!Spends] /\ spends'[c].step = "insert" /\ spends'[c].day = day
  BY ZenonT(60), <1>1, <1>2 DEF Quota!Spends
<1>4. \A d \in Calls \ {c} : spends'[d] = spends[d]
  BY <1>1, <1>2
<1>5. ReadsHold' /\ \A d \in Calls : spends'[d].day <= day
  BY <1>2, <1>3, <1>4 DEF ReadsHold, QuotaInv, DaysPast
<1>6. QED BY <1>2, <1>3, <1>5, QuietStep DEF QuotaInv, Quota!TypeOK

LEMMA InsertInv == ASSUME Quota!QuotaAssumption, QuotaInv, NEW c \in Calls, Quota!Insert(c) PROVE QuotaInv'
<1>1. /\ UNCHANGED <<quotaRow, day, used, quotaLate>> /\ spends \in [Calls -> Quota!Spends]
      /\ quotaLock' = quotaLock \/ (quotaLock = None /\ quotaLock' = c)
      /\ spends' = [spends EXCEPT ![c].step = "lock"]
  BY DEF Quota!Insert, QuotaInv, Quota!TypeOK
<1>2. spends' \in [Calls -> Quota!Spends] /\ spends'[c].step = "lock" /\ spends'[c].day = spends[c].day
  BY <1>1 DEF Quota!Spends
<1>3. \A d \in Calls \ {c} : spends'[d] = spends[d]
  BY <1>1
<1>4. quotaLock' \in Calls \cup {None}
  BY <1>1 DEF QuotaInv, Quota!TypeOK
<1>5. ReadsHold'
  <2>1. SUFFICES ASSUME NEW d \in Calls, spends'[d].step = "locked" PROVE quotaLock' = d /\ spends'[d].read = quotaRow
    BY <1>1 DEF ReadsHold
  <2>2. quotaLock = d /\ spends[d].read = quotaRow /\ d # c
    BY <1>2, <1>3, <2>1 DEF QuotaInv, ReadsHold
  <2>3. quotaLock # None
    BY <2>2 DEF Quota!QuotaAssumption
  <2>4. QED BY <1>1, <1>3, <2>2, <2>3
<1>6. \A d \in Calls : spends'[d].day <= day
  BY <1>2, <1>3 DEF QuotaInv, DaysPast
<1>7. QED BY <1>1, <1>2, <1>4, <1>5, <1>6, QuietStep

LEMMA LockRowInv == ASSUME Quota!QuotaAssumption, QuotaInv, NEW c \in Calls, Quota!LockRow(c) PROVE QuotaInv'
<1>1. /\ UNCHANGED <<quotaRow, day, used, quotaLate>> /\ spends \in [Calls -> Quota!Spends] /\ quotaRow \in Quota!Rows
      /\ quotaLock \in {None, c} /\ quotaLock' = c
      /\ spends' = [spends EXCEPT ![c].step = "locked", ![c].read = quotaRow]
  BY DEF Quota!LockRow, Quota!MayRead, QuotaInv, Quota!TypeOK
<1>2. /\ spends' \in [Calls -> Quota!Spends]
      /\ spends'[c].step = "locked" /\ spends'[c].read = quotaRow /\ spends'[c].day = spends[c].day
  BY <1>1 DEF Quota!Spends
<1>3. \A d \in Calls \ {c} : spends'[d] = spends[d]
  BY <1>1
<1>4. ReadsHold'
  <2>1. SUFFICES ASSUME NEW d \in Calls, spends'[d].step = "locked" PROVE quotaLock' = d /\ spends'[d].read = quotaRow
    BY <1>1 DEF ReadsHold
  <2>2. CASE d = c
    BY <1>1, <1>2, <2>2
  <2>3. CASE d # c
    <3>1. quotaLock = d
      BY <1>3, <2>1, <2>3 DEF QuotaInv, ReadsHold
    <3>2. QED BY <1>1, <2>3, <3>1 DEF Quota!QuotaAssumption
  <2>4. QED BY <2>2, <2>3
<1>5. \A d \in Calls : spends'[d].day <= day
  BY <1>2, <1>3 DEF QuotaInv, DaysPast
<1>6. QED BY <1>1, <1>2, <1>4, <1>5, QuietStep

LEMMA CountFailsInv == ASSUME QuotaInv, NEW c \in Calls, Quota!CountFails(c) PROVE QuotaInv'
<1>1. /\ UNCHANGED <<quotaRow, day, used, quotaLate>> /\ spends \in [Calls -> Quota!Spends] /\ day \in Nat
      /\ quotaLock' = IF quotaLock = c THEN None ELSE quotaLock
      /\ spends' = [spends EXCEPT ![c] = Quota!Idle]
  BY DEF Quota!CountFails, QuotaInv, Quota!TypeOK
<1>2. spends' \in [Calls -> Quota!Spends] /\ spends'[c] = Quota!Idle
  BY <1>1, IdleType
<1>3. \A d \in Calls \ {c} : spends'[d] = spends[d]
  BY <1>1
<1>4. quotaLock' \in Calls \cup {None}
  BY <1>1 DEF QuotaInv, Quota!TypeOK
<1>5. ReadsHold'
  <2>1. SUFFICES ASSUME NEW d \in Calls, spends'[d].step = "locked" PROVE quotaLock' = d /\ spends'[d].read = quotaRow
    BY <1>1 DEF ReadsHold
  <2>2. d # c
    BY <1>2, <2>1, IdleType
  <2>3. quotaLock = d /\ spends[d].read = quotaRow
    BY <1>3, <2>1, <2>2 DEF QuotaInv, ReadsHold
  <2>4. QED BY <1>1, <1>3, <2>2, <2>3
<1>6. \A d \in Calls : spends'[d].day <= day
  BY <1>1, <1>2, <1>3, IdleType DEF QuotaInv, DaysPast
<1>7. QED BY <1>1, <1>2, <1>4, <1>5, <1>6, QuietStep

\* The count that is written is of the row as it is, since the row was locked from its being read.
LEMMA CommitInv == ASSUME Quota!QuotaAssumption, QuotaInv, NEW c \in Calls, Quota!Commit(c) PROVE QuotaInv'
<1> DEFINE x == spends[c]
<1>1. /\ x.step = "locked" /\ x.read = quotaRow /\ quotaLock = c /\ x.day <= day
      /\ x.day \in Nat /\ x.cost \in COST \cup {0} /\ x.cost \in Nat
      /\ quotaRow \in Quota!Rows /\ day \in Nat /\ used \in Nat /\ quotaLate \in BOOLEAN
  <2>1. x \in Quota!Spends /\ quotaRow \in Quota!Rows /\ day \in Nat /\ used \in Nat /\ quotaLate \in BOOLEAN
    BY DEF QuotaInv, Quota!TypeOK
  <2>2. x.day \in Nat /\ x.cost \in COST \cup {0}
    BY <2>1 DEF Quota!Spends
  <2>3. x.cost \in Nat
    <3>1. COST \subseteq Nat
      BY DEF Quota!QuotaAssumption
    <3>2. \A y \in COST \cup {0} : y \in Nat
      BY <3>1
    <3>3. QED BY <2>2, <3>2
  <2>4. x.step = "locked"
    BY DEF Quota!Commit
  <2>5. x.read = quotaRow /\ quotaLock = c /\ x.day <= day
    BY <2>4 DEF QuotaInv, ReadsHold, DaysPast
  <2>6. QED BY <2>1, <2>2, <2>3, <2>4, <2>5
<1>2. /\ quotaRow' = Quota!Add(quotaRow, x.cost, x.day)
      /\ quotaLock' = None /\ day' = day /\ spends' = [spends EXCEPT ![c] = Quota!Idle]
      /\ used' = IF x.day = day THEN used + x.cost ELSE used
      /\ quotaLate' = (quotaLate \/ x.day # day)
  BY <1>1 DEF Quota!Commit
<1>3. quotaRow' \in Quota!Rows /\ quotaRow' # None /\ quotaRow'.day = x.day /\ quotaRow'.used = Quota!UsedOn(quotaRow, x.day) + x.cost
  <2> HIDE DEF x
  <2>1. /\ Quota!Add(quotaRow, x.cost, x.day) \in Quota!Rows /\ Quota!Add(quotaRow, x.cost, x.day) # None
        /\ Quota!Add(quotaRow, x.cost, x.day).day = x.day
        /\ Quota!Add(quotaRow, x.cost, x.day).used = Quota!UsedOn(quotaRow, x.day) + x.cost
    BY ZenonT(60), <1>1, AddType
  <2>2. QED BY <1>2, <2>1
<1>4. /\ spends' \in [Calls -> Quota!Spends] /\ spends'[c] = Quota!Idle
      /\ \A d \in Calls \ {c} : spends'[d] = spends[d]
  BY <1>2, IdleType DEF QuotaInv, Quota!TypeOK
<1>5. Quota!TypeOK'
  <2>1. used' \in Nat /\ quotaLate' \in BOOLEAN
    BY <1>1, <1>2
  <2>2. QED BY <1>1, <1>2, <1>3, <1>4, <2>1 DEF Quota!TypeOK
<1>6. ReadsHold'
  <2>1. \A d \in Calls : spends'[d].step # "locked"
    BY <1>1, <1>4, IdleType DEF QuotaInv, ReadsHold
  <2>2. QED BY <2>1 DEF ReadsHold
<1>7. DaysPast'
  BY <1>1, <1>2, <1>3, <1>4, IdleType DEF QuotaInv, DaysPast
<1>8. Quota!QuotaCounts'
  <2>1. CASE x.day # day
    BY <1>2, <2>1 DEF Quota!QuotaCounts
  <2>2. CASE x.day = day
    <3>1. Quota!UsedOn(quotaRow', day') = Quota!UsedOn(quotaRow, day) + x.cost
      BY <1>2, <1>3, <2>2 DEF Quota!UsedOn
    <3>2. used' = used + x.cost /\ quotaLate' = quotaLate
      BY <1>1, <1>2, <2>2
    <3>3. Quota!UsedOn(quotaRow, day) = used \/ quotaLate
      BY DEF QuotaInv, Quota!QuotaCounts, Quota!UsedToday
    <3>4. QED BY <3>1, <3>2, <3>3 DEF Quota!QuotaCounts, Quota!UsedToday
  <2>3. QED BY <2>1, <2>2
<1>9. QED BY <1>5, <1>6, <1>7, <1>8 DEF QuotaInv

\* No row is of the day that starts, so it starts at 0.
LEMMA MidnightInv == ASSUME QuotaInv, Quota!Midnight PROVE QuotaInv'
<1>1. /\ UNCHANGED <<quotaRow, quotaLock, spends>> /\ quotaRow \in Quota!Rows /\ day \in Nat
      /\ day' = day + 1 /\ used' = 0 /\ quotaLate' = FALSE
  BY DEF Quota!Midnight, QuotaInv, Quota!TypeOK
<1>2. Quota!TypeOK' /\ ReadsHold'
  <2>1. quotaLock \in Calls \cup {None} /\ spends \in [Calls -> Quota!Spends] /\ ReadsHold
    BY DEF QuotaInv, Quota!TypeOK
  <2>2. day' \in Nat /\ used' \in Nat
    BY <1>1
  <2>3. Quota!TypeOK'
    BY <1>1, <2>1, <2>2 DEF Quota!TypeOK
  <2>4. ReadsHold'
    BY <1>1, <2>1 DEF ReadsHold
  <2>5. QED BY <2>3, <2>4
<1>3. DaysPast'
  <2>1. \A c \in Calls : spends[c].day \in Nat /\ spends[c].day <= day
    BY DEF QuotaInv, Quota!TypeOK, Quota!Spends, DaysPast
  <2>2. quotaRow # None => quotaRow.day \in Nat /\ quotaRow.day <= day
    BY <1>1 DEF QuotaInv, DaysPast, Quota!Rows
  <2>3. QED BY <1>1, <2>1, <2>2 DEF DaysPast
<1>4. Quota!QuotaCounts'
  <2>1. quotaRow # None => quotaRow.day \in Nat /\ quotaRow.day <= day
    BY <1>1 DEF QuotaInv, DaysPast, Quota!Rows
  <2>2. Quota!UsedOn(quotaRow', day') = 0
    BY <1>1, <2>1 DEF Quota!UsedOn
  <2>3. QED BY <1>1, <2>2 DEF Quota!QuotaCounts, Quota!UsedToday
<1>5. QED BY <1>2, <1>3, <1>4 DEF QuotaInv

LEMMA QuotaNextInv == ASSUME Quota!QuotaAssumption, QuotaInv, [Quota!Next]_(Quota!quotaVars) PROVE QuotaInv'
<1>1. ASSUME NEW c \in Calls, Quota!Answered(c) PROVE QuotaInv'
  BY <1>1, QuotaAnsweredInv
<1>2. ASSUME NEW c \in Calls, Quota!Insert(c) PROVE QuotaInv'
  BY <1>2, InsertInv
<1>3. ASSUME NEW c \in Calls, Quota!LockRow(c) PROVE QuotaInv'
  BY <1>3, LockRowInv
<1>4. ASSUME NEW c \in Calls, Quota!Commit(c) PROVE QuotaInv'
  BY <1>4, CommitInv
<1>5. ASSUME NEW c \in Calls, Quota!CountFails(c) PROVE QuotaInv'
  BY <1>5, CountFailsInv
<1>6. ASSUME Quota!Midnight PROVE QuotaInv'
  BY <1>6, MidnightInv
<1>7. CASE UNCHANGED Quota!quotaVars
  BY <1>7 DEF QuotaInv, Quota!TypeOK, ReadsHold, DaysPast, Quota!QuotaCounts, Quota!UsedToday, Quota!quotaVars
<1>8. QED BY <1>1, <1>2, <1>3, <1>4, <1>5, <1>6, <1>7 DEF Quota!Next

LEMMA InvQuota == ASSUME QuotaInv PROVE Quota!QuotaCounts
  BY DEF QuotaInv

\* The number the dashboard shows is what was counted today (youtube_quota.py), for any number of
\* calls at a time, whatever they cost and however many days go by.
THEOREM DashboardCounts == ASSUME Quota!QuotaAssumption PROVE Quota!Spec => []Quota!QuotaCounts
<1>1. Quota!Init => QuotaInv
  BY QuotaInitInv
<1>2. QuotaInv /\ [Quota!Next]_(Quota!quotaVars) => QuotaInv'
  BY QuotaNextInv
<1>3. QuotaInv => Quota!QuotaCounts
  BY InvQuota
<1>4. QED BY <1>1, <1>2, <1>3, PTL DEF Quota!Spec

------------------------------------------------------------------------------
(* ViewerAccount.                                                           *)

ViewerTokens == Nat \X Nat

\* Whoever refreshes has a token to refresh.
TokensOK ==
  /\ viewerRow \in ViewerTokens \cup {None} /\ cached \in ViewerTokens \cup {None, Unset} /\ links \in Nat
  /\ asks \in [Askers -> [step : {"idle", "cache", "loaded", "refresh", "save", "saved", "checkLoaded"},
                          token : ViewerTokens \cup {None}]]
  /\ \A t \in Askers : asks[t].step \in {"refresh", "save", "saved"} => asks[t].token \in ViewerTokens
  /\ admin \in [doing : {"nothing", "link", "unlink"}, step : {"idle", "validated", "saved"},
                token : ViewerTokens \cup {None}]

\* Until a route saves, and once it has forgotten, every token is of the account linked last: those of
\* the row, of the cache and of every ask.
Of(token) == Viewer!LinkOf(token) \in {None, linked}
Tidy ==
  admin.step # "saved" =>
    viewerInHand \/ (Viewer!LinkOf(viewerRow) = linked /\ Of(cached) /\ \A t \in Askers : Of(asks[t].token))

ViewerInv == TokensOK /\ Tidy

----------------------------------------------------------------------------

LEMMA Links ==
  ASSUME Viewer!ViewerAssumption
  PROVE  /\ Viewer!LinkOf(None) = None /\ Viewer!LinkOf(Unset) = None
         /\ \A token \in ViewerTokens : Viewer!LinkOf(token) = token[1] /\ Viewer!LinkOf(token) # None
BY DEF Viewer!ViewerAssumption, Viewer!LinkOf, ViewerTokens

\* A token of an ask, saved, is the linked account's.
LEMMA Saves ==
  ASSUME Viewer!ViewerAssumption, NEW token \in ViewerTokens, Of(token)
  PROVE  Viewer!LinkOf(token) = linked
BY Links DEF Of

LEMMA IdleAsk == Viewer!Idle.step = "idle" /\ Viewer!Idle.token = None
BY DEF Viewer!Idle

\* An ask goes on with no token, or with one at hand already.
LEMMA AskStep ==
  ASSUME Viewer!ViewerAssumption, ViewerInv, NEW t \in Askers,
         NEW step \in {"idle", "cache", "loaded", "refresh", "save", "saved", "checkLoaded"},
         NEW token \in ViewerTokens \cup {None}, step \in {"refresh", "save", "saved"} => token \in ViewerTokens,
         asks' = [asks EXCEPT ![t] = [step |-> step, token |-> token]],
         viewerRow' \in ViewerTokens \cup {None}, cached' \in ViewerTokens \cup {None, Unset},
         UNCHANGED <<links, admin, linked, viewerInHand>>,
         admin.step # "saved" /\ ~viewerInHand => Of(token) /\ Viewer!LinkOf(viewerRow') = linked /\ Of(cached')
  PROVE  ViewerInv'
<1>1. /\ asks'[t] = [step |-> step, token |-> token]
      /\ \A u \in Askers \ {t} : asks'[u] = asks[u]
  BY DEF ViewerInv, TokensOK
<1>2. TokensOK'
  BY <1>1 DEF ViewerInv, TokensOK
<1>3. Tidy'
  BY <1>1 DEF ViewerInv, Tidy, Of, Viewer!LinkOf
<1>4. QED BY <1>2, <1>3 DEF ViewerInv

\* What an ask has, and what it may be given.
LEMMA AtHand ==
  ASSUME ViewerInv, NEW t \in Askers
  PROVE  /\ asks[t].token \in ViewerTokens \cup {None} /\ viewerRow \in ViewerTokens \cup {None}
         /\ cached \in ViewerTokens \cup {None, Unset}
         /\ asks[t].step \in {"refresh", "save", "saved"} => asks[t].token \in ViewerTokens
         /\ admin.step # "saved" /\ ~viewerInHand => Of(asks[t].token) /\ Viewer!LinkOf(viewerRow) = linked /\ Of(viewerRow) /\ Of(cached)
BY DEF ViewerInv, TokensOK, Tidy, Of

LEMMA AnswerInv ==
  ASSUME Viewer!ViewerAssumption, ViewerInv, NEW t \in Askers, Viewer!Answer(t),
         viewerRow' \in ViewerTokens \cup {None}, cached' \in ViewerTokens \cup {None, Unset},
         UNCHANGED <<links, admin, linked, viewerInHand>>,
         admin.step # "saved" /\ ~viewerInHand => Viewer!LinkOf(viewerRow') = linked /\ Of(cached')
  PROVE  ViewerInv'
<1>1. asks' = [asks EXCEPT ![t] = [step |-> "idle", token |-> None]]
  BY DEF Viewer!Answer, Viewer!Idle
<1>2. Of(None)
  BY Links DEF Of
<1>3. QED BY <1>1, <1>2, AskStep

LEMMA UseInv ==
  ASSUME Viewer!ViewerAssumption, ViewerInv, NEW t \in Askers, NEW token \in ViewerTokens \cup {None}, Viewer!Use(t, token),
         cached' \in ViewerTokens \cup {None, Unset},
         UNCHANGED <<viewerRow, links, admin, linked, viewerInHand>>,
         admin.step # "saved" /\ ~viewerInHand => Of(token) /\ Of(cached')
  PROVE  ViewerInv'
<1>1. CASE token # None /\ token \in soon /\ token[1] \in Refreshable
  <2>1. token \in ViewerTokens /\ asks' = [asks EXCEPT ![t] = [step |-> "refresh", token |-> token]]
    BY <1>1 DEF Viewer!Use, Viewer!Goto
  <2>2. QED BY <2>1, AskStep, AtHand
<1>2. CASE ~(token # None /\ token \in soon /\ token[1] \in Refreshable)
  <2>1. Viewer!Answer(t)
    BY <1>2 DEF Viewer!Use
  <2>2. QED BY <2>1, AnswerInv, AtHand
<1>3. QED BY <1>1, <1>2

----------------------------------------------------------------------------

LEMMA ViewerAskInv ==
  ASSUME Viewer!ViewerAssumption, ViewerInv, NEW t \in Askers,
         Viewer!Ask(t) \/ Viewer!Cached(t) \/ Viewer!Load(t) \/ Viewer!Loaded(t) \/ Viewer!Refreshed(t) \/ Viewer!SaveRefreshed(t) \/ Viewer!CacheRefreshed(t)
         \/ Viewer!CheckLoad(t) \/ Viewer!CheckLoaded(t)
  PROVE  ViewerInv'
<1>1. Of(None)
  BY Links DEF Of
<1>2. CASE Viewer!Ask(t)
  <2>1. asks' = [asks EXCEPT ![t] = [step |-> "cache", token |-> None]] /\ UNCHANGED <<viewerRow, cached, links, admin, linked, viewerInHand>>
    BY <1>2 DEF Viewer!Ask, Viewer!Goto
  <2>2. QED BY <1>1, <2>1, AskStep, AtHand
<1>3. CASE Viewer!Cached(t)
  <2>1. Viewer!Use(t, cached) /\ cached # Unset /\ UNCHANGED <<viewerRow, cached, links, admin, linked, viewerInHand>>
    BY <1>3 DEF Viewer!Cached
  <2>2. QED BY <2>1, UseInv, AtHand
<1>4. CASE Viewer!Load(t) \/ Viewer!CheckLoad(t)
  <2>1. PICK step \in {"loaded", "checkLoaded"} : asks' = [asks EXCEPT ![t] = [step |-> step, token |-> viewerRow]]
    BY <1>4 DEF Viewer!Load, Viewer!CheckLoad, Viewer!Goto
  <2>2. UNCHANGED <<viewerRow, cached, links, admin, linked, viewerInHand>>
    BY <1>4 DEF Viewer!Load, Viewer!CheckLoad
  <2>3. QED BY <2>1, <2>2, AskStep, AtHand
<1>5. CASE Viewer!Loaded(t)
  <2>1. Viewer!Use(t, asks[t].token) /\ cached' = asks[t].token /\ UNCHANGED <<viewerRow, links, admin, linked, viewerInHand>>
    BY <1>5 DEF Viewer!Loaded
  <2>2. QED BY <2>1, UseInv, AtHand
<1>6. CASE Viewer!Refreshed(t)
  <2>1. asks[t].token \in ViewerTokens /\ UNCHANGED <<viewerRow, cached, links, admin, linked, viewerInHand>>
    BY <1>6, AtHand DEF Viewer!Refreshed
  <2>2. CASE Viewer!Goto(t, "save", <<asks[t].token[1], asks[t].token[2] + 1>>)
    <3>1. <<asks[t].token[1], asks[t].token[2] + 1>> \in ViewerTokens
      BY <2>1 DEF ViewerTokens
    <3>2. Viewer!LinkOf(<<asks[t].token[1], asks[t].token[2] + 1>>) = Viewer!LinkOf(asks[t].token)
      BY <2>1, <3>1, Links
    <3>3. asks' = [asks EXCEPT ![t] = [step |-> "save", token |-> <<asks[t].token[1], asks[t].token[2] + 1>>]]
      BY <2>2 DEF Viewer!Goto
    <3>4. admin.step # "saved" /\ ~viewerInHand => Of(<<asks[t].token[1], asks[t].token[2] + 1>>)
      BY <3>2, AtHand DEF Of
    <3> DEFINE next == <<asks[t].token[1], asks[t].token[2] + 1>>
    <3>5. /\ next \in ViewerTokens /\ asks' = [asks EXCEPT ![t] = [step |-> "save", token |-> next]]
          /\ admin.step # "saved" /\ ~viewerInHand => Of(next)
      BY <3>1, <3>3, <3>4
    <3> HIDE DEF next
    <3>6. QED BY <2>1, <3>5, AskStep, AtHand
  <2>3. CASE Viewer!Answer(t)
    BY <2>1, <2>3, AnswerInv, AtHand
  <2>4. QED BY <1>6, <2>2, <2>3 DEF Viewer!Refreshed
<1>7. CASE Viewer!SaveRefreshed(t)
  <2>1. /\ asks[t].token \in ViewerTokens /\ viewerRow' = asks[t].token
        /\ asks' = [asks EXCEPT ![t] = [step |-> "saved", token |-> asks[t].token]]
        /\ UNCHANGED <<cached, links, admin, linked, viewerInHand>>
    BY <1>7, AtHand DEF Viewer!SaveRefreshed, Viewer!Goto
  <2>2. QED BY <2>1, Saves, AskStep, AtHand
<1>8. CASE Viewer!CacheRefreshed(t)
  <2>1. Viewer!Answer(t) /\ cached' = asks[t].token /\ UNCHANGED <<viewerRow, links, admin, linked, viewerInHand>>
    BY <1>8 DEF Viewer!CacheRefreshed
  <2>2. QED BY <2>1, AnswerInv, AtHand
<1>9. CASE Viewer!CheckLoaded(t)
  <2>1. /\ asks' = [asks EXCEPT ![t] = [step |-> "idle", token |-> None]] /\ cached' = asks[t].token
        /\ UNCHANGED <<viewerRow, links, admin, linked, viewerInHand>>
    BY <1>9 DEF Viewer!CheckLoaded, Viewer!Goto
  <2>2. QED BY <1>1, <2>1, AskStep, AtHand
<1>10. QED BY <1>2, <1>3, <1>4, <1>5, <1>6, <1>7, <1>8, <1>9

\* Until it saves, a route touches no token; a forget that finds one of another account says so.
LEMMA RouteInv ==
  ASSUME Viewer!ViewerAssumption, ViewerInv, Viewer!StartLink \/ Viewer!StartUnlink \/ Viewer!SaveLink \/ Viewer!Forget
  PROVE  ViewerInv'
<1>1. CASE Viewer!StartLink
  <2>1. /\ admin' = [doing |-> "link", step |-> "validated", token |-> <<links + 1, 0>>] /\ links' = links + 1
        /\ admin.step = "idle" /\ UNCHANGED <<viewerRow, cached, asks, linked, viewerInHand>>
    BY <1>1 DEF Viewer!StartLink, Viewer!NoTask
  <2>2. <<links + 1, 0>> \in ViewerTokens /\ links' \in Nat
    BY <2>1 DEF ViewerInv, TokensOK, ViewerTokens
  <2>3. QED BY <2>1, <2>2 DEF ViewerInv, TokensOK, Tidy, Of, Viewer!LinkOf
<1>2. CASE Viewer!StartUnlink
  <2>1. /\ admin' = [doing |-> "unlink", step |-> "validated", token |-> None]
        /\ admin.step = "idle" /\ UNCHANGED <<viewerRow, cached, links, asks, linked, viewerInHand>>
    BY <1>2 DEF Viewer!StartUnlink, Viewer!NoTask
  <2>2. QED BY <2>1 DEF ViewerInv, TokensOK, Tidy, Of, Viewer!LinkOf
<1>3. CASE Viewer!SaveLink
  <2>1. viewerRow' = admin.token /\ admin' = [admin EXCEPT !.step = "saved"] /\ UNCHANGED <<cached, links, asks>>
    BY <1>3 DEF Viewer!SaveLink
  <2>2. QED BY <2>1 DEF ViewerInv, TokensOK, Tidy
<1>4. CASE Viewer!Forget
  <2>1. /\ cached' = Unset /\ admin' = Viewer!NoTask /\ UNCHANGED <<viewerRow, links, asks, linked>>
        /\ ~viewerInHand' => Viewer!LinkOf(viewerRow) = linked /\ \A t \in Askers : Of(asks[t].token)
    BY <1>4 DEF Viewer!Forget, Viewer!Forgotten, Of
  <2>2. Viewer!NoTask.step = "idle" /\ Viewer!NoTask.doing = "nothing" /\ Viewer!NoTask.token = None
        /\ Viewer!NoTask \in [doing : {"nothing", "link", "unlink"}, step : {"idle", "validated", "saved"}, token : ViewerTokens \cup {None}]
    BY DEF Viewer!NoTask
  <2>3. TokensOK'
    BY <2>1, <2>2 DEF ViewerInv, TokensOK
  <2>4. Tidy'
    BY <2>1, Links DEF Tidy, Of, Viewer!LinkOf
  <2>5. QED BY <2>3, <2>4 DEF ViewerInv
<1>5. QED BY <1>1, <1>2, <1>3, <1>4

LEMMA ViewerInitInv == ASSUME Viewer!ViewerAssumption, Viewer!Init PROVE ViewerInv
<1>1. <<0, 0>> \in ViewerTokens
  BY DEF ViewerTokens
<1>2. TokensOK
  BY <1>1 DEF Viewer!Init, TokensOK, Viewer!Idle, Viewer!NoTask
<1>3. Tidy
  BY Links DEF Viewer!Init, Tidy, Of, Viewer!Idle
<1>4. QED BY <1>2, <1>3 DEF ViewerInv

LEMMA ViewerNextInv == ASSUME Viewer!ViewerAssumption, ViewerInv, [Viewer!Next]_(Viewer!viewerVars) PROVE ViewerInv'
<1>1. CASE \E t \in Askers :
             Viewer!Ask(t) \/ Viewer!Cached(t) \/ Viewer!Load(t) \/ Viewer!Loaded(t) \/ Viewer!Refreshed(t) \/ Viewer!SaveRefreshed(t) \/ Viewer!CacheRefreshed(t)
             \/ Viewer!CheckLoad(t) \/ Viewer!CheckLoaded(t)
  BY <1>1, ViewerAskInv
<1>2. CASE Viewer!StartLink \/ Viewer!StartUnlink \/ Viewer!SaveLink \/ Viewer!Forget
  BY <1>2, RouteInv
<1>3. CASE Viewer!NearEnd(viewerRow)
  BY <1>3 DEF Viewer!NearEnd, ViewerInv, TokensOK, Tidy, Of, Viewer!LinkOf
<1>4. CASE UNCHANGED Viewer!viewerVars
  BY <1>4 DEF Viewer!viewerVars, ViewerInv, TokensOK, Tidy, Of, Viewer!LinkOf
<1>5. QED BY <1>1, <1>2, <1>3, <1>4 DEF Viewer!Next

LEMMA InvViewer == ASSUME ViewerInv PROVE Viewer!UnlinkedIsForgotten
  BY DEF ViewerInv, Tidy, Of, Viewer!UnlinkedIsForgotten, Viewer!NoTask

\* Any number of asks at a time, links and refreshes: once a route is through, neither the row nor the
\* cache has a token of an account linked before, unless an ask had one in hand (twitch_viewer.py, admin.py).
THEOREM UnlinkedStaysSo == ASSUME Viewer!ViewerAssumption PROVE Viewer!Spec => []Viewer!UnlinkedIsForgotten
<1>1. Viewer!Init => ViewerInv
  BY ViewerInitInv
<1>2. ViewerInv /\ [Viewer!Next]_(Viewer!viewerVars) => ViewerInv'
  BY ViewerNextInv
<1>3. ViewerInv => Viewer!UnlinkedIsForgotten
  BY InvViewer
<1>4. QED BY <1>1, <1>2, <1>3, PTL DEF Viewer!Spec

------------------------------------------------------------------------------
(* SignIn.                                                                  *)

Rows == [sid : Sids, expires : Int, checked : Nat]
SessionsCallRecords ==
  [step : {"idle", "redeem", "replace", "login", "read", "check", "answered", "let in", "refused"}, token : Nat,
   sid : Sids \cup {0}, now : Nat, active : BOOLEAN, ended : BOOLEAN, late : BOOLEAN, sure : BOOLEAN]

SignInTypes ==
  /\ made \in [tokens : Nat, signIns : Int] /\ sessionsClock \in Nat
  /\ Sessions!Stored \subseteq 1..made.tokens /\ \A t \in Sessions!Stored : table[t] \in Rows
  /\ cookie \in 0..made.tokens /\ loggedOut \subseteq 1..made.tokens
  /\ sessionsCalls \in [Calls -> SessionsCallRecords]
  /\ ended \in [Sids -> Nat \cup {-1}]

\* A session that was logged out of is not in the table again.
StaysOut == \A t \in loggedOut : t \notin Sessions!Stored

\* A session was last checked before its sign-in was ended, or when it was made.
CheckedBefore ==
  \A t \in Sessions!Stored :
    /\ table[t].checked <= sessionsClock
    /\ ~Sessions!Standing(table[t].sid) =>
         table[t].checked <= ended[table[t].sid] \/ table[t].checked <= table[t].expires - SESSION_TTL

\* What a request knows of its session is still so.
CallHolds(call) ==
  /\ call.token <= made.tokens /\ call.now <= sessionsClock
  /\ call.ended => call.token \in loggedOut /\ call.step \in {"read", "refused"}
  /\ call.late => call.step \in {"read", "check", "answered", "let in", "refused"}
  /\ call.late /\ call.token \in Sessions!Stored => Sessions!LongEnded(call.token)
  /\ call.step \in {"replace", "login", "check", "answered"} => call.sid \in Sids
  /\ call.step \in {"check", "answered"} /\ call.token \in Sessions!Stored => table[call.token].sid = call.sid
  /\ call.late /\ call.step \in {"check", "answered"} => ~Sessions!Standing(call.sid)
  /\ call.step = "answered" /\ call.active => ~call.late /\ (~Sessions!Standing(call.sid) => call.now <= ended[call.sid])
  /\ call.step = "let in" /\ call.late => ~call.sure

CallsHold == \A c \in Calls : CallHolds(sessionsCalls[c])

SignInInv == SignInTypes /\ StaysOut /\ CheckedBefore /\ CallsHold

----------------------------------------------------------------------------
(* What may happen meanwhile: time passes, sessions go or are made anew,    *)
(* and sign-ins are ended.                                                  *)

Onward ==
  /\ made.tokens <= made'.tokens /\ sessionsClock <= sessionsClock' /\ loggedOut \subseteq loggedOut'
  /\ \A s \in Sids : ended'[s] = ended[s] \/ (ended[s] = -1 /\ ended'[s] = sessionsClock)
  /\ \A t \in Sessions!Stored' : t <= made.tokens =>
       t \in Sessions!Stored /\ table'[t].sid = table[t].sid /\ table'[t].expires = table[t].expires

LEMMA CallStays ==
  ASSUME Sessions!SignInAssumption, SignInTypes, SignInTypes', Onward, NEW call \in SessionsCallRecords, CallHolds(call)
  PROVE  CallHolds(call)'
<1>1. /\ call.token \in Nat /\ call.now \in Nat /\ sessionsClock \in Nat /\ sessionsClock' \in Nat /\ made.tokens \in Nat /\ made'.tokens \in Nat
      /\ \A s \in Sids : ended[s] \in Nat \cup {-1}
      /\ \A t \in Sessions!Stored : table[t].sid \in Sids /\ table[t].expires \in Int
  BY DEF SignInTypes, SessionsCallRecords, Rows
<1>2. call.token <= made'.tokens /\ call.now <= sessionsClock' /\ (call.ended => call.token \in loggedOut' /\ call.step \in {"read", "refused"})
  <2>1. /\ call.token <= made.tokens /\ made.tokens <= made'.tokens /\ call.now <= sessionsClock /\ sessionsClock <= sessionsClock'
        /\ loggedOut \subseteq loggedOut'
    BY DEF CallHolds, Onward
  <2>2. call.token <= made'.tokens /\ call.now <= sessionsClock'
    BY <1>1, <2>1
  <2>3. QED BY <2>1, <2>2 DEF CallHolds
<1>3. \A s \in Sids : ~Sessions!Standing(s) => ~Sessions!Standing(s)' /\ ended'[s] = ended[s]
  BY <1>1 DEF Sessions!Standing, Onward
<1>4. ASSUME call.late, call.token \in Sessions!Stored' PROVE Sessions!LongEnded(call.token)'
  <2>1. /\ call.token \in Sessions!Stored /\ table'[call.token].sid = table[call.token].sid
        /\ table'[call.token].expires = table[call.token].expires
    BY <1>4 DEF CallHolds, Onward
  <2>2. Sessions!LongEnded(call.token)
    BY <1>4, <2>1 DEF CallHolds
  <2>3. table[call.token].sid \in Sids
    BY <1>1, <2>1
  <2>4. ~Sessions!Standing(table[call.token].sid)
    BY <2>2 DEF Sessions!LongEnded
  <2>5. ended'[table[call.token].sid] = ended[table[call.token].sid] /\ ended[table[call.token].sid] # -1
    BY <1>3, <2>3, <2>4 DEF Sessions!Standing
  <2>6. sessionsClock' >= ended[table[call.token].sid] + CHECK /\ sessionsClock' >= table[call.token].expires - SESSION_TTL + CHECK
    BY <1>1, <2>1, <2>2, <2>3 DEF Sessions!LongEnded, Onward, Sessions!SignInAssumption
  <2>7. QED BY <1>4, <2>1, <2>5, <2>6 DEF Sessions!LongEnded, Sessions!Standing
<1>5. ASSUME call.step \in {"check", "answered"}, call.token \in Sessions!Stored' PROVE table'[call.token].sid = call.sid
  <2>1. call.token <= made.tokens
    BY DEF CallHolds
  <2>2. call.token \in Sessions!Stored /\ table'[call.token].sid = table[call.token].sid
    BY <1>5, <2>1 DEF Onward
  <2>3. QED BY <1>5, <2>2 DEF CallHolds
<1>6. call.late /\ call.step \in {"check", "answered"} => ~Sessions!Standing(call.sid)'
  BY <1>3 DEF CallHolds
<1>7. ASSUME call.step = "answered", call.active PROVE ~call.late /\ (~Sessions!Standing(call.sid)' => call.now <= ended'[call.sid])
  <2>1. call.sid \in Sids /\ ~call.late /\ (~Sessions!Standing(call.sid) => call.now <= ended[call.sid]) /\ call.now <= sessionsClock
    BY <1>7 DEF CallHolds
  <2>2. ended'[call.sid] = ended[call.sid] \/ (ended[call.sid] = -1 /\ ended'[call.sid] = sessionsClock)
    BY <2>1 DEF Onward
  <2>3. QED BY <1>1, <2>1, <2>2 DEF Sessions!Standing
<1>8. QED BY <1>2, <1>4, <1>5, <1>6, <1>7 DEF CallHolds

\* A step of one call, whose record holds after it.
LEMMA SessionsOneCall ==
  ASSUME Sessions!SignInAssumption, SignInInv, SignInTypes', Onward, NEW c \in Calls, NEW r \in SessionsCallRecords,
         sessionsCalls' = [sessionsCalls EXCEPT ![c] = r], CallHolds(r)', StaysOut', CheckedBefore'
  PROVE  SignInInv'
<1>1. sessionsCalls'[c] = r /\ \A d \in Calls : d # c => sessionsCalls'[d] = sessionsCalls[d]
  BY DEF SignInInv, SignInTypes
<1>2. ASSUME NEW d \in Calls PROVE CallHolds(sessionsCalls[d])'
  <2>1. CASE d = c
    <3>1. sessionsCalls'[d] = r
      BY <1>1, <2>1
    <3>2. QED BY <3>1 DEF CallHolds
  <2>2. CASE d # c
    <3>1. PICK call \in SessionsCallRecords : call = sessionsCalls[d] /\ CallHolds(call)
      BY DEF SignInInv, SignInTypes, CallsHold
    <3>2. CallHolds(call)'
      BY <3>1, CallStays DEF SignInInv
    <3>3. sessionsCalls'[d] = call
      BY <1>1, <2>2, <3>1
    <3>4. QED BY <3>2, <3>3 DEF CallHolds
  <2>3. QED BY <2>1, <2>2
<1>3. QED BY <1>2 DEF SignInInv, CallsHold

\* A step of no call.
LEMMA SessionsNoCall ==
  ASSUME Sessions!SignInAssumption, SignInInv, SignInTypes', Onward, sessionsCalls' = sessionsCalls, StaysOut', CheckedBefore'
  PROVE  SignInInv'
<1>1. ASSUME NEW d \in Calls PROVE CallHolds(sessionsCalls[d])'
  <2>1. PICK call \in SessionsCallRecords : call = sessionsCalls[d] /\ CallHolds(call)
    BY DEF SignInInv, SignInTypes, CallsHold
  <2>2. CallHolds(call)'
    BY <2>1, CallStays DEF SignInInv
  <2>3. sessionsCalls'[d] = call
    BY <2>1
  <2>4. QED BY <2>2, <2>3 DEF CallHolds
<1>2. QED BY <1>1 DEF SignInInv, CallsHold

\* Nothing changes but what a call is at: what it knew it still knows.
LEMMA Going ==
  ASSUME Sessions!SignInAssumption, SignInInv, NEW c \in Calls, NEW r \in SessionsCallRecords, Sessions!Goes(c, r), CallHolds(r),
         UNCHANGED <<table, cookie, ended, sessionsClock, loggedOut>>, made'.tokens = made.tokens,
         made' \in [tokens : Nat, signIns : Int]
  PROVE  SignInInv'
<1>1. sessionsCalls' = [sessionsCalls EXCEPT ![c] = r]
  BY DEF Sessions!Goes
<1>2. SignInTypes'
  BY <1>1 DEF SignInInv, SignInTypes, Sessions!Stored
<1>3. Onward
  BY DEF Onward, SignInInv, SignInTypes, Sessions!Stored
<1>4. CallHolds(r)'
  BY <1>2, <1>3, CallStays DEF SignInInv
<1>5. StaysOut' /\ CheckedBefore'
  BY DEF SignInInv, StaysOut, CheckedBefore, Sessions!Standing, Sessions!Stored
<1>6. QED BY <1>1, <1>2, <1>3, <1>4, <1>5, SessionsOneCall

LEMMA SessionsBeginning ==
  ASSUME SignInTypes
  PROVE  /\ Sessions!Idle \in SessionsCallRecords /\ CallHolds(Sessions!Idle)
         /\ \A step \in {"redeem", "read"}, token \in 0..made.tokens :
              /\ [Sessions!Idle EXCEPT !.step = step, !.token = token] \in SessionsCallRecords
              /\ step = "redeem" => CallHolds([Sessions!Idle EXCEPT !.step = step, !.token = token])
<1>1. made.tokens \in Nat /\ sessionsClock \in Nat
  BY DEF SignInTypes
<1>2. Sessions!Idle \in SessionsCallRecords
  BY DEF Sessions!Idle, SessionsCallRecords
<1>3. CallHolds(Sessions!Idle)
  BY <1>1 DEF Sessions!Idle, CallHolds
<1>4. ASSUME NEW step \in {"redeem", "read"}, NEW token \in 0..made.tokens
      PROVE  /\ [Sessions!Idle EXCEPT !.step = step, !.token = token] \in SessionsCallRecords
             /\ step = "redeem" => CallHolds([Sessions!Idle EXCEPT !.step = step, !.token = token])
  <2>1. PICK r : r = [Sessions!Idle EXCEPT !.step = step, !.token = token]
    OBVIOUS
  <2>2. r = [step |-> step, token |-> token, sid |-> 0, now |-> 0, active |-> FALSE, ended |-> FALSE, late |-> FALSE, sure |-> TRUE]
    BY <2>1 DEF Sessions!Idle
  <2>3. token \in Nat
    BY <1>1
  <2>4. r \in SessionsCallRecords
    BY <2>2, <2>3 DEF SessionsCallRecords
  <2>5. step = "redeem" => CallHolds(r)
    BY <1>1, <2>2 DEF CallHolds
  <2>6. QED BY <2>1, <2>4, <2>5
<1>5. QED BY <1>2, <1>3, <1>4

----------------------------------------------------------------------------
(* Each step keeps the invariant.                                           *)

LEMMA QuietCallsInv ==
  ASSUME Sessions!SignInAssumption, SignInInv, NEW c \in Calls, Sessions!Callback(c) \/ Sessions!CodeLogin(c) \/ Sessions!Redeem(c) \/ Sessions!Done(c)
  PROVE  SignInInv'
<1>1. /\ UNCHANGED <<table, cookie, ended, sessionsClock, loggedOut>> /\ made \in [tokens : Nat, signIns : Int]
      /\ SignInTypes /\ sessionsCalls[c] \in SessionsCallRecords /\ CallHolds(sessionsCalls[c]) /\ cookie \in 0..made.tokens
  BY DEF Sessions!Callback, Sessions!CodeLogin, Sessions!Redeem, Sessions!Done, SignInInv, SignInTypes, CallsHold
<1>2. made'.tokens = made.tokens /\ made' \in [tokens : Nat, signIns : Int]
  <2>1. made' = made \/ made' = [made EXCEPT !.signIns = @ + 1]
    BY DEF Sessions!Callback, Sessions!CodeLogin, Sessions!Redeem, Sessions!Done
  <2>2. CASE made' = made
    BY <1>1, <2>2
  <2>3. CASE made' = [made EXCEPT !.signIns = @ + 1]
    BY <1>1, <2>3
  <2>4. QED BY <2>1, <2>2, <2>3
<1>3. Sessions!Idle \in SessionsCallRecords /\ CallHolds(Sessions!Idle)
  BY <1>1, SessionsBeginning
<1>4. CASE UNCHANGED sessionsCalls
  <2>1. SignInTypes' /\ Onward /\ StaysOut' /\ CheckedBefore'
    BY <1>1, <1>2, <1>4 DEF SignInInv, SignInTypes, Sessions!Stored, Onward, StaysOut, CheckedBefore, Sessions!Standing
  <2>2. QED BY <1>4, <2>1, SessionsNoCall
<1>5. CASE Sessions!Goes(c, Sessions!Idle)
  BY <1>1, <1>2, <1>3, <1>5, Going
<1>6. CASE \E token \in {0, cookie} : Sessions!Goes(c, [Sessions!Idle EXCEPT !.step = "redeem", !.token = token])
  <2>1. PICK token \in {0, cookie} : Sessions!Goes(c, [Sessions!Idle EXCEPT !.step = "redeem", !.token = token])
    BY <1>6
  <2>0. token \in 0..made.tokens
    BY <1>1
  <2>2. PICK r : r = [Sessions!Idle EXCEPT !.step = "redeem", !.token = token]
    OBVIOUS
  <2>3. r \in SessionsCallRecords /\ CallHolds(r)
    BY <1>1, <2>0, <2>2, SessionsBeginning
  <2>4. Sessions!Goes(c, r)
    BY <2>1, <2>2
  <2>5. QED BY <1>1, <1>2, <2>3, <2>4, Going
<1>7. CASE sessionsCalls[c].step = "redeem" /\ \E sid \in Sids : Sessions!Standing(sid) /\ Sessions!Goes(c, [sessionsCalls[c] EXCEPT !.step = "replace", !.sid = sid])
  <2>1. PICK sid \in Sids : Sessions!Goes(c, [sessionsCalls[c] EXCEPT !.step = "replace", !.sid = sid])
    BY <1>7
  <2>2. PICK r : r = [sessionsCalls[c] EXCEPT !.step = "replace", !.sid = sid]
    OBVIOUS
  <2>3. r = [step |-> "replace", token |-> sessionsCalls[c].token, sid |-> sid, now |-> sessionsCalls[c].now, active |-> sessionsCalls[c].active,
             ended |-> sessionsCalls[c].ended, late |-> sessionsCalls[c].late, sure |-> sessionsCalls[c].sure]
    BY <1>1, <2>2, ZenonT(30) DEF SessionsCallRecords
  <2>4. r \in SessionsCallRecords
    BY <1>1, <2>3 DEF SessionsCallRecords
  <2>5. ~sessionsCalls[c].ended /\ ~sessionsCalls[c].late /\ sessionsCalls[c].token <= made.tokens /\ sessionsCalls[c].now <= sessionsClock
    BY <1>1, <1>7 DEF CallHolds
  <2>6. CallHolds(r)
    BY <2>3, <2>5 DEF CallHolds
  <2>7. Sessions!Goes(c, r)
    BY <2>1, <2>2
  <2>8. QED BY <1>1, <1>2, <2>4, <2>6, <2>7, Going
<1>8. QED BY <1>4, <1>5, <1>6, <1>7 DEF Sessions!Callback, Sessions!CodeLogin, Sessions!Redeem, Sessions!Done

LEMMA SessionsAskInv == ASSUME Sessions!SignInAssumption, SignInInv, NEW c \in Calls, Sessions!Ask(c) PROVE SignInInv'
<1>1. /\ UNCHANGED <<table, cookie, pending, ended, sessionsClock, made, loggedOut>> /\ made \in [tokens : Nat, signIns : Int]
      /\ SignInTypes /\ cookie \in 0..made.tokens /\ cookie \in Nat
      /\ Sessions!Goes(c, [Sessions!Idle EXCEPT !.step = "read", !.token = cookie, !.ended = cookie \in loggedOut, !.late = Sessions!LongEnded(cookie)])
  BY DEF Sessions!Ask, SignInInv, SignInTypes
<1>2. PICK gone \in BOOLEAN : gone = (cookie \in loggedOut)
  <2>1. (cookie \in loggedOut) \in BOOLEAN
    OBVIOUS
  <2>2. QED BY <2>1, Zenon
<1>3. PICK late \in BOOLEAN : late = Sessions!LongEnded(cookie)
  BY DEF Sessions!LongEnded
<1>4. PICK r : r = [Sessions!Idle EXCEPT !.step = "read", !.token = cookie, !.ended = gone, !.late = late]
  OBVIOUS
<1>5. Sessions!Goes(c, r)
  BY <1>1, <1>2, <1>3, <1>4
<1>6. r = [step |-> "read", token |-> cookie, sid |-> 0, now |-> 0, active |-> FALSE, ended |-> gone, late |-> late, sure |-> TRUE]
  BY <1>4 DEF Sessions!Idle
<1>7. r \in SessionsCallRecords
  BY <1>1, <1>6 DEF SessionsCallRecords
<1>8. CallHolds(r)
  <2>1. cookie <= made.tokens /\ 0 <= sessionsClock
    BY <1>1 DEF SignInTypes
  <2>2. QED BY <1>2, <1>3, <1>6, <2>1 DEF CallHolds
<1>9. QED BY <1>1, <1>5, <1>7, <1>8, Going

\* A session is removed.
LEMMA RemovedOnward ==
  ASSUME SignInInv, NEW token, table' = Sessions!Removed(token), UNCHANGED <<ended, sessionsClock, made>>,
         loggedOut' = loggedOut \/ loggedOut' = loggedOut \cup ({token} \ {0}), token \in 0..made.tokens,
         cookie' \in {cookie, 0}, sessionsCalls' \in [Calls -> SessionsCallRecords]
  PROVE  SignInTypes' /\ Onward /\ StaysOut' /\ CheckedBefore' /\ token \notin Sessions!Stored'
<1>1. Sessions!Stored' = Sessions!Stored \ {token} /\ \A t \in Sessions!Stored' : table'[t] = table[t]
  BY DEF Sessions!Removed, Sessions!Stored
<1>2. SignInTypes'
  <2>1. cookie' \in 0..made.tokens /\ loggedOut' \subseteq 1..made.tokens
    <3>1. made.tokens \in Nat /\ cookie \in 0..made.tokens /\ loggedOut \subseteq 1..made.tokens
      BY DEF SignInInv, SignInTypes
    <3>2. \A t \in {token} \ {0} : t \in 1..made.tokens
      BY <3>1
    <3>3. loggedOut' \subseteq 1..made.tokens
      BY <3>1, <3>2
    <3>4. QED BY <3>1, <3>3
  <2>2. Sessions!Stored' \subseteq 1..made.tokens /\ \A t \in Sessions!Stored' : table'[t] \in Rows
    BY <1>1 DEF SignInInv, SignInTypes
  <2>3. QED BY <2>1, <2>2 DEF SignInInv, SignInTypes
<1>3. Onward
  BY <1>1 DEF Onward, SignInInv, SignInTypes
<1>4. StaysOut'
  BY <1>1 DEF SignInInv, StaysOut
<1>5. CheckedBefore'
  BY <1>1 DEF SignInInv, CheckedBefore, Sessions!Standing
<1>6. QED BY <1>1, <1>2, <1>3, <1>4, <1>5

LEMMA ReplaceInv == ASSUME Sessions!SignInAssumption, SignInInv, NEW c \in Calls, Sessions!Replace(c) PROVE SignInInv'
<1>1. /\ sessionsCalls[c].step = "replace" /\ table' = Sessions!Removed(sessionsCalls[c].token) /\ loggedOut' = loggedOut \cup ({sessionsCalls[c].token} \ {0})
      /\ Sessions!Goes(c, [sessionsCalls[c] EXCEPT !.step = "login"]) /\ UNCHANGED <<cookie, ended, sessionsClock, made>>
  BY DEF Sessions!Replace, Sessions!To
<1>2. /\ sessionsCalls[c] \in SessionsCallRecords /\ CallHolds(sessionsCalls[c]) /\ made.tokens \in Nat /\ sessionsClock \in Nat
      /\ sessionsCalls \in [Calls -> SessionsCallRecords] /\ SignInTypes
  BY DEF SignInInv, SignInTypes, CallsHold
<1>3. PICK r : r = [sessionsCalls[c] EXCEPT !.step = "login"]
  OBVIOUS
<1>4. r = [step |-> "login", token |-> sessionsCalls[c].token, sid |-> sessionsCalls[c].sid, now |-> sessionsCalls[c].now, active |-> sessionsCalls[c].active,
           ended |-> sessionsCalls[c].ended, late |-> sessionsCalls[c].late, sure |-> sessionsCalls[c].sure]
  BY <1>2, <1>3, ZenonT(30) DEF SessionsCallRecords
<1>5. r \in SessionsCallRecords
  BY <1>2, <1>4 DEF SessionsCallRecords
<1>6. ~sessionsCalls[c].ended /\ ~sessionsCalls[c].late /\ sessionsCalls[c].token <= made.tokens /\ sessionsCalls[c].now <= sessionsClock /\ sessionsCalls[c].sid \in Sids
  BY <1>1, <1>2 DEF CallHolds
<1>7. CallHolds(r)
  BY <1>4, <1>6 DEF CallHolds
<1>8. sessionsCalls' = [sessionsCalls EXCEPT ![c] = r]
  BY <1>1, <1>3 DEF Sessions!Goes
<1>9. PICK token \in 0..made.tokens : token = sessionsCalls[c].token
  <2>1. sessionsCalls[c].token \in Nat
    BY <1>2 DEF SessionsCallRecords
  <2>2. sessionsCalls[c].token \in 0..made.tokens
    BY <1>2, <1>6, <2>1
  <2>3. QED BY <2>2
<1>10. SignInTypes' /\ Onward /\ StaysOut' /\ CheckedBefore'
  <2>1. sessionsCalls' \in [Calls -> SessionsCallRecords]
    BY <1>2, <1>5, <1>8
  <2>2. table' = Sessions!Removed(token) /\ loggedOut' = loggedOut \cup ({token} \ {0}) /\ cookie' \in {cookie, 0}
    BY <1>1, <1>9
  <2>3. QED BY <1>1, <2>1, <2>2, RemovedOnward
<1>11. CallHolds(r)'
  BY <1>2, <1>5, <1>7, <1>10, CallStays
<1>12. QED BY <1>5, <1>8, <1>10, <1>11, SessionsOneCall

LEMMA LogoutInv == ASSUME Sessions!SignInAssumption, SignInInv, Sessions!Logout PROVE SignInInv'
<1>1. /\ table' = Sessions!Removed(cookie) /\ loggedOut' = loggedOut \cup {cookie} /\ cookie # 0 /\ cookie' = 0
      /\ UNCHANGED <<sessionsCalls, ended, sessionsClock, made>>
  BY DEF Sessions!Logout
<1>2. cookie \in 0..made.tokens /\ sessionsCalls' \in [Calls -> SessionsCallRecords]
  BY <1>1 DEF SignInInv, SignInTypes
<1>3. loggedOut' = loggedOut \cup ({cookie} \ {0}) /\ cookie' \in {cookie, 0}
  BY <1>1
<1>4. SignInTypes' /\ Onward /\ StaysOut' /\ CheckedBefore'
  BY <1>1, <1>2, <1>3, RemovedOnward
<1>5. QED BY <1>1, <1>4, SessionsNoCall

LEMMA LoginInv == ASSUME Sessions!SignInAssumption, SignInInv, NEW c \in Calls, Sessions!Login(c) PROVE SignInInv'
<1> DEFINE token == made.tokens + 1
           row   == [sid |-> sessionsCalls[c].sid, expires |-> sessionsClock + SESSION_TTL, checked |-> sessionsClock]
           kept  == {u \in Sessions!Stored : table[u].expires > sessionsClock}
<1>1. /\ sessionsCalls[c].step = "login" /\ made' = [made EXCEPT !.tokens = token] /\ cookie' = token
      /\ table' = [t \in DOMAIN [t \in kept |-> table[t]] \cup {token} |-> IF t = token THEN row ELSE [u \in kept |-> table[u]][t]]
      /\ Sessions!Goes(c, Sessions!Idle) /\ UNCHANGED <<ended, sessionsClock, loggedOut>>
  BY DEF Sessions!Login
<1>2. /\ sessionsCalls[c] \in SessionsCallRecords /\ CallHolds(sessionsCalls[c]) /\ made \in [tokens : Nat, signIns : Int] /\ made.tokens \in Nat
      /\ sessionsClock \in Nat /\ sessionsCalls \in [Calls -> SessionsCallRecords] /\ SignInTypes /\ Sessions!Stored \subseteq 1..made.tokens
      /\ \A t \in Sessions!Stored : table[t] \in Rows
  BY DEF SignInInv, SignInTypes, CallsHold
<1>3. sessionsCalls[c].sid \in Sids
  BY <1>1, <1>2 DEF CallHolds
<1>4. row \in Rows /\ row.checked = sessionsClock /\ row.checked <= row.expires - SESSION_TTL
  <2>1. sessionsClock + SESSION_TTL \in Int
    BY <1>2 DEF Sessions!SignInAssumption
  <2>2. row \in Rows
    BY <1>2, <1>3, <2>1 DEF Rows
  <2>3. row.checked <= row.expires - SESSION_TTL
    BY <1>2 DEF Sessions!SignInAssumption
  <2>4. QED BY <2>2, <2>3
<1>5. Sessions!Stored' = kept \cup {token} /\ \A t \in Sessions!Stored' : table'[t] = IF t = token THEN row ELSE table[t]
  BY <1>1 DEF Sessions!Stored
<1>6. made' \in [tokens : Nat, signIns : Int] /\ made'.tokens = token /\ token \in Nat
  BY <1>1, <1>2
<1>7. \A t \in Sessions!Stored : t # token /\ t \in 1..token
  BY <1>2
<1>8. sessionsCalls' = [sessionsCalls EXCEPT ![c] = Sessions!Idle] /\ Sessions!Idle \in SessionsCallRecords /\ CallHolds(Sessions!Idle)
  BY <1>1, <1>2, SessionsBeginning DEF Sessions!Goes
<1>9. SignInTypes'
  <2>1. Sessions!Stored' \subseteq 1..token /\ \A t \in Sessions!Stored' : table'[t] \in Rows
    <3>1. SUFFICES ASSUME NEW t \in Sessions!Stored' PROVE t \in 1..token /\ table'[t] \in Rows
      OBVIOUS
    <3>2. CASE t = token
      BY <1>2, <1>4, <1>5, <3>2
    <3>3. CASE t # token
      <4>1. t \in Sessions!Stored /\ table'[t] = table[t]
        BY <1>5, <3>3
      <4>2. QED BY <1>2, <1>7, <4>1
    <3>4. QED BY <3>2, <3>3
  <2>2. cookie' \in 0..token
    BY <1>1, <1>2
  <2>3. loggedOut' \subseteq 1..token
    BY <1>1, <1>2 DEF SignInTypes
  <2>4. sessionsCalls' \in [Calls -> SessionsCallRecords]
    BY <1>2, <1>8
  <2>5. QED BY <1>1, <1>2, <1>6, <2>1, <2>2, <2>3, <2>4 DEF SignInTypes
<1>10. Onward
  <2>1. \A t \in Sessions!Stored' : t <= made.tokens => t \in kept /\ table'[t] = table[t]
    BY <1>2, <1>5
  <2>2. \A s \in Sids : ended'[s] = ended[s]
    BY <1>1
  <2>3. made.tokens <= made'.tokens /\ sessionsClock <= sessionsClock' /\ loggedOut \subseteq loggedOut'
    BY <1>1, <1>2, <1>6
  <2>4. QED BY <2>1, <2>2, <2>3 DEF Onward
<1>11. StaysOut'
  BY <1>1, <1>2, <1>5 DEF SignInInv, SignInTypes, StaysOut
<1>12. CheckedBefore'
  <2>1. SUFFICES ASSUME NEW t \in Sessions!Stored'
                 PROVE  /\ table'[t].checked <= sessionsClock
                        /\ ~Sessions!Standing(table'[t].sid) =>
                             table'[t].checked <= ended[table'[t].sid] \/ table'[t].checked <= table'[t].expires - SESSION_TTL
    BY <1>1 DEF CheckedBefore, Sessions!Standing
  <2>2. CASE t = token
    <3>1. table'[t] = row
      BY <1>5, <2>2
    <3>2. QED BY <1>2, <1>4, <3>1
  <2>3. CASE t # token
    <3>1. t \in Sessions!Stored /\ table'[t] = table[t]
      BY <1>5, <2>3
    <3>2. QED BY <3>1 DEF SignInInv, CheckedBefore
  <2>4. QED BY <2>2, <2>3
<1>13. CallHolds(Sessions!Idle)'
  BY <1>2, <1>8, <1>9, <1>10, CallStays
<1>14. QED BY <1>8, <1>9, <1>10, <1>11, <1>12, <1>13, SessionsOneCall

LEMMA TimeInv == ASSUME Sessions!SignInAssumption, SignInInv, Sessions!SignOutEverywhere \/ Sessions!Tick \/ Sessions!StartSignIn PROVE SignInInv'
<1>1. UNCHANGED <<table, cookie, sessionsCalls, loggedOut>> /\ SignInTypes /\ made \in [tokens : Nat, signIns : Int] /\ sessionsClock \in Nat
  BY DEF Sessions!SignOutEverywhere, Sessions!Tick, Sessions!StartSignIn, SignInInv, SignInTypes
<1>2. made' \in [tokens : Nat, signIns : Int] /\ made'.tokens = made.tokens
  <2>1. made' = made \/ made' = [made EXCEPT !.signIns = @ + 1]
    BY DEF Sessions!SignOutEverywhere, Sessions!Tick, Sessions!StartSignIn
  <2>2. CASE made' = made
    BY <1>1, <2>2
  <2>3. CASE made' = [made EXCEPT !.signIns = @ + 1]
    BY <1>1, <2>3
  <2>4. QED BY <2>1, <2>2, <2>3
<1>3. sessionsClock' \in Nat /\ sessionsClock <= sessionsClock'
  <2>1. sessionsClock' = sessionsClock \/ sessionsClock' = sessionsClock + 1
    BY DEF Sessions!SignOutEverywhere, Sessions!Tick, Sessions!StartSignIn
  <2>2. QED BY <1>1, <2>1
<1>4. /\ ended' \in [Sids -> Nat \cup {-1}]
      /\ \A s \in Sids : ended'[s] = ended[s] \/ (ended[s] = -1 /\ ended'[s] = sessionsClock)
  BY <1>1 DEF Sessions!SignOutEverywhere, Sessions!Tick, Sessions!StartSignIn, SignInTypes, Sessions!Standing
<1>5. SignInTypes' /\ Onward
  BY <1>1, <1>2, <1>3, <1>4 DEF SignInTypes, Onward, Sessions!Stored
<1>6. StaysOut'
  BY <1>1 DEF SignInInv, StaysOut, Sessions!Stored
<1>7. CheckedBefore'
  <2>1. SUFFICES ASSUME NEW t \in Sessions!Stored
                 PROVE  /\ table[t].checked <= sessionsClock'
                        /\ ~Sessions!Standing(table[t].sid)' =>
                             table[t].checked <= ended'[table[t].sid] \/ table[t].checked <= table[t].expires - SESSION_TTL
    BY <1>1 DEF CheckedBefore, Sessions!Stored, Sessions!Standing
  <2>2. /\ table[t].checked <= sessionsClock /\ table[t].checked \in Nat /\ table[t].sid \in Sids
        /\ ~Sessions!Standing(table[t].sid) =>
             table[t].checked <= ended[table[t].sid] \/ table[t].checked <= table[t].expires - SESSION_TTL
    BY DEF SignInInv, CheckedBefore, SignInTypes, Rows
  <2>3. QED BY <1>1, <1>3, <1>4, <2>2 DEF Sessions!Standing
<1>8. QED BY <1>1, <1>5, <1>6, <1>7, SessionsNoCall

\* A request's session is read: late, and there, it was checked too long ago.
LEMMA LateIsChecked ==
  ASSUME Sessions!SignInAssumption, SignInInv, NEW token \in Sessions!Stored, Sessions!LongEnded(token)
  PROVE  ~(sessionsClock - table[token].checked < CHECK) /\ ~Sessions!Standing(table[token].sid)
<1>1. /\ table[token].sid \in Sids /\ table[token].checked \in Nat /\ table[token].expires \in Int /\ sessionsClock \in Nat
      /\ ended[table[token].sid] \in Nat \cup {-1}
  BY DEF SignInInv, SignInTypes, Rows
<1>2. /\ ~Sessions!Standing(table[token].sid) /\ sessionsClock >= ended[table[token].sid] + CHECK
      /\ sessionsClock >= table[token].expires - SESSION_TTL + CHECK
  BY DEF Sessions!LongEnded
<1>3. table[token].checked <= ended[table[token].sid] \/ table[token].checked <= table[token].expires - SESSION_TTL
  BY <1>2 DEF SignInInv, CheckedBefore
<1>4. QED BY <1>1, <1>2, <1>3 DEF Sessions!SignInAssumption

LEMMA ReadInv == ASSUME Sessions!SignInAssumption, SignInInv, NEW c \in Calls, Sessions!Read(c) PROVE SignInInv'
<1>1. sessionsCalls[c].step = "read" /\ UNCHANGED <<cookie, ended, sessionsClock, made, loggedOut>>
  BY DEF Sessions!Read
<1>2. /\ sessionsCalls[c] \in SessionsCallRecords /\ CallHolds(sessionsCalls[c]) /\ made.tokens \in Nat /\ sessionsClock \in Nat
      /\ sessionsCalls \in [Calls -> SessionsCallRecords] /\ SignInTypes /\ made \in [tokens : Nat, signIns : Int]
  BY DEF SignInInv, SignInTypes, CallsHold
<1>3. PICK token \in 0..made.tokens : token = sessionsCalls[c].token
  <2>1. sessionsCalls[c].token \in Nat /\ sessionsCalls[c].token <= made.tokens
    BY <1>2 DEF SessionsCallRecords, CallHolds
  <2>2. sessionsCalls[c].token \in 0..made.tokens
    BY <1>2, <2>1
  <2>3. QED BY <2>2
<1>4. PICK r : r = [sessionsCalls[c] EXCEPT !.step = "refused"]
  OBVIOUS
<1>5. r = [step |-> "refused", token |-> sessionsCalls[c].token, sid |-> sessionsCalls[c].sid, now |-> sessionsCalls[c].now, active |-> sessionsCalls[c].active,
           ended |-> sessionsCalls[c].ended, late |-> sessionsCalls[c].late, sure |-> sessionsCalls[c].sure]
  BY <1>2, <1>4, ZenonT(30) DEF SessionsCallRecords
<1>6. r \in SessionsCallRecords
  BY <1>2, <1>5 DEF SessionsCallRecords
<1>7. CallHolds(r)
  BY <1>1, <1>2, <1>5 DEF CallHolds
<1>8. CASE token \notin Sessions!Stored
  <2>1. Sessions!Goes(c, r) /\ table' = table
    BY <1>3, <1>4, <1>8 DEF Sessions!Read, Sessions!To
  <2>2. QED BY <1>1, <1>2, <1>6, <1>7, <2>1, Going
<1>9. CASE token \in Sessions!Stored /\ sessionsClock >= table[token].expires
  <2>1. sessionsCalls' = [sessionsCalls EXCEPT ![c] = r] /\ table' = Sessions!Removed(token)
    BY <1>3, <1>4, <1>9 DEF Sessions!Read, Sessions!To, Sessions!Goes
  <2>2. sessionsCalls' \in [Calls -> SessionsCallRecords]
    BY <1>2, <1>6, <2>1
  <2>3. SignInTypes' /\ Onward /\ StaysOut' /\ CheckedBefore'
    BY <1>1, <2>1, <2>2, RemovedOnward
  <2>4. CallHolds(r)'
    BY <1>2, <1>6, <1>7, <2>3, CallStays
  <2>5. QED BY <1>6, <2>1, <2>3, <2>4, SessionsOneCall
<1>10. CASE token \in Sessions!Stored /\ ~(sessionsClock >= table[token].expires)
  <2>1. PICK step : step \in {"let in", "check"} /\ step = IF sessionsClock - table[token].checked < CHECK THEN "let in" ELSE "check"
    OBVIOUS
  <2>2. PICK s : s = [sessionsCalls[c] EXCEPT !.step = step, !.sid = table[token].sid, !.now = sessionsClock]
    OBVIOUS
  <2>3. Sessions!Goes(c, s) /\ table' = table
    BY <1>3, <1>10, <2>1, <2>2 DEF Sessions!Read
  <2>4. s = [step |-> step, token |-> sessionsCalls[c].token, sid |-> table[token].sid, now |-> sessionsClock, active |-> sessionsCalls[c].active,
             ended |-> sessionsCalls[c].ended, late |-> sessionsCalls[c].late, sure |-> sessionsCalls[c].sure]
    BY <1>2, <2>2, ZenonT(30) DEF SessionsCallRecords
  <2>5. table[token].sid \in Sids
    BY <1>2, <1>10 DEF SignInTypes, Rows
  <2>6. s \in SessionsCallRecords
    <3>1. step \in {"let in", "check"}
      BY <2>1
    <3>2. QED BY <1>2, <2>4, <2>5, <3>1, ZenonT(30) DEF SessionsCallRecords
  <2>7. ~sessionsCalls[c].ended
    BY <1>2, <1>3, <1>10 DEF CallHolds, SignInInv, StaysOut
  <2>8. sessionsCalls[c].late => Sessions!LongEnded(token) /\ step = "check" /\ ~Sessions!Standing(table[token].sid)
    <3>1. sessionsCalls[c].late => Sessions!LongEnded(token)
      BY <1>2, <1>3, <1>10 DEF CallHolds
    <3>2. QED BY <1>10, <2>1, <3>1, LateIsChecked
  <2>9. sessionsCalls[c].token <= made.tokens
    BY <1>2 DEF CallHolds
  <2>10. CallHolds(s)
    <3>1. /\ s.token = token /\ s.sid = table[token].sid /\ s.now = sessionsClock /\ s.ended = sessionsCalls[c].ended /\ s.late = sessionsCalls[c].late
          /\ s.step = step
      BY <1>3, <2>4
    <3>2. s.late => Sessions!LongEnded(s.token)
      BY <2>8, <3>1
    <3>3. s.late /\ s.step \in {"check", "answered"} => ~Sessions!Standing(s.sid)
      BY <2>8, <3>1
    <3>4. s.step = "let in" /\ s.late => ~s.sure
      BY <2>1, <2>8, <3>1
    <3>5. s.token <= made.tokens /\ s.now <= sessionsClock /\ ~s.ended
      <4>1. s.token <= made.tokens
        BY <1>3, <2>9, <3>1
      <4>2. s.now <= sessionsClock
        BY <1>2, <3>1
      <4>3. QED BY <2>7, <3>1, <4>1, <4>2
    <3>6. QED BY <2>1, <2>5, <3>1, <3>2, <3>3, <3>4, <3>5 DEF CallHolds
  <2>11. QED BY <1>1, <1>2, <2>3, <2>6, <2>10, Going
<1>11. QED BY <1>8, <1>9, <1>10

LEMMA CheckInv == ASSUME Sessions!SignInAssumption, SignInInv, NEW c \in Calls, Sessions!Check(c) PROVE SignInInv'
<1>1. sessionsCalls[c].step = "check" /\ UNCHANGED <<table, cookie, ended, sessionsClock, made, loggedOut>>
  BY DEF Sessions!Check
<1>2. /\ sessionsCalls[c] \in SessionsCallRecords /\ CallHolds(sessionsCalls[c]) /\ made \in [tokens : Nat, signIns : Int]
  BY DEF SignInInv, SignInTypes, CallsHold
<1>3. CASE Sessions!Goes(c, [sessionsCalls[c] EXCEPT !.step = "answered", !.active = Sessions!Standing(sessionsCalls[c].sid)])
  <2>1. PICK active \in BOOLEAN : active = Sessions!Standing(sessionsCalls[c].sid)
    BY DEF Sessions!Standing
  <2>2. PICK r : r = [sessionsCalls[c] EXCEPT !.step = "answered", !.active = active]
    OBVIOUS
  <2>3. Sessions!Goes(c, r)
    BY <1>3, <2>1, <2>2
  <2>4. r = [step |-> "answered", token |-> sessionsCalls[c].token, sid |-> sessionsCalls[c].sid, now |-> sessionsCalls[c].now, active |-> active,
             ended |-> sessionsCalls[c].ended, late |-> sessionsCalls[c].late, sure |-> sessionsCalls[c].sure]
    BY <1>2, <2>2, ZenonT(30) DEF SessionsCallRecords
  <2>5. r \in SessionsCallRecords
    BY <1>2, <2>4 DEF SessionsCallRecords
  <2>6. CallHolds(r)
    BY <1>1, <1>2, <2>1, <2>4 DEF CallHolds
  <2>7. QED BY <1>1, <1>2, <2>3, <2>5, <2>6, Going
<1>4. CASE Sessions!Goes(c, [sessionsCalls[c] EXCEPT !.step = "let in", !.sure = FALSE])
  <2>1. PICK r : r = [sessionsCalls[c] EXCEPT !.step = "let in", !.sure = FALSE]
    OBVIOUS
  <2>2. Sessions!Goes(c, r)
    BY <1>4, <2>1
  <2>3. r = [step |-> "let in", token |-> sessionsCalls[c].token, sid |-> sessionsCalls[c].sid, now |-> sessionsCalls[c].now, active |-> sessionsCalls[c].active,
             ended |-> sessionsCalls[c].ended, late |-> sessionsCalls[c].late, sure |-> FALSE]
    BY <1>2, <2>1, ZenonT(30) DEF SessionsCallRecords
  <2>4. r \in SessionsCallRecords
    BY <1>2, <2>3 DEF SessionsCallRecords
  <2>5. CallHolds(r)
    BY <1>1, <1>2, <2>3 DEF CallHolds
  <2>6. QED BY <1>1, <1>2, <2>2, <2>4, <2>5, Going
<1>5. QED BY <1>3, <1>4 DEF Sessions!Check

LEMMA SessionsAnsweredInv == ASSUME Sessions!SignInAssumption, SignInInv, NEW c \in Calls, Sessions!Answered(c) PROVE SignInInv'
<1>1. sessionsCalls[c].step = "answered" /\ UNCHANGED <<cookie, ended, sessionsClock, made, loggedOut>>
  BY DEF Sessions!Answered
<1>2. /\ sessionsCalls[c] \in SessionsCallRecords /\ CallHolds(sessionsCalls[c]) /\ made.tokens \in Nat /\ sessionsClock \in Nat
      /\ sessionsCalls \in [Calls -> SessionsCallRecords] /\ SignInTypes
  BY DEF SignInInv, SignInTypes, CallsHold
<1>3. PICK token \in 0..made.tokens : token = sessionsCalls[c].token
  <2>1. sessionsCalls[c].token \in Nat /\ sessionsCalls[c].token <= made.tokens
    BY <1>2 DEF SessionsCallRecords, CallHolds
  <2>2. sessionsCalls[c].token \in 0..made.tokens
    BY <1>2, <2>1
  <2>3. QED BY <2>2
<1>4. CASE ~sessionsCalls[c].active
  <2>1. PICK r : r = [sessionsCalls[c] EXCEPT !.step = "refused"]
    OBVIOUS
  <2>2. r = [step |-> "refused", token |-> sessionsCalls[c].token, sid |-> sessionsCalls[c].sid, now |-> sessionsCalls[c].now, active |-> sessionsCalls[c].active,
             ended |-> sessionsCalls[c].ended, late |-> sessionsCalls[c].late, sure |-> sessionsCalls[c].sure]
    BY <1>2, <2>1, ZenonT(30) DEF SessionsCallRecords
  <2>3. r \in SessionsCallRecords
    BY <1>2, <2>2 DEF SessionsCallRecords
  <2>4. CallHolds(r)
    BY <1>1, <1>2, <2>2 DEF CallHolds
  <2>5. sessionsCalls' = [sessionsCalls EXCEPT ![c] = r] /\ table' = Sessions!Removed(token)
    BY <1>3, <1>4, <2>1 DEF Sessions!Answered, Sessions!To, Sessions!Goes
  <2>6. sessionsCalls' \in [Calls -> SessionsCallRecords]
    BY <1>2, <2>3, <2>5
  <2>7. SignInTypes' /\ Onward /\ StaysOut' /\ CheckedBefore'
    BY <1>1, <2>5, <2>6, RemovedOnward
  <2>8. CallHolds(r)'
    BY <1>2, <2>3, <2>4, <2>7, CallStays
  <2>9. QED BY <2>3, <2>5, <2>7, <2>8, SessionsOneCall
<1>5. CASE sessionsCalls[c].active
  <2>1. PICK r : r = [sessionsCalls[c] EXCEPT !.step = "let in"]
    OBVIOUS
  <2>2. r = [step |-> "let in", token |-> sessionsCalls[c].token, sid |-> sessionsCalls[c].sid, now |-> sessionsCalls[c].now, active |-> sessionsCalls[c].active,
             ended |-> sessionsCalls[c].ended, late |-> sessionsCalls[c].late, sure |-> sessionsCalls[c].sure]
    BY <1>2, <2>1, ZenonT(30) DEF SessionsCallRecords
  <2>3. r \in SessionsCallRecords
    BY <1>2, <2>2 DEF SessionsCallRecords
  <2>4. /\ ~sessionsCalls[c].late /\ ~sessionsCalls[c].ended /\ (~Sessions!Standing(sessionsCalls[c].sid) => sessionsCalls[c].now <= ended[sessionsCalls[c].sid])
        /\ (token \in Sessions!Stored => table[token].sid = sessionsCalls[c].sid) /\ sessionsCalls[c].now <= sessionsClock /\ sessionsCalls[c].token <= made.tokens
    BY <1>1, <1>2, <1>3, <1>5 DEF CallHolds
  <2>5. CallHolds(r)
    BY <2>2, <2>4 DEF CallHolds
  <2>6. PICK now \in Nat : now = sessionsCalls[c].now
    BY <1>2 DEF SessionsCallRecords
  <2>7. sessionsCalls' = [sessionsCalls EXCEPT ![c] = r]
    BY <1>5, <2>1 DEF Sessions!Answered, Sessions!To, Sessions!Goes
  <2>8. table' = [t \in Sessions!Stored |-> IF t = token THEN [table[t] EXCEPT !.checked = now] ELSE table[t]]
    BY <1>3, <1>5, <2>6 DEF Sessions!Answered, Sessions!CheckedAt
  <2>9. Sessions!Stored' = Sessions!Stored /\ \A t \in Sessions!Stored : table'[t] = IF t = token THEN [table[t] EXCEPT !.checked = now] ELSE table[t]
    BY <2>8 DEF Sessions!Stored
  <2>10. \A t \in Sessions!Stored :
           /\ table'[t] \in Rows /\ table'[t].sid = table[t].sid /\ table'[t].expires = table[t].expires
           /\ (IF t = token THEN table'[t].checked = now ELSE table'[t].checked = table[t].checked)
    BY <1>2, <2>9 DEF SignInTypes, Rows
  <2>11. SignInTypes'
    <3>1. sessionsCalls' \in [Calls -> SessionsCallRecords]
      BY <1>2, <2>3, <2>7
    <3>2. QED BY <1>1, <1>2, <2>9, <2>10, <3>1 DEF SignInTypes
  <2>12. Onward
    <3>1. \A s \in Sids : ended'[s] = ended[s]
      BY <1>1
    <3>2. QED BY <1>1, <1>2, <2>9, <2>10, <3>1 DEF Onward
  <2>13. StaysOut'
    BY <1>1, <2>9 DEF SignInInv, StaysOut
  <2>14. CheckedBefore'
    <3>1. SUFFICES ASSUME NEW t \in Sessions!Stored
                   PROVE  /\ table'[t].checked <= sessionsClock
                          /\ ~Sessions!Standing(table'[t].sid) =>
                               table'[t].checked <= ended[table'[t].sid] \/ table'[t].checked <= table'[t].expires - SESSION_TTL
      BY <1>1, <2>9 DEF CheckedBefore, Sessions!Standing
    <3>2. CASE t = token
      BY <2>4, <2>6, <2>10, <3>2
    <3>3. CASE t # token
      BY <2>10, <3>3 DEF SignInInv, CheckedBefore
    <3>4. QED BY <3>2, <3>3
  <2>15. CallHolds(r)'
    BY <1>2, <2>3, <2>5, <2>11, <2>12, CallStays
  <2>16. QED BY <2>3, <2>7, <2>11, <2>12, <2>13, <2>14, <2>15, SessionsOneCall
<1>6. QED BY <1>4, <1>5

LEMMA SessionsInitInv == ASSUME Sessions!SignInAssumption, Sessions!Init PROVE SignInInv
<1>1. /\ DOMAIN table = {} /\ cookie = 0 /\ sessionsClock = 0 /\ loggedOut = {} /\ made = [tokens |-> 0, signIns |-> 0]
      /\ ended \in [Sids -> Nat \cup {-1}] /\ sessionsCalls = [c \in Calls |-> Sessions!Idle]
  BY DEF Sessions!Init
<1>2. made \in [tokens : Nat, signIns : Int] /\ made.tokens = 0
  BY <1>1
<1>3. Sessions!Idle \in SessionsCallRecords
  BY DEF Sessions!Idle, SessionsCallRecords
<1>4. SignInTypes
  BY <1>1, <1>2, <1>3 DEF SignInTypes, Sessions!Stored
<1>5. CallHolds(Sessions!Idle)
  BY <1>4, SessionsBeginning
<1>6. CallsHold
  BY <1>1, <1>5 DEF CallsHold
<1>7. QED BY <1>1, <1>4, <1>6 DEF SignInInv, StaysOut, CheckedBefore, Sessions!Stored

LEMMA SessionsNextInv == ASSUME Sessions!SignInAssumption, SignInInv, Sessions!Next PROVE SignInInv'
<1>1. ASSUME NEW c \in Calls, Sessions!Callback(c) \/ Sessions!CodeLogin(c) \/ Sessions!Redeem(c) \/ Sessions!Done(c) PROVE SignInInv'
  BY <1>1, QuietCallsInv
<1>2. ASSUME NEW c \in Calls, Sessions!Replace(c) \/ Sessions!Login(c) \/ Sessions!Ask(c) PROVE SignInInv'
  BY <1>2, ReplaceInv, LoginInv, SessionsAskInv
<1>3. ASSUME NEW c \in Calls, Sessions!Read(c) \/ Sessions!Check(c) \/ Sessions!Answered(c) PROVE SignInInv'
  BY <1>3, ReadInv, CheckInv, SessionsAnsweredInv
<1>4. ASSUME Sessions!StartSignIn \/ Sessions!Logout \/ Sessions!SignOutEverywhere \/ Sessions!Tick PROVE SignInInv'
  BY <1>4, LogoutInv, TimeInv
<1>5. QED BY <1>1, <1>2, <1>3, <1>4 DEF Sessions!Next

LEMMA InvSignIn == ASSUME SignInInv PROVE Sessions!SignOutHolds
  BY DEF SignInInv, CallsHold, CallHolds, Sessions!SignOutHolds

LEMMA SessionsStepInv == ASSUME Sessions!SignInAssumption, SignInInv, [Sessions!Next]_(Sessions!signInVars) PROVE SignInInv'
<1>1. ASSUME SignInInv, UNCHANGED Sessions!signInVars PROVE SignInInv'
  <2>1. SignInTypes' /\ Onward /\ sessionsCalls' = sessionsCalls /\ StaysOut' /\ CheckedBefore'
    BY <1>1 DEF Sessions!signInVars, SignInInv, SignInTypes, Sessions!Stored, Onward, StaysOut, CheckedBefore, Sessions!Standing
  <2>2. QED BY <1>1, <2>1, SessionsNoCall
<1>2. QED BY <1>1, SessionsNextInv

\* However requests of a session, its logout, sign-ins that replace it and "sign out everywhere" interleave,
\* a request that begins after the logout is refused, and one that begins CHECK_S after the sign-in was ended
\* is let in only if vex-auth could not be reached (admin_auth.py, admin.py).
THEOREM SignedOutIsRefused == ASSUME Sessions!SignInAssumption PROVE Sessions!Spec => []Sessions!SignOutHolds
<1>1. SignInInv /\ [Sessions!Next]_(Sessions!signInVars) => SignInInv'
  BY SessionsStepInv
<1>2. Sessions!Init => SignInInv
  BY SessionsInitInv
<1>3. SignInInv => Sessions!SignOutHolds
  BY InvSignIn
<1>4. QED BY <1>1, <1>2, <1>3, PTL DEF Sessions!Spec

------------------------------------------------------------------------------
(* LoginLimit.                                                              *)

\* Failures are in the order of time, none of the future.
InOrder ==
  /\ failures \in Seq(Nat) /\ loginsClock \in Nat
  /\ \A i, k \in 1..Len(failures) : i <= k => failures[i] <= failures[k]
  /\ \A i \in 1..Len(failures) : failures[i] <= loginsClock

\* The failure the last refusal's wait was counted from: the attempts-th last, or it has left the window.
Counted(x) ==
  /\ x + window <= told /\ told - Second < x + window
  /\ \/ Len(failures) >= attempts /\ failures[(Len(failures) - attempts) + 1] = x
     \/ Len(failures) < attempts /\ Logins!Old(x)

LimitInv == InOrder /\ told \in Int /\ (told # -1 => \E x \in 0..loginsClock : Counted(x))

----------------------------------------------------------------------------
(* What is dropped: there is a first failure that is still in the window.    *)

Less == {m \in Nat \X Nat : m[1] < m[2]}

LEMMA Least == ASSUME NEW T \in SUBSET Nat, T # {} PROVE \E x \in T : \A y \in T : x <= y
<1>1. IsWellFoundedOn(Less, Nat)
  <2>1. Less = OpToRel(<, Nat)
    BY DEF Less, OpToRel
  <2>2. QED BY <2>1, NatLessThanWellFounded
<1>2. PICK x \in T : \A y \in T : <<y, x>> \notin Less
  BY <1>1, WFMin
<1>3. ASSUME NEW y \in T PROVE x <= y
  <2>1. <<y, x>> \in Nat \X Nat /\ <<y, x>>[1] = y /\ <<y, x>>[2] = x
    OBVIOUS
  <2>2. ~(y < x)
    BY <1>2, <2>1 DEF Less
  <2>3. QED BY <2>2
<1>4. QED BY <1>3

LEMMA DroppedIs == ASSUME Logins!LimitAssumption, InOrder PROVE Logins!Dropped \in 0..Len(failures) /\ Logins!DropsFirst(Logins!Dropped)
<1> DEFINE n == Len(failures)
           T == {k \in 0..n : k < n => ~Logins!Old(failures[k + 1])}
<1>1. n \in Nat /\ \A i \in 1..n : failures[i] \in Nat
  BY DEF InOrder
<1>2. n \in T /\ T \in SUBSET Nat
  BY <1>1
<1>3. PICK k \in T : \A y \in T : k <= y
  BY <1>2, Least
<1>4. k \in 0..n /\ (k < n => ~Logins!Old(failures[k + 1]))
  BY <1>3
<1>5. ASSUME NEW i \in 1..k PROVE Logins!Old(failures[i])
  <2>1. i - 1 \in 0..n /\ i - 1 < n /\ ~(k <= i - 1) /\ (i - 1) + 1 = i
    BY <1>1, <1>4
  <2>2. i - 1 \notin T
    BY <1>3, <2>1
  <2>3. QED BY <2>1, <2>2
<1>6. Logins!DropsFirst(k)
  BY <1>4, <1>5 DEF Logins!DropsFirst
<1>7. QED BY <1>4, <1>6 DEF Logins!Dropped

\* What is left is in the window, what was dropped is not.
LEMMA RecentIs ==
  ASSUME Logins!LimitAssumption, InOrder
  PROVE  /\ Logins!Dropped \in 0..Len(failures) /\ Logins!Recent \in Seq(Nat) /\ Len(Logins!Recent) = Len(failures) - Logins!Dropped
         /\ \A i \in 1..Logins!Dropped : Logins!Old(failures[i])
         /\ \A i \in (Logins!Dropped + 1)..Len(failures) : ~Logins!Old(failures[i])
         /\ \A i \in 1..Len(Logins!Recent) : Logins!Recent[i] = failures[i + Logins!Dropped] /\ i + Logins!Dropped \in 1..Len(failures)
<1>1. Len(failures) \in Nat /\ Logins!Dropped \in 0..Len(failures) /\ Logins!DropsFirst(Logins!Dropped)
  BY DroppedIs DEF InOrder
<1>2. \A i \in 1..Len(failures) : failures[i] \in Nat
  BY DEF InOrder
<1>3. Logins!Recent \in Seq(Nat) /\ Len(Logins!Recent) = Len(failures) - Logins!Dropped
  <2>1. Len(failures) - Logins!Dropped \in Nat /\ \A i \in 1..(Len(failures) - Logins!Dropped) : i + Logins!Dropped \in 1..Len(failures)
    BY <1>1
  <2>2. Logins!Recent \in [1..(Len(failures) - Logins!Dropped) -> Nat]
    BY <1>2, <2>1 DEF Logins!Recent
  <2>3. QED BY <2>1, <2>2
<1>4. \A i \in 1..Len(Logins!Recent) : Logins!Recent[i] = failures[i + Logins!Dropped] /\ i + Logins!Dropped \in 1..Len(failures)
  BY <1>1, <1>3 DEF Logins!Recent
<1>5. \A i \in 1..Logins!Dropped : Logins!Old(failures[i])
  BY <1>1 DEF Logins!DropsFirst
<1>6. ASSUME NEW i \in (Logins!Dropped + 1)..Len(failures) PROVE ~Logins!Old(failures[i])
  <2>1. Logins!Dropped + 1 \in 1..Len(failures) /\ i \in 1..Len(failures) /\ Logins!Dropped + 1 <= i
    BY <1>1
  <2>2. failures[Logins!Dropped + 1] <= failures[i] /\ ~Logins!Old(failures[Logins!Dropped + 1])
    BY <1>1, <2>1 DEF InOrder, Logins!DropsFirst
  <2>3. failures[Logins!Dropped + 1] \in Nat /\ failures[i] \in Nat /\ loginsClock \in Nat /\ window \in Nat
    BY <1>2, <2>1 DEF InOrder, Logins!LimitAssumption
  <2>4. QED BY <2>2, <2>3 DEF Logins!Old
<1>7. QED BY <1>1, <1>3, <1>4, <1>5, <1>6

\* The seconds are enough, and one less is not.
LEMMA SecondsAreEnough ==
  ASSUME Logins!LimitAssumption, NEW t \in Nat
  PROVE  Logins!WholeSeconds(t) \in Nat /\ Logins!WholeSeconds(t) >= Second /\ t <= Logins!WholeSeconds(t)
         /\ (t > 0 => Logins!WholeSeconds(t) - Second < t)
<1> DEFINE q == ((t + Second) - 1) \div Second
           up == q * Second
<1>1. Second \in Nat /\ Second > 0
  BY DEF Logins!LimitAssumption
<1>2. q \in Int /\ q * Second <= (t + Second) - 1 /\ (t + Second) - 1 < q * Second + Second
  BY <1>1
<1>3. up \in Int
  BY <1>1, <1>2
<1>4. Logins!WholeSeconds(t) = IF up < Second THEN Second ELSE up
  BY DEF Logins!WholeSeconds
<1> HIDE DEF up
<1>5. up <= (t + Second) - 1 /\ (t + Second) - 1 < up + Second
  BY <1>2 DEF up
<1>6. QED BY <1>1, <1>3, <1>4, <1>5

----------------------------------------------------------------------------
(* What a refusal was counted from is what it is counted from until then.    *)

LEMMA InvLimit == ASSUME Logins!LimitAssumption, LimitInv PROVE Logins!WaitIsEnough
<1>1. SUFFICES ASSUME told # -1
               PROVE  /\ loginsClock >= told => Logins!RetryAfter(Logins!Recent) = 0
                      /\ loginsClock <= told - Second => Logins!RetryAfter(Logins!Recent) # 0
  BY DEF Logins!WaitIsEnough
<1>2. PICK x \in 0..loginsClock : Counted(x)
  BY <1>1 DEF LimitInv
<1>3. InOrder /\ told \in Int /\ loginsClock \in Nat /\ window \in Nat /\ attempts \in Nat /\ attempts > 0 /\ Second \in Nat /\ Second > 0
      /\ Len(failures) \in Nat
  BY DEF LimitInv, InOrder, Logins!LimitAssumption
<1>4. /\ Logins!Dropped \in 0..Len(failures) /\ Logins!Recent \in Seq(Nat) /\ Len(Logins!Recent) = Len(failures) - Logins!Dropped
      /\ \A i \in 1..Logins!Dropped : Logins!Old(failures[i])
      /\ \A i \in (Logins!Dropped + 1)..Len(failures) : ~Logins!Old(failures[i])
      /\ \A i \in 1..Len(Logins!Recent) : Logins!Recent[i] = failures[i + Logins!Dropped]
  BY <1>3, RecentIs
<1>5. CASE Len(failures) < attempts /\ Logins!Old(x)
  <2>1. Len(Logins!Recent) < attempts
    BY <1>3, <1>4, <1>5
  <2>2. Logins!RetryAfter(Logins!Recent) = 0
    BY <2>1 DEF Logins!RetryAfter
  <2>3. ~(loginsClock <= told - Second)
    BY <1>2, <1>3, <1>5 DEF Counted, Logins!Old
  <2>4. QED BY <2>2, <2>3
<1>6. CASE Len(failures) >= attempts /\ failures[(Len(failures) - attempts) + 1] = x
  <2> DEFINE k == (Len(failures) - attempts) + 1
  <2>1. k \in 1..Len(failures) /\ failures[k] = x
    BY <1>3, <1>6
  <2>2. ASSUME loginsClock >= told PROVE Logins!RetryAfter(Logins!Recent) = 0
    <3>0. Logins!Old(x)
      BY <1>2, <1>3, <2>2 DEF Counted, Logins!Old
    <3>1. Logins!Old(failures[k])
      BY <2>1, <3>0
    <3>2. k <= Logins!Dropped
      <4>1. ~(k \in (Logins!Dropped + 1)..Len(failures))
        BY <1>4, <3>1
      <4>2. QED BY <1>3, <1>4, <2>1, <4>1
    <3>3. Len(Logins!Recent) < attempts
      BY <1>3, <1>4, <3>2
    <3>4. QED BY <3>3 DEF Logins!RetryAfter
  <2>3. ASSUME loginsClock <= told - Second PROVE Logins!RetryAfter(Logins!Recent) # 0
    <3>1. x + window > loginsClock
      BY <1>2, <1>3, <2>3 DEF Counted
    <3>2. ~Logins!Old(failures[k])
      BY <1>2, <1>3, <2>1, <3>1 DEF Logins!Old
    <3>3. ~(k <= Logins!Dropped)
      BY <1>3, <1>4, <2>1, <3>2
    <3>4. ~(Len(Logins!Recent) < attempts)
      BY <1>3, <1>4, <3>3
    <3>5. (Len(Logins!Recent) - attempts) + 1 \in 1..Len(Logins!Recent) /\ ((Len(Logins!Recent) - attempts) + 1) + Logins!Dropped = k
      BY <1>3, <1>4, <3>4
    <3>6. Logins!CountedFrom(Logins!Recent) = x
      BY <1>4, <2>1, <3>5 DEF Logins!CountedFrom
    <3>7. (x + window) - loginsClock \in Nat
      BY <1>2, <1>3, <3>1
    <3>8. Logins!WholeSeconds((x + window) - loginsClock) >= Second /\ Logins!WholeSeconds((x + window) - loginsClock) \in Nat
      BY <3>7, SecondsAreEnough
    <3>9. QED BY <1>3, <3>4, <3>6, <3>8 DEF Logins!RetryAfter
  <2>4. QED BY <2>2, <2>3
<1>7. QED BY <1>2, <1>5, <1>6 DEF Counted

LEMMA LoginsInitInv == ASSUME Logins!LimitAssumption, Logins!Init PROVE LimitInv
<1>1. failures = <<>> /\ loginsClock = 0 /\ told = -1
  BY DEF Logins!Init
<1>2. QED BY <1>1 DEF LimitInv, InOrder

\* Dropping old failures changes no wait.
LEMMA DropKeeps ==
  ASSUME Logins!LimitAssumption, InOrder, told \in Int, failures' = Logins!Recent, loginsClock' = loginsClock
  PROVE  InOrder' /\ (told' = told => \A x \in 0..loginsClock : Counted(x) => Counted(x)')
<1>1. loginsClock \in Nat /\ window \in Nat /\ attempts \in Nat /\ attempts > 0 /\ Len(failures) \in Nat
  BY DEF InOrder, Logins!LimitAssumption
<1>2. /\ Logins!Dropped \in 0..Len(failures) /\ Logins!Recent \in Seq(Nat) /\ Len(Logins!Recent) = Len(failures) - Logins!Dropped
      /\ \A i \in 1..Logins!Dropped : Logins!Old(failures[i])
      /\ \A i \in (Logins!Dropped + 1)..Len(failures) : ~Logins!Old(failures[i])
      /\ \A i \in 1..Len(Logins!Recent) : Logins!Recent[i] = failures[i + Logins!Dropped] /\ i + Logins!Dropped \in 1..Len(failures)
  BY RecentIs
<1>3. InOrder'
  <2>1. \A i, k \in 1..Len(Logins!Recent) : i <= k => Logins!Recent[i] <= Logins!Recent[k]
    <3>1. SUFFICES ASSUME NEW i \in 1..Len(Logins!Recent), NEW k \in 1..Len(Logins!Recent), i <= k PROVE Logins!Recent[i] <= Logins!Recent[k]
      OBVIOUS
    <3>2. i + Logins!Dropped \in 1..Len(failures) /\ k + Logins!Dropped \in 1..Len(failures) /\ i + Logins!Dropped <= k + Logins!Dropped
      BY <1>1, <1>2, <3>1
    <3>3. QED BY <1>2, <3>2 DEF InOrder
  <2>2. \A i \in 1..Len(Logins!Recent) : Logins!Recent[i] <= loginsClock
    BY <1>2 DEF InOrder
  <2>3. QED BY <1>1, <1>2, <2>1, <2>2 DEF InOrder
<1>4. ASSUME told' = told, NEW x \in 0..loginsClock, Counted(x) PROVE Counted(x)'
  <2>1. x + window <= told' /\ told' - Second < x + window
    BY <1>4 DEF Counted
  <2>2. CASE Len(failures) < attempts /\ Logins!Old(x)
    <3>1. Len(Logins!Recent) < attempts /\ Logins!Old(x)'
      BY <1>1, <1>2, <2>2 DEF Logins!Old
    <3>2. QED BY <2>1, <3>1 DEF Counted
  <2>3. CASE Len(failures) >= attempts /\ failures[(Len(failures) - attempts) + 1] = x
    <3> DEFINE k == (Len(failures) - attempts) + 1
    <3>1. k \in 1..Len(failures) /\ failures[k] = x
      BY <1>1, <2>3
    <3>2. CASE k <= Logins!Dropped
      <4>1. Logins!Old(x)
        BY <1>1, <1>2, <3>1, <3>2
      <4>2. Len(Logins!Recent) < attempts /\ Logins!Old(x)'
        BY <1>1, <1>2, <3>2, <4>1 DEF Logins!Old
      <4>3. QED BY <2>1, <4>2 DEF Counted
    <3>3. CASE ~(k <= Logins!Dropped)
      <4>1. Len(Logins!Recent) >= attempts /\ (Len(Logins!Recent) - attempts) + 1 \in 1..Len(Logins!Recent)
            /\ ((Len(Logins!Recent) - attempts) + 1) + Logins!Dropped = k
        BY <1>1, <1>2, <3>3
      <4>2. Logins!Recent[(Len(Logins!Recent) - attempts) + 1] = x
        BY <1>2, <3>1, <4>1
      <4>3. QED BY <2>1, <4>1, <4>2 DEF Counted
    <3>4. QED BY <3>2, <3>3
  <2>4. QED BY <1>4, <2>2, <2>3 DEF Counted
<1>5. QED BY <1>3, <1>4

LEMMA LoginKeeps == ASSUME Logins!LimitAssumption, LimitInv, NEW t \in Tries, Logins!Login(t) PROVE LimitInv'
<1>1. loginsClock \in Nat /\ window \in Nat /\ attempts \in Nat /\ attempts > 0 /\ Second \in Nat /\ Second > 0 /\ InOrder
      /\ told \in Int /\ Len(failures) \in Nat
  BY DEF LimitInv, InOrder, Logins!LimitAssumption
<1>2. failures' = Logins!Recent /\ loginsClock' = loginsClock
  BY DEF Logins!Login
<1>3. InOrder' /\ (told' = told => \A x \in 0..loginsClock : Counted(x) => Counted(x)')
  BY <1>1, <1>2, DropKeeps
<1>4. CASE told' = told
  BY <1>1, <1>2, <1>3, <1>4 DEF LimitInv
<1>5. CASE told' # told
  <2>1. Logins!RetryAfter(Logins!Recent) # 0 /\ told' = loginsClock + Logins!RetryAfter(Logins!Recent)
    BY <1>5 DEF Logins!Login
  <2>2. /\ Logins!Dropped \in 0..Len(failures) /\ Logins!Recent \in Seq(Nat) /\ Len(Logins!Recent) = Len(failures) - Logins!Dropped
        /\ \A i \in (Logins!Dropped + 1)..Len(failures) : ~Logins!Old(failures[i])
        /\ \A i \in 1..Len(Logins!Recent) : Logins!Recent[i] = failures[i + Logins!Dropped] /\ i + Logins!Dropped \in 1..Len(failures)
    BY <1>1, RecentIs
  <2>3. ~(Len(Logins!Recent) < attempts) /\ Logins!RetryAfter(Logins!Recent) = Logins!WholeSeconds((Logins!CountedFrom(Logins!Recent) + window) - loginsClock)
    BY <2>1 DEF Logins!RetryAfter
  <2> DEFINE k == (Len(Logins!Recent) - attempts) + 1
             x == Logins!Recent[k]
  <2>4. k \in 1..Len(Logins!Recent) /\ k + Logins!Dropped \in (Logins!Dropped + 1)..Len(failures) /\ k + Logins!Dropped \in 1..Len(failures)
    BY <1>1, <2>2, <2>3
  <2>5. x = failures[k + Logins!Dropped] /\ ~Logins!Old(x) /\ x \in Nat /\ x <= loginsClock
    <3>1. x = failures[k + Logins!Dropped]
      BY <2>2, <2>4
    <3>2. ~Logins!Old(failures[k + Logins!Dropped])
      BY <2>2, <2>4
    <3>3. failures[k + Logins!Dropped] <= loginsClock /\ failures[k + Logins!Dropped] \in Nat
      BY <1>1, <2>4 DEF InOrder
    <3>4. QED BY <3>1, <3>2, <3>3
  <2>6. (x + window) - loginsClock \in Nat /\ (x + window) - loginsClock > 0
    BY <1>1, <2>5 DEF Logins!Old
  <2>7. Logins!RetryAfter(Logins!Recent) = Logins!WholeSeconds((x + window) - loginsClock)
    BY <2>3 DEF Logins!CountedFrom
  <2> HIDE DEF x
  <2>8. /\ Logins!RetryAfter(Logins!Recent) \in Nat /\ (x + window) - loginsClock <= Logins!RetryAfter(Logins!Recent)
        /\ Logins!RetryAfter(Logins!Recent) - Second < (x + window) - loginsClock
    BY <2>6, <2>7, SecondsAreEnough
  <2>9. told' \in Int /\ x + window <= told' /\ told' - Second < x + window
    <3>1. told' = loginsClock + Logins!RetryAfter(Logins!Recent)
      BY <2>1
    <3>2. QED BY SMTT(30), <1>1, <2>5, <2>8, <3>1
  <2>10. \E y \in 0..loginsClock' : Counted(y)'
    <3>1. Len(failures') >= attempts /\ failures'[(Len(failures') - attempts) + 1] = x
      <4>1. Len(Logins!Recent) >= attempts /\ Logins!Recent[(Len(Logins!Recent) - attempts) + 1] = x
        BY <1>1, <2>2, <2>3 DEF x
      <4>2. QED BY <1>2, <4>1
    <3>2. PICK y \in 0..loginsClock : y = x
      BY <1>1, <2>5
    <3>3. y + window <= told' /\ told' - Second < y + window /\ failures'[(Len(failures') - attempts) + 1] = y
      BY <2>9, <3>1, <3>2
    <3>4. Counted(y)'
      BY <3>1, <3>3 DEF Counted
    <3>5. QED BY <1>2, <3>4
  <2>11. QED BY <1>1, <1>3, <2>9, <2>10 DEF LimitInv
<1>6. QED BY <1>4, <1>5

LEMMA WrongKeeps == ASSUME LimitInv, NEW t \in Tries, Logins!Wrong(t) PROVE LimitInv'
<1>1. loginsClock \in Nat /\ loginsClock' = loginsClock /\ failures \in Seq(Nat) /\ failures' = Append(failures, loginsClock) /\ told' = -1
  BY DEF LimitInv, InOrder, Logins!Wrong
<1>2. failures' \in Seq(Nat) /\ Len(failures') = Len(failures) + 1 /\ Len(failures) \in Nat /\ failures'[Len(failures) + 1] = loginsClock
      /\ \A i \in 1..Len(failures) : failures'[i] = failures[i]
  BY <1>1
<1>3. \A i \in 1..Len(failures') : failures'[i] <= loginsClock
  BY <1>1, <1>2 DEF LimitInv, InOrder
<1>4. \A i, k \in 1..Len(failures') : i <= k => failures'[i] <= failures'[k]
  <2>1. SUFFICES ASSUME NEW i \in 1..Len(failures'), NEW k \in 1..Len(failures'), i <= k PROVE failures'[i] <= failures'[k]
    OBVIOUS
  <2>2. CASE k = Len(failures) + 1
    BY <1>2, <1>3, <2>2
  <2>3. CASE k # Len(failures) + 1
    <3>1. i \in 1..Len(failures) /\ k \in 1..Len(failures)
      BY <1>2, <2>1, <2>3
    <3>2. QED BY <1>2, <2>1, <3>1 DEF LimitInv, InOrder
  <2>4. QED BY <2>2, <2>3
<1>5. QED BY <1>1, <1>2, <1>3, <1>4 DEF LimitInv, InOrder

LEMMA TickKeeps == ASSUME Logins!LimitAssumption, LimitInv, Logins!Tick PROVE LimitInv'
<1>1. loginsClock \in Nat /\ loginsClock' = loginsClock + 1 /\ failures' = failures /\ told' = told /\ window \in Nat /\ failures \in Seq(Nat)
  BY DEF LimitInv, InOrder, Logins!Tick, Logins!LimitAssumption
<1>2. InOrder'
  <2>1. \A i \in 1..Len(failures) : failures[i] <= loginsClock'
    BY <1>1 DEF LimitInv, InOrder
  <2>2. QED BY <1>1, <2>1 DEF LimitInv, InOrder
<1>3. ASSUME NEW x \in 0..loginsClock, Counted(x) PROVE Counted(x)' /\ x \in 0..loginsClock'
  <2>1. Logins!Old(x) => Logins!Old(x)'
    BY <1>1 DEF Logins!Old
  <2>2. QED BY <1>1, <1>3, <2>1 DEF Counted
<1>4. QED BY <1>1, <1>2, <1>3 DEF LimitInv

LEMMA LoginsNextInv == ASSUME Logins!LimitAssumption, LimitInv, [Logins!Next]_(Logins!limitVars) PROVE LimitInv'
<1>1. CASE Logins!Tick
  BY <1>1, TickKeeps
<1>2. ASSUME NEW t \in Tries, Logins!Login(t) PROVE LimitInv'
  BY <1>2, LoginKeeps
<1>3. ASSUME NEW t \in Tries, Logins!Wrong(t) PROVE LimitInv'
  BY <1>3, WrongKeeps
<1>4. ASSUME NEW t \in Tries, Logins!Right(t) PROVE LimitInv'
  <2>1. failures' = <<>> /\ told' = -1 /\ loginsClock' = loginsClock
    BY <1>4 DEF Logins!Right
  <2>2. QED BY <2>1 DEF LimitInv, InOrder
<1>5. CASE UNCHANGED Logins!limitVars
  <2>1. failures' = failures /\ told' = told /\ loginsClock' = loginsClock
    BY <1>5 DEF Logins!limitVars
  <2>2. \A x \in 0..loginsClock : Counted(x) => Counted(x)'
    BY <2>1 DEF Counted, Logins!Old
  <2>3. QED BY <2>1, <2>2 DEF LimitInv, InOrder
<1>6. QED BY <1>1, <1>2, <1>3, <1>4, <1>5 DEF Logins!Next

\* A refused login is told how long to wait (LoginLimiter, admin_auth.py), for any limits and any number of
\* logins at a time: whoever waits as long is let in if no login failed since, and a second less is too short.
THEOREM WaitsAreExact == ASSUME Logins!LimitAssumption PROVE Logins!Spec => []Logins!WaitIsEnough
<1>1. Logins!Init => LimitInv
  BY LoginsInitInv
<1>2. LimitInv /\ [Logins!Next]_(Logins!limitVars) => LimitInv'
  BY LoginsNextInv
<1>3. LimitInv => Logins!WaitIsEnough
  BY InvLimit
<1>4. QED BY <1>1, <1>2, <1>3, PTL DEF Logins!Spec

==============================================================================
