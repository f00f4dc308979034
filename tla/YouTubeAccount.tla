---------------------------- MODULE YouTubeAccount ----------------------------
(****************************************************************************)
(* youtube.py: the OAuth token in the app_state table, the credentials made *)
(* from it, which API calls share and refresh on threads of their own, and  *)
(* an admin who connects an account meanwhile.                              *)
(*                                                                          *)
(* A refresh token is the authorization it came from and how often Google   *)
(* rotated it since.  The audit log, scopes and dates are left out.         *)
(****************************************************************************)
EXTENDS Integers, Sequences, SequencesExt

CONSTANTS
  Calls,        \* coroutines at a time: API calls, checks, an admin's connect
  None,
  MaxGrants, MaxRotations,   \* bounds: authorizations, rotations of one,
  MaxObjects, MaxRefreshes   \* credentials made, refreshes

AccountAssumption ==
  /\ MaxGrants \in Nat /\ MaxRotations \in Nat /\ MaxObjects \in Nat
  /\ None \notin (0..MaxGrants) \cup ((0..MaxGrants) \X (0..MaxRotations))
  /\ \A refresh \in ((0..MaxGrants) \X (0..MaxRotations)) \cup {None}, access \in BOOLEAN :
       [refresh |-> refresh, access |-> access] # None

VARIABLES
  stored,    \* youtube_oauth: [refresh, access] or None; access: an access token with it
  held,      \* _creds, an index of objects; 0: none
  objects,   \* the credentials made so far: [refresh, valid]
  calls,     \* [doing, step, creds, token, until]
  records,   \* _record_refresh under way, in the token lock's order: [id, refresh, read]
  reported,  \* refreshes reported
  connected, \* history: the authorization saved last
  inHand     \* history: an older authorization was in use when one was saved

accountVars == <<stored, held, objects, calls, records, reported, connected, inHand>>

Idle == [doing |-> "nothing", step |-> "idle", creds |-> 0, token |-> None, until |-> 0]

End(c) == calls' = [calls EXCEPT ![c] = Idle]

Grant(refresh) == IF refresh = None THEN None ELSE refresh[1]

\* What call c goes by: the token it read or its credentials.
GrantOf(c) ==
  CASE calls[c].step = "loaded" -> Grant(calls[c].token.refresh)
    [] calls[c].creds # 0 -> Grant(objects[calls[c].creds].refresh)
    [] OTHER -> None

UsesOlder(grant) ==
  \/ \E c \in Calls : GrantOf(c) \notin {None, grant}
  \/ \E i \in DOMAIN records : Grant(records[i].refresh) # grant

----------------------------------------------------------------------------
(* _credentials.                                                            *)

\* With credentials at hand: a check refreshes them whatever their age.
Take(c, creds, doing) ==
  calls' = [calls EXCEPT ![c] = [@ EXCEPT !.doing = doing, !.creds = creds,
              !.step = IF doing = "check" \/ ~objects'[creds].valid THEN "refreshing" ELSE "using"]]

Begin(c) ==
  /\ calls[c].step \in {"idle", "service"}
  /\ UNCHANGED objects
  /\ IF held = 0
     THEN /\ calls' = [calls EXCEPT ![c].doing = "call", ![c].step = "load"]
          /\ UNCHANGED inHand
     ELSE /\ Take(c, held, "call")
          \* An account saved a moment ago, whose check has yet to drop the older one's.
          /\ inHand' = \/ inHand
                       \/ /\ Grant(objects[held].refresh) # connected
                          /\ \E d \in Calls : calls[d].step = "saved"
  /\ UNCHANGED <<stored, held, records, reported, connected>>

\* Mutant: a check refreshes the credentials at hand.
HeldKept == held
HeldDropped == 0

\* _check, of the status route, the keep-alive, or connect's own once the token is saved.
BeginCheck(c) ==
  /\ calls[c].step \in {"idle", "saved"}
  /\ held' = HeldDropped
  /\ UNCHANGED objects
  /\ IF held' = 0
     THEN calls' = [calls EXCEPT ![c].doing = "check", ![c].step = "load"]
     ELSE Take(c, held', "check")
  /\ UNCHANGED <<stored, records, reported, connected, inHand>>

\* Without a refresh token the call fails as not authorized.
Load(c) ==
  /\ calls[c].step = "load"
  /\ IF stored = None \/ stored.refresh = None
     THEN End(c)
     ELSE calls' = [calls EXCEPT ![c].step = "loaded", ![c].token = stored]
  /\ UNCHANGED <<stored, held, objects, records, reported, connected, inHand>>

MakeCreds(c) ==
  LET token == calls[c].token
  IN  /\ calls[c].step = "loaded" /\ Len(objects) < MaxObjects
      /\ objects' = Append(objects, [refresh |-> token.refresh, valid |-> token.access])
      /\ held' = Len(objects) + 1
      /\ Take(c, held', IF calls[c].doing = "check" /\ ~token.access THEN "checkTwice" ELSE calls[c].doing)
      /\ UNCHANGED <<stored, records, reported, connected, inHand>>

----------------------------------------------------------------------------
(* ReportingCredentials.refresh, on a thread, and what a call does after.   *)

\* Google's answer changes the credentials, which other calls may be using too.
Refresh(o) ==
  \E rotated \in BOOLEAN :
    LET old == objects[o].refresh
        new == IF rotated THEN <<old[1], old[2] + 1>> ELSE old
    IN  /\ reported < MaxRefreshes
        /\ rotated => old[2] < MaxRotations
        /\ objects' = [objects EXCEPT ![o] = [refresh |-> new, valid |-> TRUE]]
        /\ records' = Append(records, [id |-> reported + 1, refresh |-> new, read |-> FALSE])
        /\ reported' = reported + 1

\* "return self._creds": what it is after the refresh, which a check may have dropped meanwhile.
Refreshed(c) ==
  /\ calls[c].step = "refreshing"
  /\ Refresh(calls[c].creds)
  /\ IF calls[c].doing = "check"
     THEN calls' = [calls EXCEPT ![c].step = "settling", ![c].until = reported + 1]
     ELSE IF held = 0 THEN End(c)
     ELSE Take(c, held, IF calls[c].doing = "checkTwice" THEN "check" ELSE "call")
  /\ UNCHANGED <<stored, held, connected, inHand>>

\* Refused, or no connection.
RefreshFails(c) ==
  /\ calls[c].step = "refreshing"
  /\ held' = IF calls[c].doing = "call" THEN held ELSE 0
  /\ End(c)
  /\ UNCHANGED <<stored, objects, records, reported, connected, inHand>>

\* _settle, and then own_channel, a call like any.
Settle(c) ==
  /\ calls[c].step = "settling"
  /\ \A i \in DOMAIN records : records[i].id > calls[c].until
  /\ calls' = [calls EXCEPT ![c] = [Idle EXCEPT !.step = "service"]]
  /\ UNCHANGED <<stored, held, objects, records, reported, connected, inHand>>

Expire(o) ==
  /\ objects[o].valid
  /\ objects' = [objects EXCEPT ![o].valid = FALSE]
  /\ UNCHANGED <<stored, held, calls, records, reported, connected, inHand>>

\* An access token that ends during an upload: the library refreshes it.
RefreshInUse(c) ==
  /\ calls[c].step = "using" /\ ~objects[calls[c].creds].valid
  /\ Refresh(calls[c].creds)
  /\ UNCHANGED <<stored, held, calls, connected, inHand>>

Done(c) ==
  /\ calls[c].step = "using"
  /\ End(c)
  /\ UNCHANGED <<stored, held, objects, records, reported, connected, inHand>>

----------------------------------------------------------------------------
(* _record_refresh, under the token lock, and exchange_code, without.       *)

RecordReads ==
  /\ records # <<>> /\ ~records[1].read
  /\ records' = [records EXCEPT ![1].read = TRUE]
  /\ UNCHANGED <<stored, held, objects, calls, reported, connected, inHand>>

\* A refresh token that differs from the stored one is saved as rotated: either way it is the stored one now.
RecordSaves ==
  /\ records # <<>> /\ records[1].read
  /\ stored' = [refresh |-> records[1].refresh, access |-> TRUE]
  /\ records' = Tail(records)
  /\ UNCHANGED <<held, objects, calls, reported, connected, inHand>>

\* An answer without a refresh token keeps the stored one.
Exchange(c) ==
  \E sent \in BOOLEAN :
    LET kept == IF stored = None THEN None ELSE stored.refresh
        next == 1 + (IF connected = None THEN -1 ELSE connected)
    IN  /\ calls[c] = Idle /\ \A d \in Calls : calls[d].doing # "connect"
        /\ sent => next <= MaxGrants
        /\ calls' = [calls EXCEPT ![c] = [Idle EXCEPT !.doing = "connect", !.step = "exchanged",
                       !.token = [refresh |-> IF sent THEN <<next, 0>> ELSE kept, access |-> TRUE]]]
        /\ UNCHANGED <<stored, held, objects, records, reported, connected, inHand>>

SaveExchanged(c) ==
  LET token == calls[c].token
  IN  /\ calls[c].step = "exchanged"
      /\ stored' = token
      /\ connected' = Grant(token.refresh)
      /\ inHand' = (inHand \/ UsesOlder(Grant(token.refresh)))
      /\ calls' = [calls EXCEPT ![c] = [Idle EXCEPT !.step = "saved"]]
      /\ UNCHANGED <<held, objects, records, reported>>

----------------------------------------------------------------------------

\* Nothing connected, or the token of the old archive imported, which comes with no access token.
Init ==
  /\ stored \in {None, [refresh |-> <<0, 0>>, access |-> FALSE]}
  /\ connected = IF stored = None THEN None ELSE 0
  /\ held = 0 /\ objects = <<>> /\ records = <<>> /\ reported = 0 /\ inHand = FALSE
  /\ calls = [c \in Calls |-> Idle]

Next ==
  \/ \E c \in Calls :
       \/ Begin(c) \/ BeginCheck(c) \/ Load(c) \/ MakeCreds(c)
       \/ Refreshed(c) \/ RefreshFails(c) \/ Settle(c) \/ RefreshInUse(c) \/ Done(c)
       \/ Exchange(c) \/ SaveExchanged(c)
  \/ \E o \in DOMAIN objects : Expire(o)
  \/ RecordReads \/ RecordSaves

Spec == Init /\ [][Next]_accountVars

----------------------------------------------------------------------------

TypeOK ==
  /\ held \in 0..Len(objects)
  /\ \A c \in Calls : calls[c].creds \in 0..Len(objects)
  /\ stored # None /\ stored.refresh # None => stored.refresh \in (0..MaxGrants) \X (0..MaxRotations)

\* The stored token is of the account connected last, whatever API calls, checks and refreshes are
\* under way, unless one of them was using the account before it when it was saved.
AccountStays == stored # None => Grant(stored.refresh) = connected \/ inHand
=============================================================================
