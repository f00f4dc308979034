-------------------------------- MODULE SignIn --------------------------------
(****************************************************************************)
(* The dashboard's sessions: the Twitch sign-in that makes one              *)
(* (admin_signin.py and its routes in admin.py), their table                *)
(* (admin_auth.py), and the request that asks vex-auth, the sign-in of all  *)
(* the sites, whether the one behind a session still stands.  Sessions made *)
(* with the password have no sign-in behind them and are left out.          *)
(****************************************************************************)
EXTENDS Integers, Sequences

CONSTANTS
  Calls,               \* requests of the browser at a time
  Sids,                \* its sign-ins at vex-auth
  SESSION_TTL, CHECK, STATE_TTL, StatesLimit,
  MaxSignIns, MaxTime   \* bounds

SignInAssumption == SESSION_TTL \in Nat /\ CHECK \in Nat

VARIABLES
  table,     \* token -> [sid, expires, checked]: admin_sessions
  cookie,    \* the browser's session, 0: none
  pending,   \* PendingStates: <<[state, expires], ...>>
  calls,     \* call -> [step, token, sid, now, active, ended, late, sure]
  ended,     \* sign-in -> when it was ended, -1: it stands
  clock,
  made,      \* [tokens, signIns]: how many there were
  loggedOut  \* history: sessions the browser logged out of, or replaced

signInVars == <<table, cookie, pending, calls, ended, clock, made, loggedOut>>

Idle == [step |-> "idle", token |-> 0, sid |-> 0, now |-> 0, active |-> FALSE, ended |-> FALSE, late |-> FALSE, sure |-> TRUE]

Stored == DOMAIN table
Goes(c, call)  == calls' = [calls EXCEPT ![c] = call]
To(c, step)    == Goes(c, [calls[c] EXCEPT !.step = step])
Removed(token) == [t \in Stored \ {token} |-> table[t]]
NotPending(state) == SelectSeq(pending, LAMBDA p : p.state # state)
Standing(sid)  == ended[sid] = -1

----------------------------------------------------------------------------
(* The sign-in through vex-auth.                                            *)

Newest(s, n) == IF Len(s) <= n THEN s ELSE SubSeq(s, Len(s) - n + 1, Len(s))

\* Mutant: there is room for the new one only when there are too many.
RoomFor(live)    == Newest(live, StatesLimit)
RoomForOne(live) == Newest(live, StatesLimit - 1)

\* GET /admin/signin, PendingStates.start: the expired go, and the oldest of too many.
StartSignIn ==
  LET live == SelectSeq(pending, LAMBDA p : p.expires > clock) IN
  /\ made.signIns < MaxSignIns
  /\ made' = [made EXCEPT !.signIns = @ + 1]
  /\ pending' = Append(RoomForOne(live), [state |-> made.signIns + 1, expires |-> clock + STATE_TTL])
  /\ UNCHANGED <<table, cookie, calls, ended, clock, loggedOut>>

\* GET /admin/signin/callback, PendingStates.finish: a state is good once, for its time. The browser
\* leaves the session's cookie, which is Strict, out of a redirect from another site.
Callback(c) ==
  \E p \in {pending[i] : i \in DOMAIN pending}, token \in {0, cookie} :
    /\ calls[c].step = "idle"
    /\ pending' = NotPending(p.state)
    /\ IF p.expires > clock THEN Goes(c, [Idle EXCEPT !.step = "redeem", !.token = token]) ELSE UNCHANGED calls
    /\ UNCHANGED <<table, cookie, ended, clock, made, loggedOut>>

\* POST /admin/session with a code the site got from vex-auth itself: no state.
CodeLogin(c) ==
  /\ calls[c].step = "idle" /\ made.signIns < MaxSignIns
  /\ made' = [made EXCEPT !.signIns = @ + 1]
  /\ Goes(c, [Idle EXCEPT !.step = "redeem", !.token = cookie])
  /\ UNCHANGED <<table, cookie, pending, ended, clock, loggedOut>>

\* redeem: the sign-in behind the code; or vex-auth refuses it, or the user is no admin.
Redeem(c) ==
  /\ calls[c].step = "redeem"
  /\ \/ Goes(c, Idle)
     \/ \E sid \in Sids : Standing(sid) /\ Goes(c, [calls[c] EXCEPT !.step = "replace", !.sid = sid])
  /\ UNCHANGED <<table, cookie, pending, ended, clock, made, loggedOut>>

\* The session the browser came with is logged out.
Replace(c) ==
  /\ calls[c].step = "replace"
  /\ table' = Removed(calls[c].token)
  /\ loggedOut' = loggedOut \cup ({calls[c].token} \ {0})
  /\ To(c, "login")
  /\ UNCHANGED <<cookie, pending, ended, clock, made>>

\* AdminAuth.login: expired sessions are swept; the new one counts as checked.
Login(c) ==
  LET token == made.tokens + 1
      swept == [t \in {u \in Stored : table[u].expires > clock} |-> table[t]]
      row   == [sid |-> calls[c].sid, expires |-> clock + SESSION_TTL, checked |-> clock]
  IN  /\ calls[c].step = "login"
      /\ table' = [t \in DOMAIN swept \cup {token} |-> IF t = token THEN row ELSE swept[t]]
      /\ made' = [made EXCEPT !.tokens = token]
      /\ cookie' = token
      /\ Goes(c, Idle)
      /\ UNCHANGED <<pending, ended, clock, loggedOut>>

\* DELETE /admin/session.
Logout ==
  /\ cookie # 0
  /\ table' = Removed(cookie)
  /\ loggedOut' = loggedOut \cup {cookie}
  /\ cookie' = 0
  /\ UNCHANGED <<pending, calls, ended, clock, made>>

\* "Sign out everywhere", on any of the sites.
SignOutEverywhere ==
  \E sid \in Sids :
    /\ Standing(sid)
    /\ ended' = [ended EXCEPT ![sid] = clock]
    /\ UNCHANGED <<table, cookie, pending, calls, clock, made, loggedOut>>

----------------------------------------------------------------------------
(* verify: a request with a session.                                        *)

\* Its sign-in, and the check that came with the session, ended long ago.
LongEnded(token) ==
  /\ token \in Stored /\ ~Standing(table[token].sid)
  /\ clock >= ended[table[token].sid] + CHECK
  /\ clock >= table[token].expires - SESSION_TTL + CHECK

Ask(c) ==
  /\ calls[c].step = "idle" /\ cookie # 0
  /\ Goes(c, [Idle EXCEPT !.step = "read", !.token = cookie, !.ended = cookie \in loggedOut, !.late = LongEnded(cookie)])
  /\ UNCHANGED <<table, cookie, pending, ended, clock, made, loggedOut>>

\* AdminAuth.session, and in live_session what needs no answer of vex-auth.
Read(c) ==
  LET token == calls[c].token IN
  /\ calls[c].step = "read"
  /\ IF token \notin Stored THEN To(c, "refused") /\ UNCHANGED table
     ELSE IF clock >= table[token].expires THEN To(c, "refused") /\ table' = Removed(token)
     ELSE /\ UNCHANGED table
          /\ Goes(c, [calls[c] EXCEPT !.step = IF clock - table[token].checked < CHECK THEN "let in" ELSE "check",
                                      !.sid = table[token].sid, !.now = clock])
  /\ UNCHANGED <<cookie, pending, ended, clock, made, loggedOut>>

\* VexAuth.active: an answer, or none, and then the session stands.
Check(c) ==
  /\ calls[c].step = "check"
  /\ \/ Goes(c, [calls[c] EXCEPT !.step = "answered", !.active = Standing(calls[c].sid)])
     \/ Goes(c, [calls[c] EXCEPT !.step = "let in", !.sure = FALSE])
  /\ UNCHANGED <<table, cookie, pending, ended, clock, made, loggedOut>>

\* Mutant: the session counts as checked from when the answer came.
CheckedWhenAnswered(call) == clock
CheckedAt(call) == call.now

\* live_session with the answer: a session that is still there was checked, or is removed.
Answered(c) ==
  LET token == calls[c].token IN
  /\ calls[c].step = "answered"
  /\ IF calls[c].active
     THEN /\ table' = [t \in Stored |-> IF t = token THEN [table[t] EXCEPT !.checked = CheckedAt(calls[c])] ELSE table[t]]
          /\ To(c, "let in")
     ELSE table' = Removed(token) /\ To(c, "refused")
  /\ UNCHANGED <<cookie, pending, ended, clock, made, loggedOut>>

Done(c) ==
  /\ calls[c].step \in {"let in", "refused"}
  /\ Goes(c, Idle)
  /\ UNCHANGED <<table, cookie, pending, ended, clock, made, loggedOut>>

Tick ==
  /\ clock < MaxTime
  /\ clock' = clock + 1
  /\ UNCHANGED <<table, cookie, pending, calls, ended, made, loggedOut>>

----------------------------------------------------------------------------

Init ==
  /\ table = [t \in {} |-> 0] /\ cookie = 0 /\ pending = <<>>
  /\ calls = [c \in Calls |-> Idle]
  /\ ended = [s \in Sids |-> -1] /\ clock = 0
  /\ made = [tokens |-> 0, signIns |-> 0] /\ loggedOut = {}

Next ==
  \/ \E c \in Calls : \/ Callback(c) \/ CodeLogin(c) \/ Redeem(c) \/ Replace(c) \/ Login(c)
                     \/ Ask(c) \/ Read(c) \/ Check(c) \/ Answered(c) \/ Done(c)
  \/ StartSignIn \/ Logout \/ SignOutEverywhere \/ Tick

Spec == Init /\ [][Next]_signInVars

----------------------------------------------------------------------------

\* The sessions are ones that were made, each with a time it was checked; the sign-ins under way are few.
TypeOK ==
  /\ Stored \subseteq 1..made.tokens /\ cookie \in 0..made.tokens /\ loggedOut \subseteq 1..made.tokens
  /\ \A t \in Stored : table[t].sid \in Sids /\ table[t].checked \in 0..clock /\ table[t].expires > table[t].checked
  /\ Len(pending) <= StatesLimit /\ \A i \in DOMAIN pending : pending[i].state \in 1..made.signIns
  /\ \A c \in Calls : calls[c].token \in 0..made.tokens
  /\ \A s \in Sids : ended[s] \in -1..clock

\* A request that begins after its session's logout is refused; and so is one that begins CHECK_S or
\* more after "sign out everywhere" (and after the session was made), whatever other requests of the
\* session were under way, unless vex-auth could not be reached (live_session, AdminAuth.checked).
SignOutHolds ==
  \A c \in Calls : calls[c].step = "let in" => ~calls[c].ended /\ (calls[c].late => ~calls[c].sure)
===============================================================================
