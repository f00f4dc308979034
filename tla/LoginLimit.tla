------------------------------ MODULE LoginLimit ------------------------------
(****************************************************************************)
(* LoginLimiter (admin_auth.py) as admin.login uses it: the failed logins   *)
(* of one address, while passwords are checked on threads, several at a     *)
(* time.                                                                    *)
(****************************************************************************)
EXTENDS Integers, Sequences

CONSTANTS
  Tries,              \* logins at a time
  attempts, window,
  Second,             \* units of time in a second, of what Retry-After says
  MaxTime             \* bound

VARIABLES
  failures,   \* when they were, oldest first
  tries,      \* login -> "idle" or "checking"
  clock,
  told        \* history: when a refused login may come again, if nothing happened since; or -1

limitVars == <<failures, tries, clock, told>>

\* At least one login may fail, and time passes.
LimitAssumption == attempts \in Nat \ {0} /\ window \in Nat /\ Second \in Nat \ {0}

\* _recent: the oldest failure is dropped for as long as it is older than the window.
Old(at) == at <= clock - window
DropsFirst(k) == (\A i \in 1..k : Old(failures[i])) /\ (k < Len(failures) => ~Old(failures[k + 1]))
Dropped == CHOOSE k \in 0..Len(failures) : DropsFirst(k)
Recent == [i \in 1..(Len(failures) - Dropped) |-> failures[i + Dropped]]

\* math.ceil of seconds, at least one.
WholeSeconds(t) == LET up == (((t + Second) - 1) \div Second) * Second IN IF up < Second THEN Second ELSE up

\* Mutant: the wait is counted from the oldest failure.
CountedFromOldest(recent) == recent[1]
CountedFrom(recent) == recent[(Len(recent) - attempts) + 1]

\* retry_after: how long the address must wait, 0: not at all.
RetryAfter(recent) ==
  IF Len(recent) < attempts THEN 0 ELSE WholeSeconds((CountedFrom(recent) + window) - clock)

Login(t) ==
  LET wait == RetryAfter(Recent) IN
  /\ tries[t] = "idle"
  /\ failures' = Recent
  /\ IF wait = 0 THEN tries' = [tries EXCEPT ![t] = "checking"] /\ UNCHANGED told
     ELSE told' = clock + wait /\ UNCHANGED tries
  /\ UNCHANGED clock

\* failed
Wrong(t) ==
  /\ tries[t] = "checking"
  /\ failures' = Append(failures, clock)
  /\ tries' = [tries EXCEPT ![t] = "idle"]
  /\ told' = -1
  /\ UNCHANGED clock

\* reset
Right(t) ==
  /\ tries[t] = "checking"
  /\ failures' = <<>>
  /\ tries' = [tries EXCEPT ![t] = "idle"]
  /\ told' = -1
  /\ UNCHANGED clock

Tick ==
  /\ clock < MaxTime
  /\ clock' = clock + 1
  /\ UNCHANGED <<failures, tries, told>>

Init == failures = <<>> /\ tries = [t \in Tries |-> "idle"] /\ clock = 0 /\ told = -1
Next == Tick \/ \E t \in Tries : Login(t) \/ Wrong(t) \/ Right(t)
Spec == Init /\ [][Next]_limitVars

----------------------------------------------------------------------------

\* Failures are kept in order, none of the future.
TypeOK ==
  /\ \A i, k \in DOMAIN failures : i <= k => failures[i] <= failures[k]
  /\ \A i \in DOMAIN failures : failures[i] \in 0..clock
  /\ told \in -1..(clock + window + Second)

\* Whoever waits as long as a refusal's Retry-After says is let in then, if no failure came after it,
\* and would have been refused a second before: also when logins under way together failed more often
\* than attempts allows (LoginLimiter.retry_after, failed).
WaitIsEnough ==
  told # -1 =>
    /\ clock >= told => RetryAfter(Recent) = 0
    /\ clock <= told - Second => RetryAfter(Recent) # 0
===============================================================================
