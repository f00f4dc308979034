---------------------------- MODULE ViewerAccount ----------------------------
(****************************************************************************)
(* twitch_viewer.py: the Twitch account whose token live playback is asked  *)
(* with, kept in an app_state row and a cache, refreshed under a lock by    *)
(* whoever asks, and linked or unlinked by an admin, whose routes take no   *)
(* lock.                                                                    *)
(*                                                                          *)
(* A token is the link it came from and how often it was refreshed.         *)
(****************************************************************************)
EXTENDS Integers, FiniteSets

CONSTANTS
  Askers,                \* live recordings and checks at a time
  Refreshable,           \* links whose tokens can be refreshed (a pasted one cannot)
  None, Unset,
  MaxLinks, MaxRefreshes \* bounds

ViewerAssumption ==
  /\ None \notin Nat /\ None \notin Nat \X Nat
  /\ Unset \notin Nat \X Nat

VARIABLES
  row,      \* twitch_viewer_oauth: a token, or None
  cached,   \* _cached: Unset, or the token (or None) read at some time
  soon,     \* the tokens that end soon
  links,    \* the links made
  lock,     \* the asker in auth(), or None
  asks,     \* asker -> [step, token]
  admin,    \* a route under way: [doing, step, token]
  linked,   \* history: the link last made, None after unlinking
  inHand    \* history: an ask had hold of a token of another link when forget() ran

viewerVars == <<row, cached, soon, links, lock, asks, admin, linked, inHand>>

Idle   == [step |-> "idle", token |-> None]
NoTask == [doing |-> "nothing", step |-> "idle", token |-> None]

LinkOf(token) == IF token \in {None, Unset} THEN None ELSE token[1]

Goto(t, step, token) == asks' = [asks EXCEPT ![t] = [step |-> step, token |-> token]]

----------------------------------------------------------------------------
(* auth.                                                                    *)

Ask(t) ==
  /\ asks[t].step = "idle" /\ lock = None
  /\ lock' = t
  /\ Goto(t, "cache", None)
  /\ UNCHANGED <<row, cached, soon, links, admin, linked, inHand>>

\* What a live recording is given: nothing, or the token to send.
Answer(t) ==
  /\ lock' = None
  /\ asks' = [asks EXCEPT ![t] = Idle]

\* With the token at hand: one that has ended is not sent, one that ends soon is refreshed if it can be.
Use(t, token) ==
  IF token # None /\ token \in soon /\ token[1] \in Refreshable
  THEN Goto(t, "refresh", token) /\ UNCHANGED lock
  ELSE Answer(t)

\* _token, whose cache counts for five minutes.
Cached(t) ==
  /\ asks[t].step = "cache" /\ cached # Unset
  /\ Use(t, cached)
  /\ UNCHANGED <<row, cached, soon, links, admin, linked, inHand>>

Load(t) ==
  /\ asks[t].step = "cache"
  /\ Goto(t, "loaded", row)
  /\ UNCHANGED <<row, cached, soon, links, lock, admin, linked, inHand>>

Loaded(t) ==
  /\ asks[t].step = "loaded"
  /\ cached' = asks[t].token
  /\ Use(t, asks[t].token)
  /\ UNCHANGED <<row, soon, links, admin, linked, inHand>>

\* _refresh: Twitch's answer; refused, the token at hand is sent if it still can be.
Refreshed(t) ==
  LET old == asks[t].token
  IN  /\ asks[t].step = "refresh"
      /\ \/ old[2] < MaxRefreshes /\ Goto(t, "save", <<old[1], old[2] + 1>>) /\ UNCHANGED lock
         \/ Answer(t)
      /\ UNCHANGED <<row, cached, soon, links, admin, linked, inHand>>

SaveRefreshed(t) ==
  /\ asks[t].step = "save"
  /\ row' = asks[t].token
  /\ Goto(t, "saved", asks[t].token)
  /\ UNCHANGED <<cached, soon, links, lock, admin, linked, inHand>>

CacheRefreshed(t) ==
  /\ asks[t].step = "saved"
  /\ cached' = asks[t].token
  /\ Answer(t)
  /\ UNCHANGED <<row, soon, links, admin, linked, inHand>>

\* check's own _token, outside the lock, before it asks like any other.
CheckLoad(t) ==
  /\ asks[t].step = "idle"
  /\ Goto(t, "checkLoaded", row)
  /\ UNCHANGED <<row, cached, soon, links, lock, admin, linked, inHand>>

CheckLoaded(t) ==
  /\ asks[t].step = "checkLoaded"
  /\ cached' = asks[t].token
  /\ Goto(t, "idle", None)
  /\ UNCHANGED <<row, soon, links, lock, admin, linked, inHand>>

\* Time passes: a token nears its end.
NearEnd(token) ==
  /\ token # None /\ token \notin soon
  /\ soon' = soon \cup {token}
  /\ UNCHANGED <<row, cached, links, lock, asks, admin, linked, inHand>>

----------------------------------------------------------------------------
(* The admin routes: a device flow or a pasted token links an account,      *)
(* DELETE unlinks it, and either forgets the cache after.                   *)

StartLink ==
  LET next == links + 1
  IN  /\ admin = NoTask /\ next <= MaxLinks
      /\ links' = next
      /\ admin' = [doing |-> "link", step |-> "validated", token |-> <<next, 0>>]
      /\ UNCHANGED <<row, cached, soon, lock, asks, linked, inHand>>

StartUnlink ==
  /\ admin = NoTask
  /\ admin' = [doing |-> "unlink", step |-> "validated", token |-> None]
  /\ UNCHANGED <<row, cached, soon, links, lock, asks, linked, inHand>>

\* store's save_token, or clear_token.
SaveLink ==
  /\ admin.step = "validated"
  /\ row' = admin.token
  /\ linked' = LinkOf(admin.token)
  /\ admin' = [admin EXCEPT !.step = "saved"]
  /\ UNCHANGED <<cached, soon, links, lock, asks, inHand>>

\* Mutant: only a link forgets what is cached.
ForgottenByLink == IF admin.doing = "link" THEN Unset ELSE cached
Forgotten == Unset

Forget ==
  /\ admin.step = "saved"
  /\ cached' = Forgotten
  /\ admin' = NoTask
  /\ inHand' = (inHand \/ LinkOf(row) # linked \/ \E t \in Askers : LinkOf(asks[t].token) \notin {None, linked})
  /\ UNCHANGED <<row, soon, links, lock, asks, linked>>

----------------------------------------------------------------------------

\* Nothing linked, or the first link.
Init ==
  /\ row \in {None, <<0, 0>>}
  /\ linked = LinkOf(row)
  /\ cached = Unset /\ lock = None /\ admin = NoTask /\ inHand = FALSE
  /\ soon = {} /\ links = 0
  /\ asks = [t \in Askers |-> Idle]

Next ==
  \/ \E t \in Askers :
       \/ Ask(t) \/ Cached(t) \/ Load(t) \/ Loaded(t) \/ Refreshed(t) \/ SaveRefreshed(t) \/ CacheRefreshed(t)
       \/ CheckLoad(t) \/ CheckLoaded(t)
  \/ NearEnd(row)
  \/ StartLink \/ StartUnlink \/ SaveLink \/ Forget

Spec == Init /\ [][Next]_viewerVars

----------------------------------------------------------------------------

TypeOK ==
  /\ {row, cached} \subseteq {None, Unset} \cup ((0..MaxLinks) \X (0..MaxRefreshes))
  /\ lock = None \/ asks[lock].step \notin {"idle", "checkLoaded"}

\* Once an account is unlinked, or another one linked, neither the row nor the cache holds a token of
\* the one before (twitch_viewer.py, admin.py), unless an ask had hold of it then.
UnlinkedIsForgotten ==
  admin = NoTask => inHand \/ (LinkOf(row) = linked /\ LinkOf(cached) \in {None, linked})
=============================================================================
