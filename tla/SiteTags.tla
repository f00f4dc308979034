------------------------------- MODULE SiteTags -------------------------------
(****************************************************************************)
(* site_tags.py: the site's list of VOD tags (one site_settings row) and    *)
(* the shapes of tags (site_tag_shapes), changed by requests that lock the  *)
(* row, when there is one, in read-committed transactions.  A tag is its    *)
(* name; the checks of its other fields are left out.                       *)
(****************************************************************************)
EXTENDS Integers, FiniteSets

CONSTANTS
  Names, AUTO_TAGS,    \* tags, and the ones that are always listed
  Calls,               \* requests at a time
  None,
  MAX_TAGS, MaxChanges \* the latter a bound

VARIABLES
  list,      \* committed: a set of tags, or None
  shapes,    \* committed: the tags that have one
  lock,      \* the request that has the row, or None
  calls,     \* request -> [step, op, want, name, before, put, del, unlocked]
  blind,     \* history: a shape was set by a request that found no row to lock
  follows,   \* history: each save audited was of the list there was
  changes    \* history: requests begun

TagsAssumption == None \notin Calls /\ \A names \in SUBSET Names : names # None

siteVars == <<list, shapes, lock, calls, blind, follows, changes>>

Idle == [step |-> "idle", op |-> "", want |-> {}, name |-> "", before |-> None, put |-> {}, del |-> {}, unlocked |-> FALSE]

\* validate: a list that leaves out a tag the site sets is refused.
Valid(want) == AUTO_TAGS \subseteq want /\ Cardinality(want) <= MAX_TAGS

Request(c, r) ==
  /\ calls[c] = Idle /\ changes < MaxChanges
  /\ calls' = [calls EXCEPT ![c] = r]
  /\ changes' = changes + 1
  /\ UNCHANGED <<list, shapes, lock, blind, follows>>

BeginSave(c) == \E want \in SUBSET Names : Valid(want) /\ Request(c, [Idle EXCEPT !.step = "lock", !.op = "save", !.want = want])
BeginShape(c) == \E op \in {"shape", "unshape"}, n \in Names : Request(c, [Idle EXCEPT !.step = "lock", !.op = op, !.name = n])

----------------------------------------------------------------------------
(* save and set_shape.                                                      *)

NoRow == list = None
Listed == IF NoRow THEN {} ELSE list

\* _locked, SELECT ... FOR UPDATE: there is nothing to lock before the first list is saved.
Lock(c) ==
  /\ calls[c].step = "lock"
  /\ \/ NoRow /\ UNCHANGED lock
     \/ ~NoRow /\ lock = None /\ lock' = c
  /\ calls' = [calls EXCEPT ![c].step = "load", ![c].unlocked = NoRow]
  /\ UNCHANGED <<list, shapes, blind, follows, changes>>

\* _locked, load; a tag that is not listed has no shape to set.
Load(c) ==
  LET r == calls[c]
  IN  /\ r.step = "load"
      /\ \/ r.op = "save" /\ calls' = [calls EXCEPT ![c].step = "write", ![c].before = list] /\ UNCHANGED lock
         \/ /\ r.op # "save" /\ r.name \in Listed
            /\ calls' = [calls EXCEPT ![c].step = "write", ![c].before = list] /\ UNCHANGED lock
         \/ /\ r.op # "save" /\ r.name \notin Listed
            /\ calls' = [calls EXCEPT ![c] = Idle] /\ lock' = IF lock = c THEN None ELSE lock
      /\ UNCHANGED <<list, shapes, blind, follows, changes>>

\* INSERT ... ON CONFLICT DO UPDATE: has the row from here on.
WriteList(c) ==
  /\ calls[c].step = "write" /\ calls[c].op = "save" /\ lock \in {None, c}
  /\ lock' = c
  /\ calls' = [calls EXCEPT ![c].step = "purge"]
  /\ UNCHANGED <<list, shapes, blind, follows, changes>>

OthersWrite(c) == UNION {calls[d].put \cup calls[d].del : d \in Calls \ {c}}

\* The shapes it sees are the committed ones; of those it waits for whoever changes them.
Purge(c) ==
  LET gone == shapes \ calls[c].want
  IN  /\ calls[c].step = "purge" /\ gone \cap OthersWrite(c) = {}
      /\ calls' = [calls EXCEPT ![c].step = "commit", ![c].del = gone]
      /\ UNCHANGED <<list, shapes, lock, blind, follows, changes>>

WriteShape(c) ==
  LET r == calls[c]
  IN  /\ r.step = "write" /\ r.op # "save" /\ r.name \notin OthersWrite(c)
      /\ calls' = IF r.op = "shape" THEN [calls EXCEPT ![c].step = "commit", ![c].put = {r.name}]
                  ELSE [calls EXCEPT ![c].step = "commit", ![c].del = {r.name} \cap shapes]
      /\ UNCHANGED <<list, shapes, lock, blind, follows, changes>>

\* A shape of a tag that is gone by now is saved too: only the answer is a 404.
Commit(c) ==
  LET r == calls[c]
      saved == r.op = "save"
  IN  /\ r.step = "commit"
      /\ list' = IF saved THEN r.want ELSE list
      /\ shapes' = (shapes \cup r.put) \ r.del
      /\ follows' = (follows /\ (saved /\ ~r.unlocked => r.before = list))
      /\ blind' = (blind \/ (~saved /\ r.unlocked))
      /\ calls' = [calls EXCEPT ![c] = Idle]
      /\ lock' = IF lock = c THEN None ELSE lock
      /\ UNCHANGED changes

\* The connection is lost.
Fails(c) ==
  /\ calls[c].step \notin {"idle", "lock"}
  /\ calls' = [calls EXCEPT ![c] = Idle]
  /\ lock' = IF lock = c THEN None ELSE lock
  /\ UNCHANGED <<list, shapes, blind, follows, changes>>

Init ==
  /\ list = None /\ shapes = {} /\ lock = None
  /\ calls = [c \in Calls |-> Idle]
  /\ blind = FALSE /\ follows = TRUE /\ changes = 0

Next ==
  \E c \in Calls : BeginSave(c) \/ BeginShape(c) \/ Lock(c) \/ Load(c) \/ WriteList(c) \/ Purge(c) \/ WriteShape(c)
                   \/ Commit(c) \/ Fails(c)

Spec == Init /\ [][Next]_siteVars

----------------------------------------------------------------------------

TypeOK ==
  /\ list \in {None} \cup SUBSET Names /\ shapes \subseteq Names /\ lock \in Calls \cup {None}

\* "A tag the list no longer has loses it": only listed tags have a shape, unless one was set while the
\* first list was being saved; and each audited save tells the list of the one before it, but for saves
\* that found none to lock.
ShapesFollowTags ==
  /\ blind \/ shapes \subseteq Listed
  /\ follows
===============================================================================
