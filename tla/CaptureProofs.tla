---------------------------- MODULE CaptureProofs ----------------------------
(****************************************************************************)
(* What TLAPS proves of the two captures, for any streams, playlists,       *)
(* limits and faults: the live recording is in order, marks its gaps and    *)
(* leaves out only what it could not have; an archived VOD is whole and     *)
(* keeps the sound it has.                                                  *)
(****************************************************************************)
EXTENDS MCCapture, FiniteSetTheorems, FunctionTheorems, WellFoundedInduction, TLAPS

----------------------------------------------------------------------------
(* The capture of a VOD (VodCapture).                                       *)

Forms    == {"plain", "muted", "unmuted"}
Pieces   == Nat \X Forms
Seg(S)   == {e[1] : e \in S}
Once(S)  == \A e, f \in S : e[1] = f[1] => e = f
Sigs     == {<<>>} \cup {<<Cardinality(S), {e \in S : e[1] = Cardinality(S)}>> : S \in SUBSET Pieces}
VodRun   == [pc : {"idle", "poll", "sync", "decide", "raise"}, errors : Nat, stuck : Nat, unchanged : Nat, sig : Sigs,
             there : BOOLEAN, listed : SUBSET Pieces, ended : BOOLEAN, failed : SUBSET Pieces]
VodTypes ==
  /\ vod \in [count : 0..Total, form : [1..Total -> Forms], ended : BOOLEAN, live : BOOLEAN, there : BOOLEAN]
  /\ capture \in [state : {"queued", "running", "done", "failed", "none"}, attempts : Nat, once : BOOLEAN,
                  how : {"none", "gone", "once", "unchanged", "ended"}, run : VodRun]

\* The local playlist names files that are there, each segment once, and none that is not on Twitch.
Indexed   == index # V!NoIndex
IndexOK   == Indexed => index \subseteq have /\ Once(index) /\ Seg(index) \subseteq 1..vod.count

\* The playlist a poll has fetched is all of the VOD if that had ended, and never less than is recorded.
FetchedOK(r) ==
  \E n \in 0..vod.count :
    /\ Once(r.listed) /\ Seg(r.listed) = 1..n
    /\ Indexed => Seg(index) \subseteq 1..n
    /\ r.ended => vod.ended /\ n = vod.count
    /\ r.pc = "decide" /\ r.failed = {} => Indexed /\ Seg(index) = 1..n

\* A capture that is done.
DoneOK ==
  /\ Indexed
  /\ capture.how = "ended" => vod.ended /\ Seg(index) = 1..vod.count
  /\ capture.how # "gone" => \E n \in 0..vod.count : Seg(index) = 1..n

VodInv ==
  /\ VodTypes /\ IndexOK
  /\ V!Run.pc \in {"sync", "decide"} => FetchedOK(V!Run)
  /\ capture.state = "done" => DoneOK

LEMMA SameCount == \A S : V!Cardinality(S) = Cardinality(S)
BY DEF V!Cardinality, Cardinality

LEMMA VodTyped ==
  ASSUME VodTypes
  PROVE  /\ V!Run \in VodRun /\ V!Run = capture.run /\ vod.count \in Nat /\ vod.count <= Total /\ Total \in Nat
         /\ vod.form \in [1..Total -> Forms]
BY VodConstants DEF VodTypes, V!Run, V!VodCaptureAssumption

LEMMA VodIdle ==
  /\ V!Idle \in VodRun /\ V!Idle.pc = "idle"
  /\ [V!Idle EXCEPT !.pc = "poll"] \in VodRun /\ [V!Idle EXCEPT !.pc = "poll"].pc = "poll"
<1>1. <<>> \in Sigs
  BY DEF Sigs
<1>2. ASSUME NEW s \in Sigs, NEW pc \in {"idle", "poll"}
      PROVE  [pc |-> pc, errors |-> 0, stuck |-> 0, unchanged |-> 0, sig |-> s,
              there |-> TRUE, listed |-> {}, ended |-> FALSE, failed |-> {}] \in VodRun
  BY DEF VodRun
<1>3. V!Idle \in VodRun /\ V!Idle.pc = "idle"
  BY <1>1, <1>2 DEF V!Idle
<1>4. ASSUME NEW r \in VodRun PROVE [r EXCEPT !.pc = "poll"] \in VodRun /\ [r EXCEPT !.pc = "poll"].pc = "poll"
  BY DEF VodRun
<1>5. QED BY <1>3, <1>4

LEMMA VodInitInv == V!Init => VodInv
<1> SUFFICES ASSUME V!Init PROVE VodInv
  OBVIOUS
<1>1. Total \in Nat
  BY VodConstants DEF V!VodCaptureAssumption
<1>2. VodTypes
  BY <1>1, VodIdle DEF V!Init, VodTypes, Forms
<1>3. ~Indexed /\ capture.state = "queued" /\ V!Run.pc = "idle"
  BY VodIdle DEF V!Init, Indexed, V!Run
<1>4. QED BY <1>2, <1>3 DEF VodInv, IndexOK

LEMMA NoArchiveInv == NoArchiveJob => VodInv
<1> SUFFICES ASSUME NoArchiveJob PROVE VodInv
  OBVIOUS
<1>1. Total \in Nat
  BY VodConstants DEF V!VodCaptureAssumption
<1>2. VodTypes
  BY <1>1, VodIdle DEF NoArchiveJob, VodTypes, Forms
<1>3. ~Indexed /\ capture.state = "none" /\ V!Run.pc = "idle"
  BY VodIdle DEF NoArchiveJob, Indexed, V!Run
<1>4. QED BY <1>2, <1>3 DEF VodInv, IndexOK

\* What the VOD does on Twitch.
LEMMA TwitchInv ==
  ASSUME VodInv, V!Twitch,
         vod' \in [count : 0..Total, form : [1..Total -> Forms], ended : BOOLEAN, live : BOOLEAN, there : BOOLEAN],
         vod'.count >= vod.count, vod.ended => vod'.ended /\ vod'.count = vod.count
  PROVE  VodInv'
<1>1. UNCHANGED <<have, index, capture>>
  BY DEF V!Twitch
<1>2. vod.count \in Nat /\ vod'.count \in Nat
  BY VodTyped DEF VodInv
<1>3. VodTypes' /\ IndexOK'
  BY <1>1, <1>2 DEF VodInv, VodTypes, IndexOK, Indexed
<1>4. V!Run' = V!Run
  BY <1>1 DEF V!Run
<1>5. FetchedOK(V!Run) => FetchedOK(V!Run)'
  BY <1>1, <1>2, <1>4 DEF FetchedOK, Indexed
<1>6. DoneOK => DoneOK'
  BY <1>1, <1>2 DEF DoneOK, Indexed
<1>7. QED BY <1>1, <1>3, <1>4, <1>5, <1>6 DEF VodInv

LEMMA TwitchSteps ==
  ASSUME VodInv, V!Grows \/ V!StreamEnds \/ V!VodEnds \/ V!Removed \/ \E k \in 1..Total : V!Mutes(k)
  PROVE  VodInv'
<1>1. vod \in [count : 0..Total, form : [1..Total -> Forms], ended : BOOLEAN, live : BOOLEAN, there : BOOLEAN]
  BY DEF VodInv, VodTypes
<1>2. CASE V!Grows
  <2>1. V!Twitch /\ ~vod.ended /\ vod.count < Total /\ vod' = [vod EXCEPT !.count = @ + 1]
    BY <1>2 DEF V!Grows
  <2>2. vod.count \in Nat /\ Total \in Nat
    BY VodTyped DEF VodInv
  <2>3. /\ vod' \in [count : 0..Total, form : [1..Total -> Forms], ended : BOOLEAN, live : BOOLEAN, there : BOOLEAN]
        /\ vod'.count = vod.count + 1
    BY <1>1, <2>1, <2>2
  <2>4. vod'.count >= vod.count
    BY <2>2, <2>3
  <2>5. QED BY <2>1, <2>3, <2>4, TwitchInv
<1>3. CASE V!StreamEnds \/ V!VodEnds \/ V!Removed
  <2>1. V!Twitch
    BY <1>3 DEF V!StreamEnds, V!VodEnds, V!Removed
  <2>2. vod.count \in Nat
    BY VodTyped DEF VodInv
  <2>3. /\ vod' \in [count : 0..Total, form : [1..Total -> Forms], ended : BOOLEAN, live : BOOLEAN, there : BOOLEAN]
        /\ vod'.count = vod.count /\ (vod.ended => vod'.ended)
    BY <1>1, <1>3 DEF V!StreamEnds, V!VodEnds, V!Removed
  <2>4. vod'.count >= vod.count
    BY <2>2, <2>3
  <2>5. QED BY <2>1, <2>3, <2>4, TwitchInv
<1>4. ASSUME NEW k \in 1..Total, V!Mutes(k) PROVE VodInv'
  <2>1. PICK form \in {"muted", "unmuted"} : vod' = [vod EXCEPT !.form[k] = form]
    BY <1>4 DEF V!Mutes
  <2>2. V!Twitch
    BY <1>4 DEF V!Mutes
  <2>3. /\ vod' \in [count : 0..Total, form : [1..Total -> Forms], ended : BOOLEAN, live : BOOLEAN, there : BOOLEAN]
        /\ vod'.count = vod.count /\ vod'.ended = vod.ended
    BY <1>1, <2>1 DEF Forms
  <2>4. vod'.count >= vod.count
    BY <2>3, VodTyped DEF VodInv
  <2>5. QED BY <2>2, <2>3, <2>4, TwitchInv
<1>5. QED BY <1>2, <1>3, <1>4

\* A step that stays in its loop, returns, or ends.
LEMMA StaysInv ==
  ASSUME VodInv, UNCHANGED <<vod, have, index>>, capture.state = "running",
         NEW r \in VodRun, capture' = [capture EXCEPT !.run = r], r.pc \in {"sync", "decide"} => FetchedOK(r)
  PROVE  VodInv'
<1>1. VodTypes' /\ V!Run' = r /\ capture'.state = "running"
  BY DEF VodInv, VodTypes, V!Run
<1>2. IndexOK'
  BY DEF VodInv, IndexOK, Indexed
<1>3. r.pc \in {"sync", "decide"} => FetchedOK(V!Run)'
  BY <1>1 DEF FetchedOK, Indexed
<1>4. QED BY <1>1, <1>2, <1>3 DEF VodInv

LEMMA LeavesInv ==
  ASSUME VodInv, UNCHANGED <<vod, index>>, have \subseteq have', NEW state \in {"queued", "failed"}, NEW n \in Nat,
         V!Leaves(state, n)
  PROVE  VodInv'
<1>1. capture' = [capture EXCEPT !.state = state, !.attempts = n, !.run = V!Idle]
  BY DEF V!Leaves
<1>2. VodTypes' /\ V!Run' = V!Idle /\ capture'.state # "done"
  BY <1>1, VodIdle DEF VodInv, VodTypes, V!Run
<1>3. IndexOK'
  BY DEF VodInv, IndexOK, Indexed
<1>4. QED BY <1>2, <1>3, VodIdle DEF VodInv

LEMMA FinishInv ==
  ASSUME VodInv, UNCHANGED <<vod, have, index>>, capture.state = "running",
         NEW how \in {"gone", "once", "unchanged", "ended"}, V!Finish(how),
         Indexed /\ how = "ended" => vod.ended /\ Seg(index) = 1..vod.count,
         Indexed /\ how # "gone" => \E n \in 0..vod.count : Seg(index) = 1..n
  PROVE  VodInv'
<1>1. CASE ~Indexed
  <2>1. V!Run \in VodRun
    BY VodTyped DEF VodInv
  <2>2. PICK r \in VodRun : r = [V!Run EXCEPT !.pc = "raise"]
    BY <2>1 DEF VodRun
  <2>3. r.pc = "raise"
    BY <2>1, <2>2 DEF VodRun
  <2>4. capture' = [capture EXCEPT !.run = r]
    BY <1>1, <2>2 DEF V!Finish, V!SetRun, Indexed
  <2>5. QED BY <2>3, <2>4, StaysInv
<1>2. CASE Indexed
  <2>1. capture' = [capture EXCEPT !.state = "done", !.how = how, !.run = V!Idle]
    BY <1>2 DEF V!Finish, Indexed
  <2>2. VodTypes' /\ V!Run' = V!Idle /\ capture'.how = how
    BY <2>1, VodIdle DEF VodInv, VodTypes, V!Run
  <2>3. IndexOK'
    BY DEF VodInv, IndexOK, Indexed
  <2>4. Indexed' /\ DoneOK'
    BY <1>2, <2>2 DEF DoneOK, Indexed
  <2>5. QED BY <2>2, <2>3, <2>4, VodIdle DEF VodInv
<1>3. QED BY <1>1, <1>2

LEMMA BeginVod == VodInv /\ V!Begin => VodInv'
<1> SUFFICES ASSUME VodInv, V!Begin PROVE VodInv'
  OBVIOUS
<1>1. capture' = [capture EXCEPT !.state = "running", !.run = [V!Idle EXCEPT !.pc = "poll"]]
  BY DEF V!Begin
<1>2. PICK r \in VodRun : r = [V!Idle EXCEPT !.pc = "poll"] /\ r.pc = "poll"
  BY VodIdle
<1>3. VodTypes' /\ V!Run' = r /\ capture'.state = "running"
  BY <1>1, <1>2 DEF VodInv, VodTypes, V!Begin, V!Run
<1>4. IndexOK'
  BY DEF VodInv, IndexOK, Indexed, V!Begin
<1>5. QED BY <1>2, <1>3, <1>4 DEF VodInv

LEMMA FetchFailsVod == VodInv /\ V!FetchFails => VodInv'
<1> SUFFICES ASSUME VodInv, V!FetchFails PROVE VodInv'
  OBVIOUS
<1>1. V!Run \in VodRun /\ V!Run.pc = "poll" /\ capture.state = "running" /\ UNCHANGED <<vod, have, index>>
  BY VodTyped DEF VodInv, V!FetchFails, V!At
<1>2. PICK r \in VodRun : r = [V!Run EXCEPT !.pc = "raise"]
  BY <1>1 DEF VodRun
<1>3. PICK n \in Nat : n = V!Run.errors + 1
  BY <1>1 DEF VodRun
<1>4. PICK s \in VodRun : s = [V!Run EXCEPT !.errors = n]
  BY <1>1 DEF VodRun
<1>5. r.pc = "raise" /\ s.pc = "poll"
  BY <1>1, <1>2, <1>4 DEF VodRun
<1>6. \/ V!Finish("gone")
      \/ capture' = [capture EXCEPT !.run = r]
      \/ capture' = [capture EXCEPT !.run = s]
  BY <1>2, <1>3, <1>4 DEF V!FetchFails, V!SetRun
<1>7. QED BY <1>1, <1>5, <1>6, StaysInv, FinishInv

LEMMA FetchVod == VodInv /\ V!Fetch => VodInv'
<1> SUFFICES ASSUME VodInv, V!Fetch PROVE VodInv'
  OBVIOUS
<1> DEFINE listed == {<<k, vod.form[k]>> : k \in 1..vod.count}
<1>1. V!Run \in VodRun /\ capture.state = "running" /\ UNCHANGED <<vod, have, index>>
  BY VodTyped DEF VodInv, V!Fetch, V!At
<1>2. vod.count \in Nat /\ 1..vod.count \subseteq 1..Total /\ vod.form \in [1..Total -> Forms] /\ vod.ended \in BOOLEAN
  BY VodTyped DEF VodInv, VodTypes
<1>3. ASSUME NEW k \in 1..vod.count PROVE k \in Nat /\ vod.form[k] \in Forms
  <2>1. k \in 1..Total /\ k \in Nat
    BY <1>2
  <2>2. QED BY <1>2, <2>1
<1>4. listed \in SUBSET Pieces /\ Once(listed) /\ Seg(listed) = 1..vod.count
  <2>1. listed \in SUBSET Pieces
    BY <1>3 DEF Pieces
  <2>2. Once(listed)
    BY <1>3 DEF Once
  <2>3. \A k \in 1..vod.count : <<k, vod.form[k]>> \in listed /\ <<k, vod.form[k]>>[1] = k
    OBVIOUS
  <2>4. \A e \in listed : e[1] \in 1..vod.count
    OBVIOUS
  <2>5. QED BY <2>1, <2>2, <2>3, <2>4 DEF Seg
<1>5. V!There \in BOOLEAN
  BY VodConstants DEF VodInv, VodTypes, V!There, V!VodCaptureAssumption
<1> HIDE DEF listed
<1>6. PICK r \in VodRun : r = [V!Run EXCEPT !.errors = 0, !.there = V!There, !.ended = vod.ended, !.pc = "sync", !.listed = listed]
  BY <1>1, <1>2, <1>4, <1>5 DEF VodRun
<1>7. r.listed = listed /\ r.pc = "sync" /\ r.ended = vod.ended
  BY <1>1, <1>6 DEF VodRun
<1>8. capture' = [capture EXCEPT !.run = r]
  BY <1>6 DEF V!Fetch, V!SetRun, listed
<1>9. vod.count \in 0..vod.count /\ (Indexed => Seg(index) \subseteq 1..vod.count)
  BY <1>2 DEF VodInv, IndexOK
<1>10. FetchedOK(r)
  BY <1>4, <1>7, <1>9 DEF FetchedOK
<1>11. QED BY <1>1, <1>8, <1>10, StaysInv

\* A poll that is over: the local playlist, and where the capture goes on.
LEMMA PollAgainInv ==
  ASSUME VodInv, UNCHANGED <<vod, have, index>>, V!At("decide"), NEW stuck \in Nat, V!PollAgain(stuck)
  PROVE  VodInv'
<1>1. V!Run \in VodRun /\ V!Run.pc = "decide" /\ capture.state = "running"
  BY VodTyped DEF VodInv, V!At
<1>2. NoChangeLimit \in Nat /\ NoChangeLimit > 0
  BY VodConstants DEF V!VodCaptureAssumption
<1>3. PICK n \in Nat : n = IF V!Signature = V!Run.sig /\ V!Run.failed = {} THEN V!Run.unchanged + 1 ELSE 0
  BY <1>1 DEF VodRun
<1>4. V!Signature \in Sigs
  <2>1. PICK S \in SUBSET Pieces : S = V!Run.listed
    BY <1>1 DEF VodRun
  <2>2. V!Signature = <<Cardinality(S), {e \in S : e[1] = Cardinality(S)}>>
    BY <2>1, SameCount DEF V!Signature
  <2>3. QED BY <2>2 DEF Sigs
<1>5. {} \in SUBSET Pieces
  OBVIOUS
<1>6. PICK r \in VodRun : r = [V!Run EXCEPT !.unchanged = n, !.sig = V!Signature, !.stuck = stuck,
                                            !.listed = {}, !.failed = {}, !.pc = "poll"]
  BY <1>1, <1>3, <1>4, <1>5 DEF VodRun
<1>7. r.pc = "poll"
  BY <1>1, <1>6 DEF VodRun
<1>8. CASE n >= NoChangeLimit
  <2>1. V!Run.failed = {}
    BY <1>2, <1>3, <1>8
  <2>2. \E k \in 0..vod.count : Seg(index) = 1..k
    BY <1>1, <2>1 DEF VodInv, FetchedOK
  <2>3. V!Finish("unchanged")
    BY <1>3, <1>8 DEF V!PollAgain
  <2>4. QED BY <1>1, <2>2, <2>3, FinishInv
<1>9. CASE ~(n >= NoChangeLimit)
  <2>1. capture' = [capture EXCEPT !.run = r]
    BY <1>3, <1>6, <1>9 DEF V!PollAgain, V!SetRun
  <2>2. QED BY <1>1, <1>7, <2>1, StaysInv
<1>10. QED BY <1>8, <1>9

LEMMA DecideVod == VodInv /\ V!Decide => VodInv'
<1> SUFFICES ASSUME VodInv, V!Decide PROVE VodInv'
  OBVIOUS
<1>1. /\ V!Run \in VodRun /\ V!Run.pc = "decide" /\ capture.state = "running" /\ V!At("decide")
      /\ UNCHANGED <<vod, have, index>>
  BY VodTyped DEF VodInv, V!Decide, V!At
<1>2. PICK n \in 0..vod.count :
        /\ V!Run.ended => vod.ended /\ n = vod.count
        /\ V!Run.failed = {} => Seg(index) = 1..n
  BY <1>1 DEF VodInv, FetchedOK
<1>3. PICK r \in VodRun : r = [V!Run EXCEPT !.pc = "raise"]
  BY <1>1 DEF VodRun
<1>4. r.pc = "raise"
  BY <1>1, <1>3 DEF VodRun
<1>5. V!Run.stuck \in Nat /\ V!Run.stuck + 1 \in Nat
  BY <1>1 DEF VodRun
<1>6. \/ V!Run.failed = {} /\ V!Finish("once")
      \/ capture' = [capture EXCEPT !.run = r]
      \/ V!Finish("gone")
      \/ V!Run.failed = {} /\ V!Run.ended /\ V!Finish("ended")
      \/ V!PollAgain(V!Run.stuck + 1)
      \/ V!PollAgain(V!Run.stuck)
  BY <1>3 DEF V!Decide, V!SetRun
<1>7. CASE V!Run.failed = {} /\ V!Finish("once")
  BY <1>1, <1>2, <1>7, FinishInv
<1>8. CASE capture' = [capture EXCEPT !.run = r]
  BY <1>1, <1>4, <1>8, StaysInv
<1>9. CASE V!Finish("gone")
  BY <1>1, <1>9, FinishInv
<1>10. CASE V!Run.failed = {} /\ V!Run.ended /\ V!Finish("ended")
  BY <1>1, <1>2, <1>10, FinishInv
<1>11. CASE V!PollAgain(V!Run.stuck + 1) \/ V!PollAgain(V!Run.stuck)
  BY <1>1, <1>5, <1>11, PollAgainInv
<1>12. QED BY <1>6, <1>7, <1>8, <1>9, <1>10, <1>11

\* What a segment is taken from, and what is written of it.
LEMMA LocalPiece ==
  ASSUME NEW e \in Pieces, NEW H
  PROVE  /\ V!MutedCopy(e) \in Pieces /\ (V!MutedCopy(e))[1] = e[1]
         /\ V!Local(e, H) \in Pieces /\ (V!Local(e, H))[1] = e[1]
         /\ (V!Local(e, H))[2] = "unmuted" => V!Local(e, H) = e
         /\ <<e[1], "plain">> \in H => V!Local(e, H) = <<e[1], "plain">>
<1>1. e[1] \in Nat /\ e[2] \in Forms /\ e = <<e[1], e[2]>>
  BY DEF Pieces
<1>2. V!MutedForm(e[2]) \in Forms /\ V!MutedForm(e[2]) # "unmuted"
  BY <1>1 DEF V!MutedForm, Forms
<1>3. V!MutedCopy(e) = <<e[1], V!MutedForm(e[2])>> /\ V!MutedCopy(e) \in Pieces
  BY <1>1, <1>2 DEF V!MutedCopy, Pieces
<1>4. <<e[1], "plain">> \in Pieces
  BY <1>1 DEF Pieces, Forms
<1>5. V!Local(e, H) = <<e[1], "plain">> \/ V!Local(e, H) = V!MutedCopy(e) \/ V!Local(e, H) = e
  BY DEF V!Local
<1>6. <<e[1], "plain">>[2] # "unmuted" /\ (V!MutedCopy(e))[2] # "unmuted"
  BY <1>2, <1>3
<1>7. <<e[1], "plain">> \in H => V!Local(e, H) = <<e[1], "plain">>
  BY DEF V!Local
<1>8. QED BY <1>1, <1>3, <1>4, <1>5, <1>6, <1>7

\* What is written of a listed segment.
Written(e, copied) == IF V!Local(e, have) \in copied THEN V!MutedCopy(e) ELSE V!Local(e, have)

LEMMA SyncWrites ==
  ASSUME VodInv, NEW failed, NEW copied, V!Sync(failed, copied)
  PROVE  /\ V!Run.listed \subseteq Pieces /\ FetchedOK(V!Run)
         /\ index' = {Written(e, copied) : e \in V!Run.listed} \cap have'
         /\ \A e \in V!Run.listed :
              /\ Written(e, copied) \in Pieces /\ Written(e, copied)[1] = e[1]
              /\ failed \ copied = {} => Written(e, copied) \in have'
              /\ <<e[1], "plain">> \in have => Written(e, copied) = <<e[1], "plain">> /\ Written(e, copied) \in have'
         /\ failed \ copied \in SUBSET Pieces
<1>1. V!Run.listed \subseteq Pieces /\ FetchedOK(V!Run)
  BY VodTyped DEF VodInv, VodRun, V!Sync, V!At
<1>2. index' = {Written(e, copied) : e \in V!Run.listed} \cap have'
  BY DEF V!Sync, Written
<1>3. /\ failed \subseteq V!Todo /\ copied \subseteq failed
      /\ \A e \in copied : e[2] = "unmuted"
      /\ have' = have \cup (V!Todo \ failed) \cup {V!MutedCopy(e) : e \in copied}
  BY DEF V!Sync
<1>4. \A e \in V!Run.listed : V!Local(e, have) \in have \/ V!Local(e, have) \in V!Todo
  BY DEF V!Todo
<1>5. \A x \in V!Todo : x \notin have
  BY DEF V!Todo
<1>6. ASSUME NEW e \in V!Run.listed
      PROVE  /\ Written(e, copied) \in Pieces /\ Written(e, copied)[1] = e[1]
             /\ failed \ copied = {} => Written(e, copied) \in have'
             /\ <<e[1], "plain">> \in have => Written(e, copied) = <<e[1], "plain">> /\ Written(e, copied) \in have'
  <2>1. e \in Pieces
    BY <1>1
  <2>2. Written(e, copied) \in Pieces /\ Written(e, copied)[1] = e[1]
    BY <2>1, LocalPiece DEF Written
  <2>3. ASSUME V!Local(e, have) \in copied PROVE Written(e, copied) \in have'
    <3>1. V!Local(e, have) = e
      BY <1>3, <2>1, <2>3, LocalPiece
    <3>2. Written(e, copied) = V!MutedCopy(e) /\ e \in copied
      BY <2>3, <3>1 DEF Written
    <3>3. QED BY <1>3, <3>2
  <2>4. ASSUME V!Local(e, have) \notin copied, failed \ copied = {} PROVE Written(e, copied) \in have'
    <3>1. Written(e, copied) = V!Local(e, have)
      BY <2>4 DEF Written
    <3>2. QED BY <1>3, <1>4, <2>4, <3>1
  <2>5. ASSUME <<e[1], "plain">> \in have
        PROVE  Written(e, copied) = <<e[1], "plain">> /\ Written(e, copied) \in have'
    <3>1. V!Local(e, have) = <<e[1], "plain">> /\ V!Local(e, have) \notin copied
      BY <1>3, <1>5, <2>1, <2>5, LocalPiece
    <3>2. QED BY <1>3, <2>5, <3>1 DEF Written
  <2>6. QED BY <2>2, <2>3, <2>4, <2>5
<1>7. V!Todo \subseteq Pieces
  <2>1. \A e \in V!Run.listed : V!Local(e, have) \in Pieces
    BY <1>1, LocalPiece
  <2>2. QED BY <2>1 DEF V!Todo
<1>8. QED BY <1>1, <1>2, <1>3, <1>6, <1>7

LEMMA SyncVod ==
  ASSUME VodInv, NEW failed, NEW copied, V!Sync(failed, copied)
  PROVE  VodInv'
<1>1. /\ V!Run \in VodRun /\ capture.state = "running" /\ V!Run.pc = "sync" /\ VodTypes
      /\ UNCHANGED vod /\ have \subseteq have' /\ index' \subseteq have'
  BY VodTyped DEF VodInv, V!Sync, V!At
<1>2. PICK n \in 0..vod.count :
        /\ Once(V!Run.listed) /\ Seg(V!Run.listed) = 1..n
        /\ V!Run.ended => vod.ended /\ n = vod.count
  BY SyncWrites DEF FetchedOK
<1>3. \A e \in V!Run.listed : Written(e, copied)[1] = e[1] /\ e[1] \in 1..n
  <2>1. \A e \in V!Run.listed : e[1] \in Seg(V!Run.listed)
    BY DEF Seg
  <2>2. QED BY <1>2, <2>1, SyncWrites
<1>4. index' = {Written(e, copied) : e \in V!Run.listed} \cap have'
  BY SyncWrites
<1>5. Once(index')
  BY <1>2, <1>3, <1>4 DEF Once
<1>6. \A x \in index' : x[1] \in 1..n
  BY <1>3, <1>4
<1>7. Seg(index') \subseteq 1..n
  BY <1>6 DEF Seg
<1>8. vod.count \in Nat /\ n \in Nat /\ 1..n \subseteq 1..vod.count
  BY <1>1, VodTyped
<1>9. index' # V!NoIndex
  <2>1. <<0, "none">>[1] \notin 1..n
    BY <1>8
  <2>2. QED BY <1>6, <2>1 DEF V!NoIndex
<1>10. ASSUME failed \ copied = {} PROVE Seg(index') = 1..n
  <2>1. ASSUME NEW k \in 1..n PROVE k \in Seg(index')
    <3>1. PICK e \in V!Run.listed : e[1] = k
      BY <1>2 DEF Seg
    <3>2. Written(e, copied) \in index' /\ Written(e, copied)[1] = k
      BY <1>3, <1>4, <1>10, <3>1, SyncWrites
    <3>3. QED BY <3>2 DEF Seg
  <2>2. QED BY <1>7, <2>1
<1>11. PICK r \in VodRun : r = [V!Run EXCEPT !.failed = failed \ copied, !.pc = "decide"]
  BY <1>1, SyncWrites DEF VodRun
<1>12. /\ r.listed = V!Run.listed /\ r.ended = V!Run.ended /\ r.pc = "decide" /\ r.failed = failed \ copied
       /\ capture' = [capture EXCEPT !.run = r]
  BY <1>1, <1>11 DEF VodRun, V!Sync, V!SetRun
<1>13. VodTypes' /\ V!Run' = r /\ capture'.state = "running"
  BY <1>1, <1>12 DEF VodTypes, V!Run
<1>14. IndexOK'
  BY <1>1, <1>5, <1>7, <1>8 DEF IndexOK, Indexed
<1>15. FetchedOK(V!Run)'
  <2>1. /\ n \in 0..vod'.count /\ Once(r.listed) /\ Seg(r.listed) = 1..n
        /\ r.ended => vod'.ended /\ n = vod'.count
    BY <1>1, <1>2, <1>12
  <2>2. Indexed' /\ Seg(index') \subseteq 1..n /\ (r.failed = {} => Seg(index') = 1..n)
    BY <1>7, <1>9, <1>10, <1>12 DEF Indexed
  <2>3. QED BY <1>13, <2>1, <2>2 DEF FetchedOK
<1>16. QED BY <1>13, <1>14, <1>15 DEF VodInv

LEMMA RaisedVod ==
  ASSUME VodInv, V!Raised, UNCHANGED <<vod, have, index>>
  PROVE  VodInv'
<1>1. PICK n \in Nat : n = capture.attempts + 1
  BY DEF VodInv, VodTypes
<1>2. V!Leaves("failed", n) \/ V!Leaves("queued", n)
  BY <1>1 DEF V!Raised
<1>3. QED BY <1>2, LeavesInv

LEMMA VodNextInv == VodInv /\ [V!Next]_V!vars => VodInv'
<1> SUFFICES ASSUME VodInv, [V!Next]_V!vars PROVE VodInv'
  OBVIOUS
<1>1. CASE V!Step
  BY <1>1, BeginVod, FetchFailsVod, FetchVod, DecideVod, RaisedVod, SyncVod DEF V!Step, V!StepError
<1>2. CASE V!Raises
  BY <1>2, RaisedVod DEF V!Raises
<1>3. ASSUME NEW got, V!Interrupt(got) PROVE VodInv'
  <2>1. V!Leaves("queued", capture.attempts) /\ have \subseteq have' /\ UNCHANGED <<vod, index>>
    BY <1>3 DEF V!Interrupt
  <2>2. capture.attempts \in Nat
    BY DEF VodInv, VodTypes
  <2>3. QED BY <2>1, <2>2, LeavesInv
<1>4. CASE UNCHANGED V!vars
  BY <1>4 DEF V!vars, VodInv, VodTypes, IndexOK, Indexed, FetchedOK, DoneOK, V!Run
<1>5. QED BY <1>1, <1>2, <1>3, <1>4, TwitchSteps DEF V!Next

\* What plays with its sound goes on doing so.
LEMMA SoundStays ==
  ASSUME VodInv, [V!Next]_V!vars
  PROVE  [\A k \in 1..Total : <<k, "plain">> \in index => <<k, "plain">> \in index']_V!vars
<1> SUFFICES ASSUME NEW k \in 1..Total, <<k, "plain">> \in index PROVE <<k, "plain">> \in index'
  BY DEF V!vars
<1>1. CASE UNCHANGED index
  BY <1>1
<1>2. ASSUME NEW failed, NEW copied, V!Sync(failed, copied) PROVE <<k, "plain">> \in index'
  <2>1. Indexed
    BY VodTyped DEF Indexed, V!NoIndex, VodInv
  <2>2. <<k, "plain">> \in have
    BY <2>1 DEF VodInv, IndexOK
  <2>3. k \in Seg(index)
    BY DEF Seg
  <2>4. PICK e \in V!Run.listed : e[1] = k
    BY <1>2, <2>1, <2>3, SyncWrites DEF FetchedOK, Seg
  <2>5. Written(e, copied) = <<k, "plain">> /\ Written(e, copied) \in have'
    BY <1>2, <2>2, <2>4, SyncWrites
  <2>6. QED BY <1>2, <2>4, <2>5, SyncWrites
<1>3. CASE V!Next
  <2>1. \/ UNCHANGED index
        \/ \E failed \in SUBSET V!Todo, copied \in SUBSET V!Todo : V!Sync(failed, copied)
    BY <1>3 DEF V!Next, V!Step, V!Begin, V!FetchFails, V!Fetch, V!Decide, V!StepError, V!Raises, V!Interrupt,
                V!Grows, V!Mutes, V!StreamEnds, V!VodEnds, V!Removed, V!Twitch
  <2>2. QED BY <1>1, <1>2, <2>1
<1>4. QED BY <1>1, <1>3 DEF V!vars

LEMMA IndexCounted ==
  ASSUME NEW S, NEW n \in Nat, Once(S), Seg(S) = 1..n
  PROVE  Cardinality(S) = n
<1> DEFINE f == [k \in 1..n |-> CHOOSE e \in S : e[1] = k]
<1>1. \A k \in 1..n : f[k] \in S /\ f[k][1] = k
  <2>1. \A k \in 1..n : \E e \in S : e[1] = k
    BY DEF Seg
  <2>2. QED BY <2>1
<1>2. \A e \in S : e[1] \in 1..n
  BY DEF Seg
<1>3. \A e \in S : f[e[1]] = e
  BY <1>1, <1>2 DEF Once
<1>4. f \in [1..n -> S]
  BY <1>1
<1> HIDE DEF f
<1>5. f \in Bijection(1..n, S)
  BY <1>1, <1>2, <1>3, <1>4 DEF Bijection, Injection, Surjection, IsInjective
<1>6. IsFiniteSet(1..n) /\ Cardinality(1..n) = n
  BY FS_Interval
<1>7. ExistsBijection(1..n, S)
  BY <1>5 DEF ExistsBijection
<1>8. QED BY <1>6, <1>7, FS_Bijection

LEMMA VodWhole == VodInv => V!FinishedWhole
<1> SUFFICES ASSUME VodInv, capture.state = "done"
             PROVE  /\ index \subseteq have
                    /\ \A e, f \in index : e[1] = f[1] => e = f
                    /\ capture.how = "ended" => {e[1] : e \in index} = 1..vod.count
                    /\ capture.how # "gone" => {e[1] : e \in index} = 1..Cardinality(index)
  BY SameCount DEF V!FinishedWhole
<1>1. Indexed /\ DoneOK
  BY DEF VodInv, DoneOK
<1>2. index \subseteq have /\ Once(index)
  BY <1>1 DEF VodInv, IndexOK
<1>3. ASSUME capture.how # "gone" PROVE Seg(index) = 1..Cardinality(index)
  <2>1. PICK n \in 0..vod.count : Seg(index) = 1..n
    BY <1>1, <1>3 DEF DoneOK
  <2>2. n \in Nat
    BY VodTyped DEF VodInv
  <2>3. Cardinality(index) = n
    BY <1>2, <2>1, <2>2, IndexCounted
  <2>4. QED BY <2>1, <2>3
<1>4. QED BY <1>1, <1>2, <1>3 DEF Once, Seg, DoneOK

----------------------------------------------------------------------------
(* The live recording (LiveRecord).                                         *)

Numbers   == Nat \cup {NoSeq}
Entries   == [stream : Streams, seq : Nat, disc : BOOLEAN]
Shaped(p)  == p = [last |-> p.last, init |-> p.init, timeline |-> p.timeline] /\ p.last \in Numbers
JobShaped == /\ job = [state |-> job.state, attempts |-> job.attempts, saved |-> job.saved, mem |-> job.mem]
             /\ Shaped(job.saved) /\ Shaped(job.mem)
LiveRun   == [pc : {"idle", "loop", "init", "download", "index", "after", "finish"}, variant : Streams \cup {None},
             pending : BOOLEAN, idle : Int, failures : Int, new : SUBSET Nat, lost : SUBSET Nat, ended : BOOLEAN]
LiveTypes ==
  /\ air \in [stream : Streams, on : BOOLEAN, head : Nat]
  /\ journal \in Seq(Entries)
  /\ JobShaped
  /\ run \in LiveRun
  /\ starts \subseteq [at : Nat, from : Numbers]

Running  == job.state = "running"
Latest   == journal[Len(journal)]
InBatch  == Running /\ run.pc \in {"init", "download", "index"}

\* A run knows how far the journal is, or began without knowing.
Known ==
  Running => /\ \A i \in DOMAIN journal : Forgotten(i) \/ journal[i].seq <= job.mem.last
             /\ job.saved.last <= job.mem.last
             /\ job.mem.last = NoSeq => \E s \in starts : s.at = Len(journal) /\ s.from = NoSeq

\* A batch is a stretch of the playlist past last_seq, and what was skipped before it is excused.
BatchOK ==
  InBatch =>
    /\ run.variant # None
    /\ \E a, b \in Nat : run.new = a..b
    /\ \A q \in run.new : job.mem.last < q /\ First[run.variant] <= q
    /\ \A p \in run.new, q \in Nat :
         First[run.variant] <= q /\ job.mem.last < q /\ q < p /\ q \notin run.new => <<run.variant, q>> \in excused
    /\ ~run.pending /\ job.mem.last >= 0 /\ run.new # {} => job.mem.last + 1 \in run.new

\* Before its lines are written, the batch's files are there.
FilesOK ==
  At("index") =>
    /\ run.lost \subseteq run.new
    /\ \A q \in run.lost : <<run.variant, q>> \in excused
    /\ \A q \in Kept(run) : q \in DOMAIN files /\ files[q] = run.variant

\* With no discontinuity pending, the journal ends where the run is.
Pending ==
  Running /\ ~run.pending /\ job.mem.last >= 0 =>
    /\ journal # <<>> /\ Latest.seq = job.mem.last
    /\ Latest.stream = run.variant

\* The journal's last entry is of the stream that is on or of an earlier one.
LatestOK ==
  /\ run.variant <= air.stream
  /\ journal # <<>> => /\ First[Latest.stream] <= Latest.seq /\ Latest.stream <= air.stream
                       /\ Running /\ run.variant # None => Latest.stream <= run.variant

\* From the journal's end to where a run may go on, nothing of the same stream is left out without excuse.
Covered(l) ==
  journal # <<>> /\ Latest.stream \in {air.stream, run.variant} =>
    \A q \in Nat : Latest.seq < q /\ q <= l => <<Latest.stream, q>> \in Ads \cup excused

LiveInv ==
  /\ LiveTypes /\ Known /\ BatchOK /\ FilesOK /\ Pending /\ LatestOK
  /\ Covered(job.saved.last) /\ Covered(job.mem.last)
  /\ InOrder /\ GapsMarked /\ NothingMissed

LEMMA LiveConstants ==
  /\ Len(First) \in Nat /\ Len(First) >= 1 /\ Streams = 1..Len(First)
  /\ \A s \in Streams : First[s] \in Nat
  /\ 1 \in Streams /\ Len(First) \in Streams
  /\ Window \in Nat /\ Window >= 1 /\ IdleLimit \in Nat /\ FailLimit \in Nat
<1>1. Len(First) \in Nat /\ Len(First) >= 1
  BY LiveRecordAssumption
<1>2. \A s \in 1..Len(First) : First[s] \in Nat
  BY LiveRecordAssumption
<1>3. QED BY <1>1, <1>2, LiveRecordAssumption DEF Streams

LEMMA LiveIdle == Idle \in LiveRun /\ Idle.variant = None /\ Idle.pc = "idle"
<1>1. {} \in SUBSET Nat
  OBVIOUS
<1>2. QED BY <1>1 DEF Idle, LiveRun

LEMMA LiveTyped ==
  ASSUME LiveTypes
  PROVE  /\ air.stream \in Streams /\ air.head \in Nat /\ air.stream \in Nat
         /\ run.variant \in Nat /\ run.variant \in Streams \cup {None}
         /\ run.new \in SUBSET Nat /\ run.lost \in SUBSET Nat
         /\ job.mem.last \in Numbers /\ job.saved.last \in Numbers
         /\ Len(journal) \in Nat /\ DOMAIN journal = 1..Len(journal)
         /\ \A i \in 1..Len(journal) : journal[i] \in Entries /\ journal[i].seq \in Nat /\ journal[i].stream \in Streams
         /\ journal # <<>> => Len(journal) \in 1..Len(journal) /\ Latest.seq \in Nat /\ Latest.stream \in Streams
<1>1. air.stream \in Streams /\ air.head \in Nat /\ air.stream \in Nat
  BY LiveConstants DEF LiveTypes
<1>2. /\ run.variant \in Streams \cup {None} /\ run.new \in SUBSET Nat /\ run.lost \in SUBSET Nat
  BY DEF LiveTypes, LiveRun
<1>3. run.variant \in Nat
  BY <1>2, LiveConstants DEF None
<1>4. journal \in Seq(Entries)
  BY DEF LiveTypes
<1>5. Len(journal) \in Nat /\ DOMAIN journal = 1..Len(journal) /\ \A i \in 1..Len(journal) : journal[i] \in Entries
  BY <1>4
<1>6. \A e \in Entries : e.seq \in Nat /\ e.stream \in Streams
  BY DEF Entries
<1>7. journal # <<>> => Len(journal) \in 1..Len(journal)
  BY <1>4, <1>5
<1>8. job.mem.last \in Numbers /\ job.saved.last \in Numbers
  BY DEF LiveTypes, JobShaped, Shaped
<1>9. QED BY <1>1, <1>2, <1>3, <1>5, <1>6, <1>7, <1>8 DEF Latest

LEMMA LiveInitInv == Init \/ NoLiveJob => LiveInv
<1> SUFFICES ASSUME Init \/ NoLiveJob PROVE LiveInv
  OBVIOUS
<1>1. /\ air.stream \in Streams /\ air.on \in BOOLEAN /\ air.head \in Nat
      /\ air = [stream |-> air.stream, on |-> air.on, head |-> air.head]
  <2>1. CASE Init
    BY <2>1, LiveConstants DEF Init
  <2>2. CASE NoLiveJob
    BY <2>2, LiveConstants DEF NoLiveJob
  <2>3. QED BY <2>1, <2>2
<1>2. journal = <<>> /\ starts = {} /\ run = Idle /\ job.state # "running"
  BY DEF Init, NoLiveJob
<1>3. job.saved = NoPayload /\ job.mem = NoPayload
      /\ job = [state |-> job.state, attempts |-> job.attempts, saved |-> job.saved, mem |-> job.mem]
  BY DEF Init, NoLiveJob
<1>4. Shaped(NoPayload)
  BY DEF Shaped, NoPayload, Numbers
<1>5. LiveTypes
  BY <1>1, <1>2, <1>3, <1>4, LiveIdle DEF LiveTypes, JobShaped
<1>6. Known /\ BatchOK /\ FilesOK /\ Pending
  BY <1>2 DEF Known, BatchOK, FilesOK, Pending, Running, InBatch, At
<1>7. LatestOK /\ Covered(job.saved.last) /\ Covered(job.mem.last)
  BY <1>1, <1>2, LiveIdle, LiveConstants DEF LatestOK, Covered, None
<1>8. Len(journal) = 0 /\ DOMAIN journal = {}
  BY <1>2
<1>9. InOrder /\ GapsMarked /\ NothingMissed
  BY <1>8 DEF InOrder, GapsMarked, NothingMissed
<1>10. QED BY <1>5, <1>6, <1>7, <1>9 DEF LiveInv

\* What does not add to the journal.
LEMMA RecordStays ==
  ASSUME LiveInv, UNCHANGED <<journal, files>>, starts \subseteq starts', excused \subseteq excused'
  PROVE  InOrder' /\ GapsMarked' /\ NothingMissed'
<1>1. InOrder /\ GapsMarked /\ NothingMissed
  BY DEF LiveInv
<1>2. InOrder'
  BY <1>1 DEF InOrder, Forgotten
<1>3. GapsMarked'
  BY <1>1 DEF GapsMarked
<1>4. NothingMissed'
  BY <1>1 DEF NothingMissed, Between
<1>5. QED BY <1>2, <1>3, <1>4

LEMMA CoveredStays ==
  ASSUME LiveInv, UNCHANGED journal, excused \subseteq excused', NEW l, Covered(l),
         air'.stream \in {air.stream, air.stream + 1}, run'.variant \in {run.variant, None, air.stream}
  PROVE  Covered(l)'
<1> SUFFICES ASSUME journal # <<>>, Latest.stream \in {air'.stream, run'.variant},
                    NEW q \in Nat, Latest.seq < q, q <= l
             PROVE  <<Latest.stream, q>> \in Ads \cup excused'
  BY DEF Covered, Latest
<1>1. Latest.stream \in Nat /\ Latest.stream >= 1 /\ Latest.stream <= air.stream /\ air.stream \in Nat
  BY LiveTyped, LiveConstants DEF LiveInv, LatestOK
<1>2. Latest.stream \in {air.stream, run.variant}
  BY <1>1 DEF None
<1>3. QED BY <1>2 DEF Covered

\* Where the channel goes, the recording does not follow at once.
LEMMA ChannelInv ==
  ASSUME LiveInv, UNCHANGED <<job, run, Recording>>, air' \in [stream : Streams, on : BOOLEAN, head : Nat],
         air'.stream \in {air.stream, air.stream + 1}
  PROVE  LiveInv'
<1>1. UNCHANGED <<journal, files, starts, excused, job, run>>
  BY DEF Recording
<1>2. LiveTypes' /\ Known' /\ BatchOK' /\ FilesOK' /\ Pending'
  <2>1. LiveTypes'
    BY <1>1 DEF LiveInv, LiveTypes, JobShaped, Shaped
  <2>2. Known'
    BY <1>1 DEF LiveInv, Known, Forgotten, Running
  <2>3. BatchOK' /\ FilesOK'
    BY <1>1 DEF LiveInv, BatchOK, FilesOK, Running, InBatch, At, Kept, Ad
  <2>4. Pending'
    BY <1>1 DEF LiveInv, Pending, Running, Latest
  <2>5. QED BY <2>1, <2>2, <2>3, <2>4
<1>3. Covered(job.saved.last)'
  BY <1>1, CoveredStays DEF LiveInv
<1>4. Covered(job.mem.last)'
  BY <1>1, CoveredStays DEF LiveInv
<1>5. LatestOK'
  <2>1. air.stream \in Nat /\ air'.stream \in Nat /\ air.stream <= air'.stream /\ run.variant \in Nat
    BY LiveTyped DEF LiveInv
  <2>2. journal # <<>> => Latest.stream \in Nat
    BY LiveTyped, LiveConstants DEF LiveInv
  <2>3. run'.variant <= air'.stream
    BY <1>1, <2>1 DEF LiveInv, LatestOK
  <2>4. journal # <<>> => Latest.stream <= air'.stream
    BY <2>1, <2>2 DEF LiveInv, LatestOK
  <2>5. Latest' = Latest /\ Running' = Running
    BY <1>1 DEF Latest, Running
  <2>6. QED BY <1>1, <2>3, <2>4, <2>5 DEF LiveInv, LatestOK
<1>6. InOrder' /\ GapsMarked' /\ NothingMissed'
  BY <1>1, RecordStays
<1>7. QED BY <1>2, <1>3, <1>4, <1>5, <1>6 DEF LiveInv

LEMMA ChannelSteps == LiveInv /\ (Airs \/ Ends \/ NextStream \/ HelixSees) => LiveInv'
<1> SUFFICES ASSUME LiveInv, Airs \/ Ends \/ NextStream \/ HelixSees PROVE LiveInv'
  OBVIOUS
<1>1. air \in [stream : Streams, on : BOOLEAN, head : Nat]
  BY DEF LiveInv, LiveTypes
<1>2. UNCHANGED <<job, run, Recording>>
  BY DEF Airs, Ends, NextStream, HelixSees
<1>3. air' \in [stream : Streams, on : BOOLEAN, head : Nat] /\ air'.stream \in {air.stream, air.stream + 1}
  <2>1. CASE Airs
    BY <1>1, <2>1 DEF Airs
  <2>2. CASE Ends
    BY <1>1, <2>2 DEF Ends
  <2>3. CASE NextStream
    <3>1. air.stream + 1 \in Streams
      BY <1>1, <2>3, LiveConstants DEF NextStream
    <3>2. QED BY <2>3, <3>1, LiveConstants DEF NextStream
  <2>4. CASE HelixSees
    BY <1>1, <2>4 DEF HelixSees
  <2>5. QED BY <2>1, <2>2, <2>3, <2>4
<1>4. QED BY <1>2, <1>3, ChannelInv

\* A run that ends without returning.
LEMMA LeavesLive ==
  ASSUME LiveInv, UNCHANGED <<air, Recording>>, NEW state, state # "running", NEW n, Leaves(state, n)
  PROVE  LiveInv'
<1>1. UNCHANGED <<air, journal, files, starts, excused>> /\ run' = Idle
  BY DEF Recording, Leaves
<1>2. PICK payload \in {job.mem, job.saved} :
        job' = [state |-> state, attempts |-> n, saved |-> payload, mem |-> payload]
  BY DEF Leaves
<1>3. Shaped(payload) /\ Covered(payload.last)
  BY DEF LiveInv, LiveTypes, JobShaped
<1>4. job'.state = state /\ job'.saved = payload /\ job'.mem = payload
  BY <1>2
<1>5. LiveTypes'
  <2>1. job' = [state |-> job'.state, attempts |-> job'.attempts, saved |-> job'.saved, mem |-> job'.mem]
    BY <1>2
  <2>2. Shaped(job.saved)' /\ Shaped(job.mem)'
    BY <1>3, <1>4 DEF Shaped
  <2>3. QED BY <1>1, <2>1, <2>2, LiveIdle DEF LiveInv, LiveTypes, JobShaped
<1>6. ~Running' /\ ~At("index")'
  BY <1>4 DEF Running, At
<1>7. Known' /\ BatchOK' /\ FilesOK' /\ Pending'
  BY <1>6 DEF Known, BatchOK, FilesOK, Pending, InBatch
<1>8. run'.variant = None /\ air.stream \in Nat
  BY <1>1, LiveIdle, LiveTyped DEF LiveInv
<1>9. LatestOK'
  BY <1>1, <1>8 DEF LiveInv, LatestOK, Latest, None
<1>10. Covered(job.saved.last)' /\ Covered(job.mem.last)'
  BY <1>3, <1>4, <1>8, <1>1, CoveredStays
<1>11. InOrder' /\ GapsMarked' /\ NothingMissed'
  BY <1>1, RecordStays
<1>12. QED BY <1>5, <1>7, <1>9, <1>10, <1>11 DEF LiveInv

----------------------------------------------------------------------------
(* A run of the step, from poll to poll.                                    *)

\* A step that leaves the recording alone and does not put last_seq back.
LEMMA GoesOn ==
  ASSUME LiveInv, LiveTypes', UNCHANGED <<air, journal, files, starts>>, excused \subseteq excused', Running, Running',
         job'.mem.last = job.mem.last, job'.saved.last \in {job.saved.last, job.mem.last},
         run'.variant \in {run.variant, None, air.stream},
         run'.pending \/ (~run.pending /\ (run'.variant = run.variant \/ run.variant = None)),
         BatchOK', FilesOK'
  PROVE  LiveInv'
<1>1. Known'
  <2>1. job.mem.last <= job.mem.last /\ job.saved.last <= job.mem.last
    BY LiveTyped DEF LiveInv, Known, Numbers, NoSeq
  <2>2. job'.saved.last <= job'.mem.last
    BY <2>1
  <2>3. \A i \in DOMAIN journal : Forgotten(i) => Forgotten(i)'
    BY DEF Forgotten
  <2>4. QED BY <2>2, <2>3 DEF LiveInv, Known
<1>2. Pending'
  <2>1. CASE run'.pending
    BY <2>1 DEF Pending
  <2>2. CASE ~run.pending /\ run'.variant = run.variant
    BY <2>2 DEF LiveInv, Pending, Latest
  <2>3. CASE ~run.pending /\ run.variant = None
    <3>1. ~(job.mem.last >= 0)
      BY <2>3, LiveTyped, LiveConstants DEF LiveInv, Pending, None
    <3>2. QED BY <3>1 DEF Pending
  <2>4. QED BY <2>1, <2>2, <2>3
<1>3. LatestOK'
  <2>1. /\ air.stream \in Nat /\ run.variant \in Nat
        /\ journal # <<>> => Latest.stream \in Nat /\ Latest.stream >= 1
    BY LiveTyped, LiveConstants DEF LiveInv
  <2>2. Latest' = Latest
    BY DEF Latest
  <2>3. QED BY <2>1, <2>2 DEF LiveInv, LatestOK, None
<1>4. Covered(job.mem.last)' /\ Covered(job.saved.last)'
  <2>1. Covered(job.mem.last) /\ Covered(job.saved.last)
    BY DEF LiveInv
  <2>2. QED BY <2>1, CoveredStays
<1>5. InOrder' /\ GapsMarked' /\ NothingMissed'
  BY RecordStays
<1>6. QED BY <1>1, <1>2, <1>3, <1>4, <1>5 DEF LiveInv

\* The job's payload when one field of it changes, and when it is saved.
LEMMA MemSet ==
  ASSUME LiveTypes
  PROVE  /\ \A x \in Numbers : job' = [job EXCEPT !.mem.last = x] =>
              JobShaped' /\ job'.mem.last = x /\ job'.saved = job.saved /\ job'.state = job.state
         /\ job' = [job EXCEPT !.mem.init = TRUE] =>
              JobShaped' /\ job'.mem.last = job.mem.last /\ job'.saved = job.saved /\ job'.state = job.state
         /\ job' = [job EXCEPT !.saved = job.mem] =>
              JobShaped' /\ job'.mem = job.mem /\ job'.saved = job.mem /\ job'.state = job.state
<1>1. ASSUME NEW st, NEW at, NEW p, NEW m, Shaped(p), Shaped(m), NEW x \in Numbers,
             job = [state |-> st, attempts |-> at, saved |-> p, mem |-> m],
             \/ job' = [job EXCEPT !.mem.last = x]
             \/ job' = [job EXCEPT !.mem.init = TRUE]
             \/ job' = [job EXCEPT !.saved = job.mem]
      PROVE  JobShaped'
  <2>1. CASE job' = [job EXCEPT !.mem.last = x]
    BY <1>1, <2>1 DEF JobShaped, Shaped
  <2>2. CASE job' = [job EXCEPT !.mem.init = TRUE]
    BY <1>1, <2>2 DEF JobShaped, Shaped
  <2>3. CASE job' = [job EXCEPT !.saved = job.mem]
    BY <1>1, <2>3 DEF JobShaped, Shaped
  <2>4. QED BY <1>1, <2>1, <2>2, <2>3
<1>2. QED BY <1>1 DEF LiveTypes, JobShaped, Shaped, Numbers

LEMMA BeginLive == LiveInv /\ Begin => LiveInv'
<1> SUFFICES ASSUME LiveInv, Begin PROVE LiveInv'
  OBVIOUS
<1> DEFINE s == [at |-> Len(journal), from |-> job.saved.last]
<1>1. /\ UNCHANGED <<air, journal, files, excused>> /\ ~Running
      /\ job' = [job EXCEPT !.state = "running", !.mem = job.saved]
      /\ run' = [Idle EXCEPT !.pc = "loop", !.pending = job.saved.last >= 0]
      /\ starts' = starts \cup {s}
  BY DEF Begin, Running, Channel
<1>2. job'.state = "running" /\ job'.mem = job.saved /\ job'.saved = job.saved /\ JobShaped'
  BY <1>1 DEF LiveInv, LiveTypes, JobShaped, Shaped
<1>3. job.saved.last \in Numbers /\ s \in [at : Nat, from : Numbers]
  BY LiveTyped DEF LiveInv
<1>4. run' \in LiveRun /\ run'.pc = "loop" /\ run'.variant = None /\ (run'.pending <=> job.saved.last >= 0)
  <2>1. PICK b \in BOOLEAN : run' = [Idle EXCEPT !.pc = "loop", !.pending = b] /\ (b <=> job.saved.last >= 0)
    <3>1. CASE job.saved.last >= 0
      BY <1>1, <3>1
    <3>2. CASE ~(job.saved.last >= 0)
      <4>1. job.saved.last \in Int
        BY <1>3 DEF Numbers, NoSeq
      <4>2. (job.saved.last >= 0) = FALSE
        BY <3>2, <4>1
      <4>3. run' = [Idle EXCEPT !.pc = "loop", !.pending = FALSE]
        BY <1>1, <4>2
      <4>4. QED BY <3>2, <4>3
    <3>3. QED BY <3>1, <3>2
  <2>2. run' \in LiveRun /\ run'.pc = "loop" /\ run'.variant = None /\ run'.pending = b
    BY <2>1, LiveIdle DEF LiveRun
  <2>3. QED BY <2>1, <2>2
<1>5. LiveTypes'
  BY <1>1, <1>2, <1>3, <1>4 DEF LiveInv, LiveTypes
<1>6. BatchOK' /\ FilesOK'
  BY <1>4 DEF BatchOK, FilesOK, InBatch, At
<1>7. Pending'
  BY <1>2, <1>4 DEF Pending
<1>8. LatestOK'
  BY <1>1, <1>4, LiveTyped DEF LiveInv, LatestOK, Latest, None
<1>9. Covered(job.saved.last)' /\ Covered(job.mem.last)'
  <2>1. Covered(job.saved.last)
    BY DEF LiveInv
  <2>2. QED BY <1>1, <1>2, <1>4, <2>1, CoveredStays
<1>10. InOrder' /\ GapsMarked' /\ NothingMissed'
  BY <1>1, RecordStays
<1>11. Known'
  <2>1. s \in starts' /\ s.at = Len(journal) /\ s.from = job.saved.last
    BY <1>1
  <2>2. ASSUME NEW i \in DOMAIN journal, ~(journal[i].seq <= job.saved.last) PROVE Forgotten(i)'
    <3>1. i <= s.at /\ s.from < journal[i].seq
      BY <1>3, <2>1, <2>2, LiveTyped DEF LiveInv, Numbers, NoSeq
    <3>2. QED BY <1>1, <2>1, <3>1 DEF Forgotten
  <2>3. job.saved.last <= job.saved.last
    BY <1>3 DEF Numbers, NoSeq
  <2>4. QED BY <1>1, <1>2, <2>1, <2>2, <2>3 DEF Known
<1>12. QED BY <1>5, <1>6, <1>7, <1>8, <1>9, <1>10, <1>11 DEF LiveInv

LEMMA UpToNat == ASSUME NEW limit \in Nat, NEW n \in Int PROVE UpTo(limit, n) \in Int
BY DEF UpTo

\* Polls that bring nothing.
LEMMA LoopLive == LiveInv /\ (Connect \/ NoVariant \/ FetchFails) => LiveInv'
<1> SUFFICES ASSUME LiveInv, Connect \/ NoVariant \/ FetchFails PROVE LiveInv'
  OBVIOUS
<1>1. UNCHANGED <<air, journal, files, starts, excused, job>> /\ Running /\ run.pc = "loop"
  BY DEF Connect, NoVariant, FetchFails, At, Running, Channel, Recording
<1>2. run \in LiveRun
  BY DEF LiveInv, LiveTypes
<1>3. /\ run' \in LiveRun /\ run'.pc \in {"loop", "finish"}
      /\ run'.variant \in {run.variant, None, air.stream}
      /\ run'.pending \/ (~run.pending /\ (run'.variant = run.variant \/ run.variant = None))
  <2>1. CASE Connect
    <3>1. air.stream \in Streams /\ run' = [run EXCEPT !.variant = air.stream] /\ run.variant = None
      BY <2>1, LiveTyped DEF LiveInv, Connect
    <3>2. QED BY <1>1, <1>2, <3>1 DEF LiveRun
  <2>2. CASE NoVariant
    <3>1. UpTo(IdleLimit, run.idle + 1) \in Int
      BY <1>2, UpToNat, LiveConstants DEF LiveRun
    <3>2. PICK n \in Int, pc \in {"loop", "finish"} : run' = [run EXCEPT !.idle = n, !.pc = pc]
      BY <2>2, <3>1 DEF NoVariant
    <3>3. QED BY <1>2, <3>2 DEF LiveRun
  <2>3. CASE FetchFails
    <3>1. UpTo(FailLimit + 1, run.failures + 1) \in Int
      BY <1>2, UpToNat, LiveConstants DEF LiveRun
    <3>2. PICK n \in Int, pc \in {"loop", "finish"} :
            run' = [run EXCEPT !.failures = n, !.variant = None, !.pending = TRUE, !.pc = pc]
      BY <2>3, <3>1 DEF FetchFails
    <3>3. QED BY <1>2, <3>2 DEF LiveRun
  <2>4. QED BY <2>1, <2>2, <2>3
<1>4. LiveTypes' /\ Running'
  BY <1>1, <1>3 DEF LiveInv, LiveTypes, JobShaped, Shaped, Running
<1>5. BatchOK' /\ FilesOK'
  BY <1>3 DEF BatchOK, FilesOK, InBatch, At
<1>6. job'.mem.last = job.mem.last /\ job'.saved.last = job.saved.last
  BY <1>1
<1>7. QED BY <1>1, <1>3, <1>4, <1>5, <1>6, GoesOn

LEMMA NewIs ==
  ASSUME LiveTypes
  PROVE  /\ Oldest \in Nat /\ First[air.stream] <= Oldest
         /\ New \in SUBSET Nat /\ \E a, b \in Nat : New = a..b
         /\ \A q \in New : job.mem.last < q /\ First[air.stream] <= q
         /\ \A p \in New, q \in Nat : job.mem.last < q /\ q < p /\ q \notin New => q < Oldest
<1>1. air.stream \in Streams /\ air.head \in Nat /\ First[air.stream] \in Nat /\ job.mem.last \in Numbers
  BY LiveTyped, LiveConstants
<1>2. Oldest \in Nat /\ First[air.stream] <= Oldest
  BY <1>1, LiveConstants DEF Oldest
<1>3. PICK l \in Int : l = job.mem.last /\ l >= -1
  BY <1>1 DEF Numbers, NoSeq
<1>4. \A q : q \in New <=> q \in Nat /\ Oldest <= q /\ q <= air.head /\ l < q
  BY <1>1, <1>2, <1>3 DEF New
<1>5. PICK a \in Nat : a = IF Oldest <= l THEN l + 1 ELSE Oldest
  BY <1>2, <1>3
<1>6. New = a..air.head
  <2>1. \A q \in Nat : a <= q <=> Oldest <= q /\ l < q
    BY <1>2, <1>3, <1>5
  <2>2. \A q : q \in a..air.head <=> q \in Nat /\ a <= q /\ q <= air.head
    BY <1>1
  <2>3. \A q : q \in New <=> q \in a..air.head
    BY <1>4, <2>1, <2>2
  <2>4. QED BY <2>3
<1>7. QED BY SMTT(30), <1>1, <1>2, <1>3, <1>4, <1>6

LEMMA FetchLive == ASSUME LiveInv, NEW ended \in BOOLEAN, Fetch(ended) PROVE LiveInv'
<1>1. /\ UNCHANGED <<air, journal, files, starts, job>> /\ Running /\ run.pc = "loop" /\ run.variant = air.stream
      /\ excused' = excused \cup {<<air.stream, q>> : q \in {q \in First[air.stream]..Oldest - 1 : q > job.mem.last}}
  BY DEF Fetch, At, Running, Channel
<1>2. run \in LiveRun /\ LiveTypes
  BY DEF LiveInv, LiveTypes
<1>3. UpTo(IdleLimit, run.idle + 1) \in Int
  BY <1>2, UpToNat, LiveConstants DEF LiveRun
<1>4. PICK n \in Int : n = IF New # {} THEN 0 ELSE UpTo(IdleLimit, run.idle + 1)
  BY <1>3
<1>5. PICK N \in SUBSET Nat : N = New
  BY <1>2, NewIs
<1>6. PICK pc \in {"init", "download"} : pc = IF Fmp4 /\ ~job.mem.init THEN "init" ELSE "download"
  OBVIOUS
<1>7. PICK b \in BOOLEAN : b = (run.pending \/ Behind)
  BY Zenon
<1>8. run' = [run EXCEPT !.failures = 0, !.new = N, !.ended = ended, !.pending = b, !.idle = n, !.pc = pc]
  BY <1>4, <1>5, <1>6, <1>7 DEF Fetch
<1>9. /\ run' \in LiveRun /\ run'.pc \in {"init", "download"} /\ run'.new = New /\ run'.pending = b
      /\ run'.variant = air.stream
  <2>1. run' \in LiveRun
    <3>1. ASSUME NEW r \in LiveRun PROVE [r EXCEPT !.failures = 0] \in LiveRun
      BY DEF LiveRun
    <3>2. ASSUME NEW r \in LiveRun, NEW e \in BOOLEAN PROVE [r EXCEPT !.ended = e] \in LiveRun
      BY DEF LiveRun
    <3>3. ASSUME NEW r \in LiveRun PROVE [r EXCEPT !.failures = 0, !.ended = ended] \in LiveRun
      BY <3>1, <3>2 DEF LiveRun
    <3>4. ASSUME NEW r \in LiveRun PROVE [r EXCEPT !.new = N] \in LiveRun
      BY DEF LiveRun
    <3>5. [run EXCEPT !.failures = 0, !.new = N, !.ended = ended] \in LiveRun
      <4>1. [[run EXCEPT !.failures = 0, !.ended = ended] EXCEPT !.new = N] \in LiveRun
        BY <1>2, <3>3, <3>4
      <4>2. [run EXCEPT !.failures = 0, !.new = N, !.ended = ended]
              = [[run EXCEPT !.failures = 0, !.ended = ended] EXCEPT !.new = N]
        BY <1>2 DEF LiveRun
      <4>3. QED BY <4>1, <4>2
    <3>6. ASSUME NEW r \in LiveRun PROVE [r EXCEPT !.pending = b, !.idle = n, !.pc = pc] \in LiveRun
      BY DEF LiveRun
    <3>7. run' = [[run EXCEPT !.failures = 0, !.new = N, !.ended = ended] EXCEPT !.pending = b, !.idle = n, !.pc = pc]
      BY <1>2, <1>8 DEF LiveRun
    <3>8. QED BY <3>5, <3>6, <3>7
  <2>2. run'.pc = pc /\ run'.new = N /\ run'.pending = b /\ run'.variant = run.variant
    BY <1>2, <1>8 DEF LiveRun
  <2>3. QED BY <1>1, <1>5, <2>1, <2>2
<1>10. LiveTypes' /\ Running'
  BY <1>1, <1>9 DEF LiveInv, LiveTypes, JobShaped, Shaped, Running
<1>11. FilesOK'
  BY <1>9 DEF FilesOK, At
<1>12. BatchOK'
  <2>1. air.stream # None
    BY <1>2, LiveTyped, LiveConstants DEF None
  <2>2. First[air.stream] \in Nat
    BY <1>2, LiveTyped, LiveConstants
  <2>3. ASSUME NEW p \in New, NEW q \in Nat, First[air.stream] <= q, job.mem.last < q, q < p, q \notin New
        PROVE  <<air.stream, q>> \in excused'
    <3>1. q < Oldest /\ Oldest \in Nat
      BY <1>2, <2>3, NewIs
    <3>2. q \in First[air.stream]..Oldest - 1 /\ q > job.mem.last
      BY <2>2, <2>3, <3>1, <1>2, LiveTyped DEF Numbers, NoSeq
    <3>3. QED BY <1>1, <3>2
  <2>4. ASSUME ~b, job.mem.last >= 0, New # {} PROVE job.mem.last + 1 \in New
    BY <1>7, <2>4 DEF Behind
  <2>5. \E x, y \in Nat : New = x..y
    BY <1>2, NewIs
  <2>6. \A q \in New : job.mem.last < q /\ First[air.stream] <= q
    BY <1>2, NewIs
  <2>7. QED BY <1>1, <1>9, <2>1, <2>3, <2>4, <2>5, <2>6 DEF BatchOK
<1>13. run'.pending \/ (~run.pending /\ run'.variant = run.variant)
  BY <1>1, <1>7, <1>9
<1>14. QED BY <1>1, <1>9, <1>10, <1>11, <1>12, <1>13, GoesOn

LEMMA DownloadInitLive == LiveInv /\ DownloadInit => LiveInv'
<1> SUFFICES ASSUME LiveInv, DownloadInit PROVE LiveInv'
  OBVIOUS
<1>1. /\ UNCHANGED <<air, journal, files, starts, excused>> /\ Running /\ run.pc = "init"
      /\ job' = [job EXCEPT !.mem.init = TRUE] /\ run' = [run EXCEPT !.pc = "download"]
  BY DEF DownloadInit, At, Running, Channel, Recording
<1>2. run \in LiveRun /\ LiveTypes
  BY DEF LiveInv, LiveTypes
<1>3. JobShaped' /\ job'.mem.last = job.mem.last /\ job'.saved = job.saved /\ job'.state = job.state
  BY <1>1, <1>2, MemSet
<1>4. /\ run' \in LiveRun /\ run'.pc = "download" /\ run'.new = run.new /\ run'.pending = run.pending
      /\ run'.variant = run.variant
  BY <1>1, <1>2 DEF LiveRun
<1>5. LiveTypes' /\ Running'
  BY <1>1, <1>3, <1>4 DEF LiveInv, LiveTypes, Running
<1>6. BatchOK /\ InBatch
  BY <1>1 DEF LiveInv, InBatch
<1>7. BatchOK'
  <2>1. \A p \in run'.new, q \in Nat :
          First[run'.variant] <= q /\ job'.mem.last < q /\ q < p /\ q \notin run'.new => <<run'.variant, q>> \in excused'
    BY <1>1, <1>3, <1>4, <1>6 DEF BatchOK
  <2>2. /\ run'.variant # None
        /\ \E a, b \in Nat : run'.new = a..b
        /\ \A q \in run'.new : job'.mem.last < q /\ First[run'.variant] <= q
        /\ ~run'.pending /\ job'.mem.last >= 0 /\ run'.new # {} => job'.mem.last + 1 \in run'.new
    BY <1>3, <1>4, <1>6 DEF BatchOK
  <2>3. QED BY <2>1, <2>2 DEF BatchOK
<1>8. FilesOK'
  BY <1>4 DEF FilesOK, At
<1>9. QED BY <1>1, <1>3, <1>4, <1>5, <1>7, <1>8, GoesOn

LEMMA AfterLive == ASSUME LiveInv, NEW save, After(save) PROVE LiveInv'
<1>1. /\ UNCHANGED <<air, journal, files, starts, excused>> /\ Running /\ run.pc = "after"
      /\ job' = [job EXCEPT !.saved = job.mem] \/ job' = job
  BY DEF After, At, Running, Channel, Recording
<1>2. run \in LiveRun /\ LiveTypes
  BY DEF LiveInv, LiveTypes
<1>3. JobShaped' /\ job'.mem = job.mem /\ job'.saved \in {job.saved, job.mem} /\ job'.state = job.state
  <2>1. CASE job' = job
    BY <1>2, <2>1 DEF LiveTypes, JobShaped, Shaped
  <2>2. CASE job' = [job EXCEPT !.saved = job.mem]
    BY <1>2, <2>2, MemSet
  <2>3. QED BY <1>1, <2>1, <2>2
<1>4. PICK pc \in {"finish", "loop"}, n \in {0, run.idle} : run' = [run EXCEPT !.pc = pc, !.idle = n]
  BY <1>2 DEF After, LiveRun
<1>5. n \in Int
  BY <1>2 DEF LiveRun
<1>6. run' \in LiveRun /\ run'.pc \in {"finish", "loop"} /\ run'.pending = run.pending /\ run'.variant = run.variant
  BY <1>2, <1>4, <1>5 DEF LiveRun
<1>7. LiveTypes' /\ Running'
  BY <1>1, <1>3, <1>6 DEF LiveInv, LiveTypes, Running
<1>8. BatchOK' /\ FilesOK'
  BY <1>6 DEF BatchOK, InBatch, FilesOK, At
<1>9. QED BY <1>1, <1>3, <1>6, <1>7, <1>8, GoesOn

LEMMA FinishLive == LiveInv /\ Finish => LiveInv'
<1> SUFFICES ASSUME LiveInv, Finish PROVE LiveInv'
  OBVIOUS
<1> DEFINE payload == [job.mem EXCEPT !.timeline = Timeline(journal)]
<1>1. /\ UNCHANGED <<air, journal, files, starts, excused>> /\ run' = Idle
      /\ job' = [job EXCEPT !.state = "done", !.mem = payload, !.saved = payload]
  BY DEF Finish, Channel, Recording
<1>2. job.mem.last \in Numbers /\ Shaped(job.mem) /\ JobShaped
  BY LiveTyped DEF LiveInv, LiveTypes, JobShaped
<1>3. Shaped(payload) /\ payload.last = job.mem.last
  BY <1>2 DEF Shaped
<1> HIDE DEF payload
<1>4. PICK p : p = payload
  OBVIOUS
<1>5. job'.state = "done" /\ job'.mem = p /\ job'.saved = p
      /\ job' = [state |-> job'.state, attempts |-> job'.attempts, saved |-> job'.saved, mem |-> job'.mem]
  BY <1>1, <1>2, <1>4 DEF JobShaped
<1>6. LiveTypes'
  <2>1. Shaped(job.saved)' /\ Shaped(job.mem)'
    BY <1>3, <1>4, <1>5 DEF Shaped
  <2>2. QED BY <1>1, <1>5, <2>1, LiveIdle DEF LiveInv, LiveTypes, JobShaped
<1>7. Known' /\ BatchOK' /\ FilesOK' /\ Pending'
  BY <1>5 DEF Known, BatchOK, FilesOK, Pending, InBatch, Running, At
<1>8. run'.variant = None
  BY <1>1, LiveIdle
<1>9. LatestOK'
  BY <1>1, <1>8, LiveTyped DEF LiveInv, LatestOK, Latest, None
<1>10. Covered(job.saved.last)' /\ Covered(job.mem.last)'
  <2>1. Covered(job.mem.last)
    BY DEF LiveInv
  <2>2. p.last = job.mem.last
    BY <1>3, <1>4
  <2>3. QED BY <1>1, <1>5, <1>8, <2>1, <2>2, CoveredStays
<1>11. InOrder' /\ GapsMarked' /\ NothingMissed'
  BY <1>1, RecordStays
<1>12. QED BY <1>6, <1>7, <1>9, <1>10, <1>11 DEF LiveInv

LEMMA DownloadLive == ASSUME LiveInv, NEW lost, Download(lost) PROVE LiveInv'
<1> DEFINE got == {q \in run.new \ lost : ~Ad(q)}
<1>1. /\ UNCHANGED <<air, journal, job, starts>> /\ Running /\ run.pc = "download"
      /\ \A q \in lost : q \in run.new
      /\ files' = [q \in DOMAIN files \cup got |-> IF q \in got THEN run.variant ELSE files[q]]
      /\ excused' = excused \cup {<<run.variant, q>> : q \in lost}
      /\ run' = [run EXCEPT !.lost = lost, !.pc = "index"]
  BY DEF Download, At, Running, Channel
<1>2. run \in LiveRun /\ LiveTypes /\ BatchOK /\ InBatch /\ run.new \in SUBSET Nat
  BY <1>1, LiveTyped DEF LiveInv, LiveTypes, InBatch
<1>3. lost \in SUBSET Nat /\ lost \subseteq run.new
  BY <1>1, <1>2
<1>4. /\ run' \in LiveRun /\ run'.pc = "index" /\ run'.new = run.new /\ run'.pending = run.pending
      /\ run'.variant = run.variant /\ run'.lost = lost
  BY <1>1, <1>2, <1>3 DEF LiveRun
<1>5. LiveTypes' /\ Running'
  BY <1>1, <1>4 DEF LiveInv, LiveTypes, JobShaped, Shaped, Running
<1>6. BatchOK'
  <2>1. \A p \in run'.new, q \in Nat :
          First[run'.variant] <= q /\ job'.mem.last < q /\ q < p /\ q \notin run'.new => <<run'.variant, q>> \in excused'
    BY <1>1, <1>2, <1>4 DEF BatchOK
  <2>2. /\ run'.variant # None
        /\ \E a, b \in Nat : run'.new = a..b
        /\ \A q \in run'.new : job'.mem.last < q /\ First[run'.variant] <= q
        /\ ~run'.pending /\ job'.mem.last >= 0 /\ run'.new # {} => job'.mem.last + 1 \in run'.new
    BY <1>1, <1>2, <1>4 DEF BatchOK
  <2>3. QED BY <2>1, <2>2 DEF BatchOK
<1>7. FilesOK'
  <2>1. Kept(run)' = got
    BY <1>4 DEF Kept, Ad
  <2>2. \A q \in got : q \in DOMAIN files' /\ files'[q] = run.variant
    BY <1>1
  <2>3. \A q \in lost : <<run.variant, q>> \in excused'
    BY <1>1
  <2>4. QED BY <1>3, <1>4, <2>1, <2>2, <2>3 DEF FilesOK
<1>8. Known' /\ Pending' /\ LatestOK'
  <2>1. Latest' = Latest /\ Running' = Running
    BY <1>1 DEF Latest, Running
  <2>2. Known'
    BY <1>1, <2>1 DEF LiveInv, Known, Forgotten
  <2>3. Pending' /\ LatestOK'
    BY <1>1, <1>4, <2>1 DEF LiveInv, Pending, LatestOK
  <2>4. QED BY <2>2, <2>3
<1>9. Covered(job.saved.last)' /\ Covered(job.mem.last)'
  <2>1. Covered(job.saved.last) /\ Covered(job.mem.last)
    BY DEF LiveInv
  <2>2. QED BY <1>1, <1>4, <2>1, CoveredStays
<1>10. GapsMarked' /\ NothingMissed'
  BY <1>1 DEF LiveInv, GapsMarked, NothingMissed, Between
<1>11. InOrder'
  <2>1. ASSUME NEW i \in DOMAIN journal, ~Forgotten(i)
        PROVE  journal[i].seq \in DOMAIN files' /\ files'[journal[i].seq] = journal[i].stream
    <3>1. journal[i].seq \in DOMAIN files /\ files[journal[i].seq] = journal[i].stream
      BY <2>1 DEF LiveInv, InOrder
    <3>2. journal[i].seq <= job.mem.last
      BY <1>1, <2>1 DEF LiveInv, Known
    <3>3. ASSUME journal[i].seq \in got PROVE FALSE
      <4>1. job.mem.last < journal[i].seq
        BY <1>2, <3>3 DEF BatchOK
      <4>2. job.mem.last \in Int /\ journal[i].seq \in Int
        BY <1>2, <3>3, LiveTyped DEF LiveInv, Numbers, NoSeq
      <4>3. QED BY <3>2, <4>1, <4>2
    <3>4. QED BY <1>1, <3>1, <3>3
  <2>2. QED BY <1>1, <2>1 DEF LiveInv, InOrder, Forgotten
<1>12. QED BY <1>5, <1>6, <1>7, <1>8, <1>9, <1>10, <1>11 DEF LiveInv

----------------------------------------------------------------------------
(* The lines of a batch.                                                    *)

\* s lists S in order.
Lists(s, n, S) ==
  /\ s \in [1..n -> S]
  /\ \A i, k \in 1..n : i < k => s[i] < s[k]
  /\ \A q \in S : \E i \in 1..n : s[i] = q

LEMMA FirstNat == ASSUME NEW S \in SUBSET Nat, S # {} PROVE \E x \in S : \A y \in S : x <= y
<1>1. IsWellFoundedOn(OpToRel(<, Nat), Nat)
  BY NatLessThanWellFounded
<1>2. PICK x \in S : \A y \in S : ~(<<y, x>> \in OpToRel(<, Nat))
  BY <1>1, WFMin
<1>3. ASSUME NEW y \in S, y < x PROVE FALSE
  <2>1. <<y, x>> \in OpToRel(<, Nat)
    BY <1>3, Zenon DEF OpToRel
  <2>2. QED BY <2>1, <1>2
<1>4. \A y \in S : x <= y
  BY <1>3
<1>5. QED BY <1>4

\* The numbers below the first bound that could not be listed could: the greatest of them comes last.
LEMMA CanBeListed ==
  ASSUME NEW b \in Nat, NEW S, \A q \in S : q \in Nat /\ q < b
  PROVE  \E n \in Nat : \E s \in [1..n -> S] : Lists(s, n, S)
<1> DEFINE Below(c) == {T \in SUBSET Nat : \A q \in T : q < c}
           Can(T)   == \E n \in Nat : \E s \in [1..n -> T] : Lists(s, n, T)
           Bad      == {c \in Nat : \E T \in Below(c) : ~Can(T)}
<1>1. ASSUME Bad # {} PROVE FALSE
  <2>1. PICK c \in Bad : \A d \in Bad : c <= d
    BY <1>1, FirstNat
  <2>2. PICK T \in SUBSET Nat : (\A q \in T : q < c) /\ ~Can(T)
    BY <2>1
  <2>3. c # 0
    <3>1. SUFFICES ASSUME c = 0 PROVE FALSE
      OBVIOUS
    <3>2. T = {}
      BY <2>2, <3>1
    <3>3. <<>> \in [1..0 -> T] /\ Lists(<<>>, 0, T)
      BY <3>2 DEF Lists
    <3>4. QED BY <2>2, <3>3
  <2>4. c - 1 \in Nat /\ c - 1 \notin Bad
    <3>1. c \in Nat /\ c # 0
      BY <2>1, <2>3
    <3>2. c - 1 \in Nat /\ ~(c <= c - 1)
      BY <3>1
    <3> HIDE DEF Bad
    <3>3. QED BY <2>1, <3>2
  <2>5. PICK U \in SUBSET Nat : U = T \ {c - 1}
    BY <2>2
  <2>6. \A q \in U : q < c - 1
    BY <2>1, <2>2, <2>5
  <2>7. Can(U)
    BY <2>4, <2>6
  <2>8. PICK n \in Nat : \E s \in [1..n -> U] : Lists(s, n, U)
    BY <2>7
  <2>9. PICK s \in [1..n -> U] : Lists(s, n, U)
    BY <2>8
  <2>10. c - 1 \in T
    BY <2>2, <2>5, <2>7
  <2>11. PICK t : t = [i \in 1..n + 1 |-> IF i = n + 1 THEN c - 1 ELSE s[i]]
    OBVIOUS
  <2>12. (\A i \in 1..n : t[i] = s[i] /\ t[i] \in U) /\ t[n + 1] = c - 1 /\ n + 1 \in Nat
    BY <2>9, <2>11
  <2>13. t \in [1..n + 1 -> T]
    BY <2>5, <2>9, <2>10, <2>11
  <2>14. ASSUME NEW i \in 1..n + 1, NEW k \in 1..n + 1, i < k PROVE t[i] < t[k]
    <3>1. CASE k = n + 1
      <4>1. i \in 1..n
        BY <2>14, <3>1
      <4>2. QED BY <2>6, <2>12, <3>1, <4>1
    <3>2. CASE k # n + 1
      <4>1. i \in 1..n /\ k \in 1..n
        BY <2>14, <3>2
      <4>2. QED BY <2>9, <2>12, <2>14, <4>1 DEF Lists
    <3>3. QED BY <3>1, <3>2
  <2>15. ASSUME NEW q \in T PROVE \E i \in 1..n + 1 : t[i] = q
    <3>1. CASE q = c - 1
      <4>1. n + 1 \in 1..n + 1
        BY <2>8
      <4>2. QED BY <2>12, <3>1, <4>1
    <3>2. CASE q # c - 1
      <4>1. PICK i \in 1..n : s[i] = q
        BY <2>5, <2>9, <3>2 DEF Lists
      <4>2. i \in 1..n + 1
        OBVIOUS
      <4>3. QED BY <2>12, <4>1, <4>2
    <3>3. QED BY <3>1, <3>2
  <2>16. Lists(t, n + 1, T)
    BY <2>13, <2>14, <2>15 DEF Lists
  <2>17. QED BY <2>2, <2>12, <2>13, <2>16
<1>2. S \in Below(b)
  OBVIOUS
<1>3. QED BY <1>1, <1>2

LEMMA SortedLists ==
  ASSUME NEW b \in Nat, NEW S, \A q \in S : q \in Nat /\ q < b
  PROVE  Cardinality(S) \in Nat /\ Lists(Sorted(S), Cardinality(S), S)
<1>1. PICK n \in Nat : \E s \in [1..n -> S] : Lists(s, n, S)
  BY CanBeListed
<1>2. PICK s \in [1..n -> S] : Lists(s, n, S)
  BY <1>1
<1>3. s \in Bijection(1..n, S)
  <2>1. s \in Surjection(1..n, S)
    BY <1>2 DEF Surjection, Lists
  <2>2. ASSUME NEW i \in 1..n, NEW k \in 1..n, s[i] = s[k] PROVE i = k
    <3>1. s[i] \in Nat
      BY <1>2
    <3>2. ~(i < k) /\ ~(k < i)
      BY <1>2, <2>2, <3>1 DEF Lists
    <3>3. QED BY <3>2
  <2>3. QED BY <1>2, <2>1, <2>2 DEF Bijection, Injection, IsInjective
<1>4. IsFiniteSet(1..n) /\ Cardinality(1..n) = n
  BY FS_Interval
<1>5. ExistsBijection(1..n, S)
  BY <1>3 DEF ExistsBijection
<1>6. Cardinality(S) = n
  BY <1>4, <1>5, FS_Bijection
<1>7. DOMAIN s = 1..n /\ Range(s) = S
  BY <1>2 DEF Lists, Range
<1>8. (\A i, k \in DOMAIN s : i < k => s[i] < s[k]) /\ s \in [1..Cardinality(S) -> S]
  BY <1>2, <1>6, <1>7 DEF Lists
<1>9. /\ Sorted(S) \in [1..Cardinality(S) -> S]
      /\ \A i, k \in DOMAIN Sorted(S) : i < k => Sorted(S)[i] < Sorted(S)[k]
      /\ Range(Sorted(S)) = S
  BY <1>7, <1>8 DEF Sorted
<1>10. QED BY <1>6, <1>9 DEF Lists, Range

LEMMA LineIs ==
  ASSUME LiveInv, At("index"), NEW q \in Kept(run)
  PROVE  /\ Line(run, q) \in Entries /\ Line(run, q).stream = run.variant /\ Line(run, q).seq = q
         /\ Line(run, q).disc <=> IF q - 1 \in run.new THEN q - 1 \notin Kept(run) ELSE run.pending
<1>1. BatchOK /\ InBatch /\ run \in LiveRun
  BY DEF LiveInv, LiveTypes, At, InBatch, Running
<1>2. run.variant \in Streams /\ q \in Nat /\ run.pending \in BOOLEAN
  BY <1>1 DEF BatchOK, LiveRun, Kept
<1>3. PICK b \in BOOLEAN : b = (q - 1 \notin Kept(run))
  BY Zenon
<1>4. PICK c \in BOOLEAN : c = IF q - 1 \in run.new THEN b ELSE run.pending
  BY <1>2
<1>5. Line(run, q) = [stream |-> run.variant, seq |-> q, disc |-> c]
  BY <1>3, <1>4 DEF Line
<1>6. QED BY <1>2, <1>3, <1>4, <1>5 DEF Entries

LEMMA LinesAre ==
  ASSUME LiveInv, At("index")
  PROVE  \E n \in Nat : \E s \in [1..n -> Kept(run)] :
           /\ Lists(s, n, Kept(run)) /\ Lines(run) \in Seq(Entries) /\ Len(Lines(run)) = n
           /\ \A i \in 1..n : Lines(run)[i] = Line(run, s[i])
<1>1. PICK a \in Nat, b \in Nat : run.new = a..b
  BY DEF LiveInv, BatchOK, At, InBatch, Running
<1>2. \A q \in Kept(run) : q \in Nat /\ q < b + 1
  BY <1>1 DEF Kept
<1>3. PICK n \in Nat : n = Cardinality(Kept(run)) /\ Lists(Sorted(Kept(run)), n, Kept(run))
  BY <1>2, SortedLists
<1>4. PICK s \in [1..n -> Kept(run)] : s = Sorted(Kept(run)) /\ Lists(s, n, Kept(run))
  BY <1>3 DEF Lists
<1>5. Lines(run) = [i \in 1..n |-> Line(run, s[i])]
  BY <1>4 DEF Lines
<1>6. \A i \in 1..n : Line(run, s[i]) \in Entries
  BY LineIs
<1>7. Lines(run) \in Seq(Entries) /\ Len(Lines(run)) = n
  BY <1>5, <1>6
<1>8. QED BY <1>4, <1>5, <1>7

LEMMA Appended ==
  ASSUME LiveInv, At("index"), NEW m \in 0..Len(Lines(run)), journal' = journal \o SubSeq(Lines(run), 1, m)
  PROVE  \E n \in Nat : \E s \in [1..n -> Kept(run)] :
           /\ Lists(s, n, Kept(run)) /\ m \in Nat /\ m <= n /\ n = Len(Lines(run))
           /\ journal' \in Seq(Entries) /\ Len(journal') = Len(journal) + m
           /\ \A i \in 1..Len(journal) : journal'[i] = journal[i]
           /\ \A i \in 1..m : journal'[Len(journal) + i] = Line(run, s[i])
<1>1. PICK n \in Nat : \E s \in [1..n -> Kept(run)] :
           /\ Lists(s, n, Kept(run)) /\ Lines(run) \in Seq(Entries) /\ Len(Lines(run)) = n
           /\ \A i \in 1..n : Lines(run)[i] = Line(run, s[i])
  BY LinesAre
<1>2. PICK s \in [1..n -> Kept(run)] :
           /\ Lists(s, n, Kept(run)) /\ Lines(run) \in Seq(Entries) /\ Len(Lines(run)) = n
           /\ \A i \in 1..n : Lines(run)[i] = Line(run, s[i])
  BY <1>1
<1>3. m \in Nat /\ m <= n
  BY <1>1, <1>2
<1>4. PICK part \in Seq(Entries) : part = SubSeq(Lines(run), 1, m) /\ Len(part) = m /\ \A i \in 1..m : part[i] = Lines(run)[i]
  <2>1. ASSUME NEW L \in Seq(Entries), m <= Len(L)
        PROVE  /\ SubSeq(L, 1, m) \in Seq(Entries) /\ Len(SubSeq(L, 1, m)) = m
               /\ \A i \in 1..m : SubSeq(L, 1, m)[i] = L[i]
    BY <1>3, <2>1
  <2>2. QED BY <1>2, <1>3, <2>1
<1>5. journal \in Seq(Entries) /\ journal' = journal \o part
  BY <1>4 DEF LiveInv, LiveTypes
<1>6. /\ journal' \in Seq(Entries) /\ Len(journal') = Len(journal) + m
      /\ \A i \in 1..Len(journal) : journal'[i] = journal[i]
      /\ \A i \in 1..m : journal'[Len(journal) + i] = part[i]
  BY <1>3, <1>4, <1>5
<1>7. \A i \in 1..m : part[i] = Line(run, s[i])
  BY <1>2, <1>3, <1>4
<1>8. QED BY ZenonT(60), <1>2, <1>3, <1>6, <1>7

LEMMA SegmentsInt == \A q \in Segments : q \in Int
BY DEF Segments

\* Lines of a batch keep the recording in order, its gaps marked and nothing missed.
LEMMA RecordGrows ==
  ASSUME LiveInv, At("index"), NEW m \in 0..Len(Lines(run)), journal' = journal \o SubSeq(Lines(run), 1, m),
         UNCHANGED <<files, starts, excused>>
  PROVE  /\ InOrder' /\ GapsMarked' /\ NothingMissed'
         /\ journal' \in Seq(Entries) /\ Len(journal') = Len(journal) + m /\ (m = 0 => journal' = journal)
         /\ \A i \in 1..Len(journal') :
              \/ i \in 1..Len(journal) /\ journal'[i] = journal[i]
              \/ journal'[i].seq \in Kept(run)
         /\ m > 0 => Latest'.stream = run.variant /\ Latest'.seq \in Kept(run)
         /\ m > 0 /\ m = Len(Lines(run)) => \A q \in Kept(run) : q <= Latest'.seq
         /\ Kept(run) # {} => Len(Lines(run)) > 0
<1> DEFINE N == Len(journal)
           J == journal'
<1>1. PICK n \in Nat : \E s \in [1..n -> Kept(run)] :
           /\ Lists(s, n, Kept(run)) /\ m \in Nat /\ m <= n /\ n = Len(Lines(run))
           /\ J \in Seq(Entries) /\ Len(J) = N + m
           /\ \A i \in 1..N : J[i] = journal[i]
           /\ \A i \in 1..m : J[N + i] = Line(run, s[i])
  BY Appended
<1>2. PICK s \in [1..n -> Kept(run)] :
           /\ Lists(s, n, Kept(run)) /\ m \in Nat /\ m <= n /\ n = Len(Lines(run))
           /\ J \in Seq(Entries) /\ Len(J) = N + m
           /\ \A i \in 1..N : J[i] = journal[i]
           /\ \A i \in 1..m : J[N + i] = Line(run, s[i])
  BY <1>1
<1>3. PICK a \in Nat, b \in Nat : run.new = a..b
  BY DEF LiveInv, BatchOK, At, InBatch, Running
<1>4. /\ \A q \in run.new : q \in Nat /\ job.mem.last < q /\ First[run.variant] <= q
      /\ \A q \in Kept(run) : q \in run.new /\ q \in Nat
      /\ \A q \in run.new : q \notin Kept(run) => <<run.variant, q>> \in Ads \cup excused
      /\ Running /\ run.variant # None
  BY <1>3 DEF LiveInv, BatchOK, FilesOK, At, InBatch, Running, Kept, Ad
<1>5. N \in Nat /\ DOMAIN journal = 1..N /\ DOMAIN J = 1..N + m /\ n \in Nat
  BY <1>2, LiveTyped DEF LiveInv
<1>6. \A i \in 1..m : /\ i \in 1..n /\ s[i] \in Kept(run) /\ s[i] \in run.new /\ s[i] \in Nat
                      /\ J[N + i].stream = run.variant /\ J[N + i].seq = s[i]
                      /\ J[N + i].disc <=> IF s[i] - 1 \in run.new THEN s[i] - 1 \notin Kept(run) ELSE run.pending
  <2> SUFFICES ASSUME NEW i \in 1..m
               PROVE  /\ i \in 1..n /\ s[i] \in Kept(run) /\ s[i] \in run.new /\ s[i] \in Nat
                      /\ J[N + i].stream = run.variant /\ J[N + i].seq = s[i]
                      /\ J[N + i].disc <=> IF s[i] - 1 \in run.new THEN s[i] - 1 \notin Kept(run) ELSE run.pending
    OBVIOUS
  <2>1. i \in 1..n
    BY <1>2
  <2>2. PICK q \in Kept(run) : q = s[i]
    BY <1>2, <2>1
  <2>3. J[N + i] = Line(run, q)
    BY <1>2, <2>2
  <2>4. QED BY <1>4, <2>1, <2>2, <2>3, LineIs
<1>7. \A i, k \in 1..n : i < k => s[i] < s[k]
  BY <1>2 DEF Lists
<1>8. \A q \in Kept(run) : \E i \in 1..n : s[i] = q
  BY <1>2 DEF Lists
<1>9. \A i \in 1..N + m : i \notin 1..N => i - N \in 1..m /\ i = N + (i - N)
  BY <1>2, <1>5
<1>10. \A i \in 1..N : journal[i].seq \in Nat /\ journal[i].stream \in Streams
  BY LiveTyped DEF LiveInv
<1> HIDE DEF N, J
<1>11. InOrder'
  <2>1. ASSUME NEW i \in 1..N, ~Forgotten(i)', NEW k \in i + 1..N + m PROVE J[i].seq < J[k].seq
    <3>1. ~Forgotten(i) /\ J[i] = journal[i]
      BY <1>2, <2>1 DEF Forgotten, J
    <3>2. CASE k \in 1..N
      <4>1. k \in i + 1..Len(journal) /\ i \in DOMAIN journal /\ J[k] = journal[k]
        BY <1>2, <1>5, <2>1, <3>2 DEF N
      <4>2. journal[i].seq < journal[k].seq
        BY <3>1, <4>1 DEF LiveInv, InOrder
      <4>3. QED BY <3>1, <4>1, <4>2
    <3>3. CASE k \notin 1..N
      <4>1. k - N \in 1..m /\ k = N + (k - N)
        BY <1>5, <1>9, <2>1, <3>3
      <4>2. J[k].seq \in run.new
        BY <1>6, <4>1
      <4>3. journal[i].seq <= job.mem.last
        BY <1>4, <1>5, <2>1, <3>1 DEF LiveInv, Known
      <4>4. job.mem.last < J[k].seq /\ J[k].seq \in Nat /\ journal[i].seq \in Nat /\ job.mem.last \in Int
        <5>1. job.mem.last < J[k].seq /\ J[k].seq \in Nat
          BY <1>4, <4>2
        <5>2. job.mem.last \in Int
          BY LiveTyped DEF LiveInv, Numbers, NoSeq
        <5>3. QED BY <1>10, <2>1, <5>1, <5>2
      <4>5. QED BY <3>1, <4>3, <4>4
    <3>4. QED BY <3>2, <3>3
  <2>2. ASSUME NEW i \in 1..N, ~Forgotten(i)' PROVE J[i].seq \in DOMAIN files /\ files[J[i].seq] = J[i].stream
    <3>1. ~Forgotten(i) /\ J[i] = journal[i]
      BY <1>2, <2>2 DEF Forgotten, J
    <3>2. QED BY <1>5, <2>2, <3>1 DEF LiveInv, InOrder
  <2>3. ASSUME NEW i \in 1..m PROVE J[N + i].seq \in DOMAIN files /\ files[J[N + i].seq] = J[N + i].stream
    BY <1>6, <2>3 DEF LiveInv, FilesOK
  <2>4. ASSUME NEW i \in 1..m, NEW k \in N + i + 1..N + m PROVE J[N + i].seq < J[k].seq
    <3>1. k - N \in 1..m /\ k = N + (k - N) /\ i < k - N
      BY <1>2, <1>5, <2>4
    <3>2. J[k].seq = s[k - N] /\ J[N + i].seq = s[i] /\ k - N \in 1..n /\ i \in 1..n
      BY <1>6, <3>1
    <3>3. QED BY <1>7, <3>1, <3>2
  <2>5. ASSUME NEW i \in 1..N + m, ~Forgotten(i)'
        PROVE  /\ J[i].seq \in DOMAIN files /\ files[J[i].seq] = J[i].stream
               /\ \A k \in i + 1..N + m : J[i].seq < J[k].seq
    <3>1. CASE i \in 1..N
      BY <2>1, <2>2, <2>5, <3>1
    <3>2. CASE i \notin 1..N
      <4>1. i - N \in 1..m /\ i = N + (i - N)
        BY <1>9, <3>2
      <4>2. PICK j \in 1..m : i = N + j
        BY <4>1
      <4>3. QED BY <2>3, <2>4, <4>2
    <3>3. QED BY <3>1, <3>2
  <2>6. QED BY <1>2, <1>5, <2>5 DEF InOrder, J
<1>12. GapsMarked'
  <2>1. ASSUME NEW i \in 2..N
        PROVE  \/ J[i].disc
               \/ J[i].seq = J[i - 1].seq + 1 /\ J[i].stream = J[i - 1].stream
               \/ \E t \in starts : t.at = i - 1 /\ t.from = NoSeq
    <3>1. i \in 1..N /\ i - 1 \in 1..N /\ i \in DOMAIN journal \ {1}
      BY <1>5
    <3>2. J[i] = journal[i] /\ J[i - 1] = journal[i - 1]
      BY <1>2, <3>1
    <3>3. QED BY <3>1, <3>2 DEF LiveInv, GapsMarked
  <2>2. ASSUME m >= 1, N >= 1
        PROVE  \/ J[N + 1].disc
               \/ J[N + 1].seq = J[N].seq + 1 /\ J[N + 1].stream = J[N].stream
               \/ \E t \in starts : t.at = N /\ t.from = NoSeq
    <3>1. 1 \in 1..m /\ 1 \in 1..n /\ N \in 1..N /\ J[N] = journal[N] /\ journal # <<>>
      BY <1>2, <1>5, <2>2 DEF N
    <3>2. /\ s[1] \in Kept(run) /\ s[1] \in run.new /\ s[1] \in Nat
          /\ J[N + 1].stream = run.variant /\ J[N + 1].seq = s[1]
          /\ J[N + 1].disc <=> IF s[1] - 1 \in run.new THEN s[1] - 1 \notin Kept(run) ELSE run.pending
      BY <1>6, <3>1
    <3>3. s[1] - 1 \notin Kept(run)
      <4>1. SUFFICES ASSUME s[1] - 1 \in Kept(run) PROVE FALSE
        OBVIOUS
      <4>2. PICK k \in 1..n : s[k] = s[1] - 1
        BY <1>8, <4>1
      <4>3. k # 1
        BY <3>2, <4>2
      <4>4. 1 < k
        BY <4>3, <1>5
      <4>5. s[1] < s[k]
        BY <1>7, <3>1, <4>4
      <4>6. QED BY <3>2, <4>2, <4>5
    <3>4. CASE s[1] - 1 \in run.new \/ run.pending
      BY <3>2, <3>3, <3>4
    <3>5. CASE s[1] - 1 \notin run.new /\ ~run.pending /\ job.mem.last >= 0
      <4>1. journal[N].seq = job.mem.last /\ journal[N].stream = run.variant
        BY <1>4, <3>1, <3>5 DEF LiveInv, Pending, Latest, N
      <4>2. job.mem.last + 1 \in run.new
        BY <1>4, <3>2, <3>5 DEF LiveInv, BatchOK, InBatch, At
      <4>3. s[1] = a
        BY <1>3, <3>2, <3>5
      <4>4. job.mem.last + 1 >= a /\ job.mem.last < a
        BY <1>3, <1>4, <3>2, <4>2, <4>3
      <4>5. job.mem.last \in Int
        BY LiveTyped DEF LiveInv, Numbers, NoSeq
      <4>6. s[1] = job.mem.last + 1
        BY <4>3, <4>4, <4>5
      <4>7. QED BY <3>1, <3>2, <4>1, <4>6
    <3>6. CASE ~(job.mem.last >= 0)
      <4>1. job.mem.last = NoSeq
        BY <3>6, LiveTyped DEF LiveInv, Numbers, NoSeq
      <4>2. QED BY <1>4, <4>1 DEF LiveInv, Known, N
    <3>7. QED BY <3>4, <3>5, <3>6
  <2>3. ASSUME NEW j \in 2..m
        PROVE  \/ J[N + j].disc
               \/ J[N + j].seq = J[N + j - 1].seq + 1 /\ J[N + j].stream = J[N + j - 1].stream
    <3>1. j \in 1..m /\ j - 1 \in 1..m /\ j \in 1..n /\ j - 1 \in 1..n /\ N + j - 1 = N + (j - 1)
      BY <1>2, <1>5
    <3>2. /\ J[N + j].seq = s[j] /\ J[N + j].stream = run.variant /\ s[j] \in run.new /\ s[j] \in Nat
          /\ J[N + j].disc <=> IF s[j] - 1 \in run.new THEN s[j] - 1 \notin Kept(run) ELSE run.pending
      BY <1>6, <3>1
    <3>3. J[N + j - 1].seq = s[j - 1] /\ J[N + j - 1].stream = run.variant /\ s[j - 1] \in run.new /\ s[j - 1] \in Nat
      BY <1>6, <3>1
    <3>4. s[j - 1] < s[j]
      BY <1>7, <3>1
    <3>5. s[j] - 1 \in run.new
      <4>1. a <= s[j - 1] /\ s[j] <= b
        BY <1>3, <3>2, <3>3
      <4>2. s[j] - 1 \in a..b
        <5>1. s[j] \in Int /\ s[j - 1] \in Int
          BY <3>2, <3>3
        <5>2. QED BY <3>4, <4>1, <5>1
      <4>3. QED BY <1>3, <4>2
    <3>6. CASE s[j] - 1 \notin Kept(run)
      BY <3>2, <3>5, <3>6
    <3>7. CASE s[j] - 1 \in Kept(run)
      <4>1. PICK k \in 1..n : s[k] = s[j] - 1
        BY <1>8, <3>7
      <4>2. ~(k < j - 1)
        <5>1. SUFFICES ASSUME k < j - 1 PROVE FALSE
          OBVIOUS
        <5>2. s[k] < s[j - 1]
          BY <1>7, <3>1, <5>1
        <5>3. QED BY <3>2, <3>3, <3>4, <4>1, <5>2
      <4>3. k < j
        <5>1. SUFFICES ASSUME ~(k < j) PROVE FALSE
          OBVIOUS
        <5>2. k = j \/ j < k
          BY <5>1
        <5>3. k = j \/ s[j] < s[k]
          BY <1>7, <3>1, <5>2
        <5>4. QED BY <3>2, <4>1, <5>3
      <4>4. k = j - 1
        BY <4>2, <4>3
      <4>5. s[j] = s[j - 1] + 1
        BY <3>2, <3>3, <4>1, <4>4
      <4>6. QED BY <3>2, <3>3, <4>5
    <3>8. QED BY <3>6, <3>7
  <2>4. ASSUME NEW i \in 2..N + m
        PROVE  \/ J[i].disc
               \/ J[i].seq = J[i - 1].seq + 1 /\ J[i].stream = J[i - 1].stream
               \/ \E t \in starts : t.at = i - 1 /\ t.from = NoSeq
    <3>1. CASE i \in 2..N
      BY <2>1, <3>1
    <3>2. CASE i = N + 1
      <4>1. m >= 1 /\ N >= 1 /\ i - 1 = N
        BY <1>2, <1>5, <3>2
      <4>2. QED BY <2>2, <3>2, <4>1
    <3>3. CASE i \notin 2..N /\ i # N + 1
      <4>1. i - N \in 2..m /\ i = N + (i - N)
        BY <1>2, <1>5, <3>3
      <4>2. PICK j \in 2..m : i = N + j /\ i - 1 = N + j - 1
        BY <1>5, <4>1
      <4>3. QED BY <2>3, <4>2
    <3>4. QED BY <3>1, <3>2, <3>3
  <2>5. DOMAIN J \ {1} = 2..N + m
    BY <1>2, <1>5
  <2>6. QED BY <2>4, <2>5 DEF GapsMarked, J
<1>13. NothingMissed'
  <2>1. ASSUME NEW i \in 1..N - 1, NEW q \in Segments, J[i].stream = J[i + 1].stream, J[i].seq < q, q < J[i + 1].seq
        PROVE  <<J[i].stream, q>> \in Ads \cup excused
    <3>1. i \in 1..N /\ i + 1 \in 1..N
      BY <1>5
    <3>2. J[i] = journal[i] /\ J[i + 1] = journal[i + 1]
      BY <1>2, <3>1
    <3>3. i \in 1..Len(journal) - 1
      BY DEF N
    <3>4. QED BY <2>1, <3>2, <3>3 DEF LiveInv, NothingMissed, Between
  <2>2. ASSUME m >= 1, N >= 1, NEW q \in Segments, J[N].stream = J[N + 1].stream, J[N].seq < q, q < J[N + 1].seq
        PROVE  <<J[N].stream, q>> \in Ads \cup excused
    <3>1. 1 \in 1..m /\ 1 \in 1..n /\ N \in 1..N /\ J[N] = Latest /\ journal # <<>>
      BY <1>2, <1>5, <2>2 DEF N, Latest
    <3>2. s[1] \in run.new /\ s[1] \in Nat /\ J[N + 1].stream = run.variant /\ J[N + 1].seq = s[1]
      BY <1>6, <3>1
    <3>3. q \in Nat /\ Latest.seq < q /\ q < s[1] /\ Latest.stream = run.variant /\ Latest.seq \in Nat
      <4>1. Latest.seq < q /\ q < s[1] /\ Latest.stream = run.variant
        BY <2>2, <3>1, <3>2
      <4>2. Latest.seq \in Nat /\ q \in Int
        BY <3>1, SegmentsInt, LiveTyped DEF LiveInv
      <4>3. QED BY <4>1, <4>2
    <3>4. CASE q <= job.mem.last
      BY <3>1, <3>3, <3>4 DEF LiveInv, Covered
    <3>5. CASE ~(q <= job.mem.last) /\ q \in run.new
      <4>1. q \notin Kept(run)
        <5>1. SUFFICES ASSUME q \in Kept(run) PROVE FALSE
          OBVIOUS
        <5>2. PICK k \in 1..n : s[k] = q
          BY <1>8, <5>1
        <5>3. k = 1 \/ 1 < k
          BY <1>5
        <5>4. k = 1 \/ s[1] < s[k]
          BY <1>7, <3>1, <5>3
        <5>5. QED BY <3>2, <3>3, <5>2, <5>4
      <4>2. QED BY <1>4, <3>1, <3>3, <3>5, <4>1
    <3>6. CASE ~(q <= job.mem.last) /\ q \notin run.new
      <4>1. job.mem.last < q
        BY <3>3, <3>6, LiveTyped DEF LiveInv, Numbers, NoSeq
      <4>2. First[run.variant] <= q
        <5>1. First[Latest.stream] <= Latest.seq /\ First[Latest.stream] \in Nat
          BY <3>1, LiveTyped, LiveConstants DEF LiveInv, LatestOK
        <5>2. QED BY <3>3, <5>1
      <4>3. <<run.variant, q>> \in excused
        BY <3>2, <3>3, <3>6, <4>1, <4>2 DEF LiveInv, BatchOK, InBatch, At, Running
      <4>4. QED BY <3>1, <3>3, <4>3
    <3>7. QED BY <3>4, <3>5, <3>6
  <2>3. ASSUME NEW j \in 1..m - 1, NEW q \in Segments, J[N + j].seq < q, q < J[N + j + 1].seq
        PROVE  <<J[N + j].stream, q>> \in Ads \cup excused
    <3>1. j \in 1..m /\ j + 1 \in 1..m /\ j \in 1..n /\ j + 1 \in 1..n /\ N + j + 1 = N + (j + 1)
      BY <1>2, <1>5
    <3>2. J[N + j].seq = s[j] /\ J[N + j].stream = run.variant /\ s[j] \in run.new /\ s[j] \in Nat
      BY <1>6, <3>1
    <3>3. J[N + j + 1].seq = s[j + 1] /\ s[j + 1] \in run.new /\ s[j + 1] \in Nat
      BY <1>6, <3>1
    <3>4. q \in Nat /\ s[j] < q /\ q < s[j + 1]
      BY <2>3, <3>2, <3>3, SegmentsInt
    <3>5. q \in run.new
      BY <1>3, <3>2, <3>3, <3>4
    <3>6. q \notin Kept(run)
      <4>1. SUFFICES ASSUME q \in Kept(run) PROVE FALSE
        OBVIOUS
      <4>2. PICK k \in 1..n : s[k] = q
        BY <1>8, <4>1
      <4>3. ~(k < j) /\ k # j
        <5>1. k < j => s[k] < s[j]
          BY <1>7, <3>1
        <5>2. QED BY <3>2, <3>4, <4>2, <5>1
      <4>4. ~(j + 1 < k) /\ k # j + 1
        <5>1. j + 1 < k => s[j + 1] < s[k]
          BY <1>7, <3>1
        <5>2. QED BY <3>3, <3>4, <4>2, <5>1
      <4>5. QED BY <4>3, <4>4
    <3>7. QED BY <1>4, <3>2, <3>5, <3>6
  <2>4. ASSUME NEW i \in 1..N + m - 1, NEW q \in Segments,
               J[i].stream = J[i + 1].stream, J[i].seq < q, q < J[i + 1].seq
        PROVE  <<J[i].stream, q>> \in Ads \cup excused
    <3>1. CASE i \in 1..N - 1
      BY <2>1, <2>4, <3>1
    <3>2. CASE i = N
      <4>1. m >= 1 /\ N >= 1
        BY <1>2, <1>5, <3>2
      <4>2. QED BY <2>2, <2>4, <3>2, <4>1
    <3>3. CASE i \notin 1..N - 1 /\ i # N
      <4>1. i - N \in 1..m - 1 /\ i = N + (i - N)
        BY <1>2, <1>5, <3>3
      <4>2. PICK j \in 1..m - 1 : i = N + j
        BY <4>1
      <4>3. QED BY <2>3, <2>4, <4>2
    <3>4. QED BY <3>1, <3>2, <3>3
  <2>5. \A i \in 1..Len(J) - 1, q \in Segments :
          J[i].stream = J[i + 1].stream /\ J[i].seq < q /\ q < J[i + 1].seq => <<J[i].stream, q>> \in Ads \cup excused'
    <3>1. Len(J) = N + m /\ excused' = excused
      BY <1>2
    <3>2. 1..Len(J) - 1 = 1..N + m - 1
      BY <1>2, <1>5, <3>1
    <3>3. ASSUME NEW i \in 1..N + m - 1, NEW q \in Segments
          PROVE  J[i].stream = J[i + 1].stream /\ J[i].seq < q /\ q < J[i + 1].seq
                   => <<J[i].stream, q>> \in Ads \cup excused'
      BY <2>4, <3>1, <3>3
    <3>4. QED BY <3>2, <3>3
  <2>6. QED BY <2>5 DEF NothingMissed, Between, J
<1>14. m = 0 => J = journal
  <2>1. SUFFICES ASSUME m = 0 PROVE J = journal
    OBVIOUS
  <2>2. Len(J) = Len(journal) /\ \A i \in 1..Len(journal) : J[i] = journal[i]
    BY <1>2, <1>5, <2>1 DEF N
  <2>3. J \in Seq(Entries) /\ journal \in Seq(Entries)
    BY <1>2 DEF LiveInv, LiveTypes
  <2>4. QED BY <2>2, <2>3
<1>15. ASSUME NEW i \in 1..N + m PROVE (i \in 1..N /\ J[i] = journal[i]) \/ J[i].seq \in Kept(run)
  <2>1. CASE i \in 1..N
    BY <1>2, <2>1
  <2>2. CASE i \notin 1..N
    <3>1. PICK j \in 1..m : i = N + j
      BY <1>9, <2>2
    <3>2. QED BY <1>6, <3>1
  <2>3. QED BY <2>1, <2>2
<1>16. ASSUME m > 0
       PROVE  /\ J[N + m].stream = run.variant /\ J[N + m].seq \in Kept(run)
              /\ m = n => \A q \in Kept(run) : q <= J[N + m].seq
  <2>1. m \in 1..m
    BY <1>2, <1>16
  <2>2. J[N + m].stream = run.variant /\ J[N + m].seq = s[m] /\ s[m] \in Kept(run) /\ s[m] \in Nat
    BY <1>6, <2>1
  <2>3. ASSUME m = n, NEW q \in Kept(run) PROVE q <= s[m]
    <3>1. PICK k \in 1..n : s[k] = q
      BY <1>8
    <3>2. k = m \/ k < m
      BY <1>5, <2>3
    <3>3. k = m \/ s[k] < s[m]
      BY <1>7, <1>6, <2>1, <3>2
    <3>4. QED BY <1>4, <2>2, <3>1, <3>3
  <2>4. QED BY <2>2, <2>3
<1>17. Kept(run) # {} => n > 0
  BY <1>5, <1>8
<1>18. m > 0 => Latest' = J[N + m]
  BY <1>2 DEF Latest, J
<1>19. QED
  <2>1. Len(J) = N + m /\ J \in Seq(Entries) /\ n = Len(Lines(run))
    BY <1>2
  <2>2. QED BY <1>11, <1>12, <1>13, <1>14, <1>15, <1>16, <1>17, <1>18, <2>1 DEF J, N

\* Where last_seq goes when a batch is over.
LEMMA NewestIs ==
  ASSUME LiveInv, At("index"), NEW x, x = IF run.new = {} THEN job.mem.last ELSE Newest(run)
  PROVE  /\ x \in Numbers /\ job.mem.last <= x
         /\ \A q \in run.new : q <= x
         /\ run.new # {} => x \in run.new
<1>1. PICK a \in Nat, b \in Nat : run.new = a..b
  BY DEF LiveInv, BatchOK, At, InBatch, Running
<1>2. job.mem.last \in Numbers /\ \A q \in run.new : job.mem.last < q
  BY LiveTyped DEF LiveInv, BatchOK, At, InBatch, Running
<1>3. CASE run.new = {}
  BY <1>2, <1>3 DEF Numbers, NoSeq
<1>4. CASE run.new # {}
  <2>1. b \in run.new /\ \A p \in run.new : p <= b
    BY <1>1, <1>4
  <2>2. x \in run.new /\ \A p \in run.new : p <= x
    BY <1>4, <2>1 DEF Newest
  <2>3. x \in Nat /\ job.mem.last < x
    <3>1. \A i \in a..b : i \in Nat
      OBVIOUS
    <3>2. x \in Nat
      BY <1>1, <2>2, <3>1
    <3>3. QED BY <1>2, <2>2, <3>2
  <2>4. job.mem.last \in Int
    BY <1>2 DEF Numbers, NoSeq
  <2>5. QED BY <1>4, <2>2, <2>3, <2>4 DEF Numbers
<1>5. QED BY <1>3, <1>4

LEMMA IndexLive == LiveInv /\ Index => LiveInv'
<1> SUFFICES ASSUME LiveInv, Index PROVE LiveInv'
  OBVIOUS
<1>1. /\ At("index") /\ UNCHANGED <<air, files, starts, excused>>
      /\ journal' = journal \o Lines(run)
  BY DEF Index, Channel
<1>2. PICK x : x = IF run.new = {} THEN job.mem.last ELSE Newest(run)
  OBVIOUS
<1>3. /\ x \in Numbers /\ job.mem.last <= x /\ (\A q \in run.new : q <= x)
      /\ run.new # {} => x \in run.new
  BY <1>1, <1>2, NewestIs
<1>4. PICK m \in Nat : m = Len(Lines(run)) /\ m \in 0..Len(Lines(run)) /\ SubSeq(Lines(run), 1, m) = Lines(run)
  <2>1. PICK n \in Nat : Len(Lines(run)) = n /\ Lines(run) \in Seq(Entries)
    BY <1>1, LinesAre
  <2>2. ASSUME NEW L \in Seq(Entries) PROVE SubSeq(L, 1, Len(L)) = L
    OBVIOUS
  <2>3. QED BY <2>1, <2>2
<1>5. journal' = journal \o SubSeq(Lines(run), 1, m)
  BY <1>1, <1>4
<1>6. /\ InOrder' /\ GapsMarked' /\ NothingMissed'
      /\ journal' \in Seq(Entries) /\ Len(journal') = Len(journal) + m /\ (m = 0 => journal' = journal)
      /\ \A i \in 1..Len(journal') :
           \/ i \in 1..Len(journal) /\ journal'[i] = journal[i]
           \/ journal'[i].seq \in Kept(run)
      /\ m > 0 => Latest'.stream = run.variant /\ Latest'.seq \in Kept(run)
      /\ m > 0 => \A q \in Kept(run) : q <= Latest'.seq
      /\ Kept(run) # {} => m > 0
  BY <1>1, <1>4, <1>5, RecordGrows
<1>7. /\ LiveTypes /\ run \in LiveRun /\ run.pc = "index" /\ Running /\ BatchOK /\ FilesOK /\ InBatch
      /\ job.mem.last \in Numbers /\ job.saved.last \in Numbers /\ job.saved.last <= job.mem.last
      /\ job.mem.last \in Int /\ job.saved.last \in Int /\ x \in Int
  BY <1>1, <1>3, LiveTyped DEF LiveInv, LiveTypes, At, Running, InBatch, Known, Numbers, NoSeq
<1>8. PICK a \in Nat, b \in Nat : run.new = a..b
  BY <1>7 DEF BatchOK
<1>9. /\ \A q \in run.new : q \in Nat /\ job.mem.last < q /\ First[run.variant] <= q
      /\ \A q \in Kept(run) : q \in run.new /\ q \in Nat /\ q <= x
      /\ \A q \in run.new : q \notin Kept(run) => <<run.variant, q>> \in Ads \cup excused
  BY <1>1, <1>3, <1>7, <1>8 DEF BatchOK, FilesOK, Kept, Ad
<1>10. JobShaped' /\ job'.mem.last = x /\ job'.saved = job.saved /\ job'.state = job.state
  <2>1. job' = [job EXCEPT !.mem.last = x]
    BY <1>2, <1>7 DEF Index, LiveTypes, JobShaped
  <2>2. QED BY <1>3, <1>7, <2>1, MemSet
<1>11. PICK c \in BOOLEAN : c = IF run.new = {} THEN run.pending ELSE x \notin Kept(run)
  <2>1. PICK d \in BOOLEAN : d = (x \notin Kept(run))
    BY Zenon
  <2>2. run.pending \in BOOLEAN
    BY <1>7 DEF LiveRun
  <2>3. QED BY <2>1, <2>2
<1>12. run' = [run EXCEPT !.pending = c, !.new = {}, !.lost = {}, !.pc = "after"]
  BY <1>2, <1>11 DEF Index
<1>13. run' \in LiveRun /\ run'.pc = "after" /\ run'.pending = c /\ run'.variant = run.variant
  <2>1. {} \in SUBSET Nat
    OBVIOUS
  <2>2. QED BY <1>7, <1>12, <2>1 DEF LiveRun
<1>14. LiveTypes' /\ Running'
  BY <1>1, <1>6, <1>7, <1>10, <1>13 DEF LiveTypes, Running
<1>15. BatchOK' /\ FilesOK'
  BY <1>13 DEF BatchOK, FilesOK, InBatch, At
<1>16. m > 0 => journal' # <<>> /\ Latest'.seq \in Nat /\ Latest'.seq \in run.new
  <2>1. Len(journal) \in Nat
    BY <1>7, LiveTyped
  <2>2. m > 0 => Len(journal') # 0
    BY <1>6, <2>1
  <2>3. QED BY <1>6, <1>9, <2>2
<1>17. m = 0 => journal' = journal /\ Latest' = Latest
  BY <1>6 DEF Latest
<1>18. Known'
  <2>1. ASSUME NEW i \in DOMAIN journal', ~(journal'[i].seq <= x) PROVE Forgotten(i)'
    <3>1. i \in 1..Len(journal')
      BY <1>6
    <3>2. i \in 1..Len(journal) /\ journal'[i] = journal[i]
      BY <1>6, <1>9, <2>1, <3>1
    <3>3. journal[i].seq \in Nat /\ i \in DOMAIN journal
      BY <1>7, <3>2, LiveTyped
    <3>4. ~(journal[i].seq <= job.mem.last)
      BY <1>3, <1>7, <2>1, <3>2, <3>3
    <3>5. Forgotten(i)
      BY <1>7, <3>3, <3>4 DEF LiveInv, Known
    <3>6. QED BY <1>1, <3>2, <3>5 DEF Forgotten
  <2>2. ASSUME x = NoSeq PROVE \E s \in starts : s.at = Len(journal') /\ s.from = NoSeq
    <3>1. job.mem.last = NoSeq /\ Kept(run) = {}
      BY <1>3, <1>7, <1>9, <2>2 DEF Numbers, NoSeq
    <3>2. m = 0
      BY <1>6, <3>1
    <3>3. QED BY <1>7, <1>17, <3>1, <3>2 DEF LiveInv, Known
  <2>3. job.saved.last <= x
    BY <1>3, <1>7
  <2>4. QED BY <1>1, <1>10, <2>1, <2>2, <2>3 DEF Known
<1>19. Pending'
  <2>1. SUFFICES ASSUME ~c, x >= 0 PROVE journal' # <<>> /\ Latest'.seq = x /\ Latest'.stream = run.variant
    BY <1>10, <1>13 DEF Pending
  <2>2. CASE run.new = {}
    <3>1. m = 0 /\ ~run.pending /\ x = job.mem.last
      BY <1>2, <1>6, <1>9, <1>11, <2>1, <2>2
    <3>2. QED BY <1>7, <1>17, <2>1, <3>1 DEF LiveInv, Pending
  <2>3. CASE run.new # {}
    <3>1. x \in Kept(run)
      BY <1>11, <2>1, <2>3
    <3>2. m > 0
      BY <1>6, <3>1
    <3>3. Latest'.seq = x
      BY <1>6, <1>7, <1>9, <1>16, <3>1, <3>2
    <3>4. QED BY <1>6, <1>16, <3>2, <3>3
  <2>4. QED BY <2>2, <2>3
<1>20. LatestOK'
  <2>1. run.variant <= air.stream
    BY DEF LiveInv, LatestOK
  <2>2. CASE m = 0
    BY <1>1, <1>7, <1>13, <1>17, <2>2 DEF LiveInv, LatestOK
  <2>3. CASE m > 0
    <3>1. Latest'.stream = run.variant /\ First[run.variant] <= Latest'.seq
      BY <1>6, <1>9, <1>16, <2>3
    <3>2. run.variant <= run.variant
      BY <1>7, LiveTyped
    <3>3. QED BY <1>1, <1>13, <2>1, <3>1, <3>2 DEF LatestOK
  <2>4. QED BY <2>2, <2>3
<1>21. Covered(job.saved.last)'
  <2>1. CASE m = 0
    <3>1. Covered(job.saved.last)
      BY DEF LiveInv
    <3>2. QED BY <1>1, <1>10, <1>13, <1>17, <2>1, <3>1, CoveredStays
  <2>2. CASE m > 0
    <3>1. job.saved.last < Latest'.seq
      BY <1>7, <1>9, <1>16, <2>2
    <3>2. \A q \in Nat : ~(Latest'.seq < q /\ q <= job.saved.last)
      BY <1>7, <1>16, <2>2, <3>1
    <3>3. QED BY <1>10, <3>2 DEF Covered
  <2>3. QED BY <2>1, <2>2
<1>22. Covered(job.mem.last)'
  <2>1. SUFFICES ASSUME journal' # <<>>, Latest'.stream \in {air.stream, run.variant},
                        NEW q \in Nat, Latest'.seq < q, q <= x
                 PROVE  <<Latest'.stream, q>> \in Ads \cup excused
    BY <1>1, <1>10, <1>13 DEF Covered
  <2>2. CASE m > 0
    <3>1. Latest'.stream = run.variant /\ Latest'.seq \in run.new /\ x \in run.new
      BY <1>3, <1>6, <1>16, <2>2
    <3>2. q \in run.new
      BY <1>7, <1>8, <2>1, <3>1
    <3>3. q \notin Kept(run)
      BY <1>6, <1>16, <2>1, <2>2
    <3>4. QED BY <1>9, <3>1, <3>2, <3>3
  <2>3. CASE m = 0
    <3>1. journal # <<>> /\ Latest' = Latest /\ Kept(run) = {}
      BY <1>6, <1>17, <2>1, <2>3
    <3>2. Latest.stream = run.variant
      <4>1. Latest.stream <= run.variant /\ run.variant <= air.stream
        BY <1>7, <3>1 DEF LiveInv, LatestOK, BatchOK
      <4>2. Latest.stream \in Nat /\ run.variant \in Nat /\ air.stream \in Nat
        BY <1>7, <3>1, LiveTyped, LiveConstants
      <4>3. QED BY <2>1, <3>1, <4>1, <4>2
    <3>3. CASE q <= job.mem.last
      BY <2>1, <3>1, <3>2, <3>3 DEF LiveInv, Covered
    <3>4. CASE ~(q <= job.mem.last)
      <4>1. job.mem.last < q
        BY <1>7, <3>4
      <4>2. run.new # {}
        BY <1>2, <2>1, <3>4
      <4>3. CASE q \in run.new
        BY <1>9, <3>1, <3>2, <4>3
      <4>4. CASE q \notin run.new
        <5>1. x \in run.new /\ q < x
          BY <1>3, <1>7, <2>1, <4>2, <4>4
        <5>2. First[run.variant] <= q
          <6>1. First[run.variant] <= Latest.seq /\ First[run.variant] \in Nat /\ Latest.seq \in Nat
            BY <1>7, <3>1, <3>2, LiveTyped, LiveConstants DEF LiveInv, LatestOK
          <6>2. QED BY <2>1, <3>1, <6>1
        <5>3. QED BY <1>7, <3>1, <3>2, <4>1, <4>4, <5>1, <5>2 DEF BatchOK
      <4>5. QED BY <4>3, <4>4
    <3>5. QED BY <3>3, <3>4
  <2>4. QED BY <2>2, <2>3
<1>23. QED BY <1>6, <1>14, <1>15, <1>18, <1>19, <1>20, <1>21, <1>22 DEF LiveInv

LEMMA CrashLive == LiveInv /\ Crash => LiveInv'
<1> SUFFICES ASSUME LiveInv, Crash PROVE LiveInv'
  OBVIOUS
<1>1. /\ UNCHANGED <<air, files, starts, excused>> /\ Running /\ run' = Idle
      /\ job' = [job EXCEPT !.state = "queued", !.mem = job.saved]
  BY DEF Crash, Channel, Running
<1>2. journal \in Seq(Entries) /\ LiveTypes /\ job.saved.last \in Numbers /\ job.mem.last \in Numbers
  BY LiveTyped DEF LiveInv, LiveTypes
<1>3. /\ InOrder' /\ GapsMarked' /\ NothingMissed' /\ journal' \in Seq(Entries)
      /\ \/ journal' = journal
         \/ At("index") /\ Latest'.stream = run.variant /\ Latest'.seq \in Kept(run)
  <2>1. ASSUME run.pc = "index", NEW m \in 1..Len(Lines(run)), journal' = journal \o SubSeq(Lines(run), 1, m)
        PROVE  /\ InOrder' /\ GapsMarked' /\ NothingMissed' /\ journal' \in Seq(Entries)
               /\ At("index") /\ Latest'.stream = run.variant /\ Latest'.seq \in Kept(run)
    <3>1. At("index")
      BY <1>1, <2>1 DEF At, Running
    <3>2. m \in 0..Len(Lines(run)) /\ m > 0
      <4>1. Len(Lines(run)) \in Nat
        BY <3>1, LinesAre
      <4>2. QED BY <4>1
    <3>3. QED BY <1>1, <2>1, <3>1, <3>2, RecordGrows
  <2>2. CASE UNCHANGED journal
    BY <1>1, <1>2, <2>2, RecordStays
  <2>3. QED BY <2>1, <2>2 DEF Crash
<1>4. job'.state = "queued" /\ job'.mem = job.saved /\ job'.saved = job.saved /\ JobShaped'
  BY <1>1, <1>2 DEF LiveTypes, JobShaped, Shaped
<1>5. LiveTypes'
  BY <1>1, <1>2, <1>3, <1>4, LiveIdle DEF LiveTypes
<1>6. Known' /\ BatchOK' /\ FilesOK' /\ Pending'
  BY <1>4 DEF Known, BatchOK, FilesOK, Pending, InBatch, Running, At
<1>7. run'.variant = None /\ run.variant \in Nat /\ air.stream \in Nat
  BY <1>1, <1>2, LiveIdle, LiveTyped
<1>8. LatestOK' /\ Covered(job.saved.last)'
  <2>1. CASE journal' = journal
    <3>1. Latest' = Latest
      BY <2>1 DEF Latest
    <3>2. LatestOK'
      BY <1>1, <1>7, <2>1, <3>1 DEF LiveInv, LatestOK, None
    <3>3. Covered(job.saved.last)
      BY DEF LiveInv
    <3>4. QED BY <1>1, <1>4, <1>7, <2>1, <3>2, <3>3, CoveredStays
  <2>2. CASE At("index") /\ Latest'.stream = run.variant /\ Latest'.seq \in Kept(run)
    <3>1. \E a, b \in Nat : run.new = a..b
      BY <1>1, <2>2 DEF LiveInv, BatchOK, InBatch, At
    <3>2. Latest'.seq \in Nat /\ job.mem.last < Latest'.seq /\ First[run.variant] <= Latest'.seq
      BY <1>1, <2>2, <3>1 DEF LiveInv, BatchOK, InBatch, At, Kept
    <3>3. job.saved.last <= job.mem.last
      BY <1>1 DEF LiveInv, Known
    <3>4. LatestOK'
      BY <1>1, <1>7, <2>2, <3>2 DEF LiveInv, LatestOK, None
    <3>5. \A q \in Nat : ~(Latest'.seq < q /\ q <= job.saved.last)
      BY <1>2, <3>2, <3>3 DEF Numbers, NoSeq
    <3>6. QED BY <1>4, <3>4, <3>5 DEF Covered
  <2>3. QED BY <1>3, <2>1, <2>2
<1>9. Covered(job.mem.last)'
  BY <1>4, <1>8 DEF Covered
<1>10. QED BY <1>3, <1>5, <1>6, <1>8, <1>9 DEF LiveInv

LEMMA RaisedLive == ASSUME LiveInv, UNCHANGED <<air, Recording>>, Raised PROVE LiveInv'
<1>1. PICK state \in {"failed", "queued"} : Leaves(state, job.attempts + 1)
  BY DEF Raised
<1>2. QED BY <1>1, LeavesLive

LEMMA LiveNextInv == LiveInv /\ [Next]_vars => LiveInv'
<1> SUFFICES ASSUME LiveInv, [Next]_vars PROVE LiveInv'
  OBVIOUS
<1>1. CASE Begin \/ Connect \/ NoVariant \/ FetchFails \/ DownloadInit \/ Index \/ Finish
  BY <1>1, BeginLive, LoopLive, DownloadInitLive, IndexLive, FinishLive
<1>2. CASE NothingCaptured \/ Raises
  BY <1>2, RaisedLive DEF NothingCaptured, Raises, Channel
<1>3. ASSUME NEW ended \in BOOLEAN, Fetch(ended) PROVE LiveInv'
  BY <1>3, FetchLive
<1>4. ASSUME NEW lost, Download(lost) PROVE LiveInv'
  BY <1>4, DownloadLive
<1>5. ASSUME NEW save, After(save) PROVE LiveInv'
  BY <1>5, AfterLive
<1>6. CASE Interrupt
  BY <1>6, LeavesLive DEF Interrupt, Channel
<1>7. CASE UNCHANGED vars
  <2>1. UNCHANGED <<job, run, Recording, air>>
    BY <1>7 DEF vars, Recording
  <2>2. air \in [stream : Streams, on : BOOLEAN, head : Nat]
    BY DEF LiveInv, LiveTypes
  <2>3. QED BY <2>1, <2>2, ChannelInv
<1>8. QED BY <1>1, <1>2, <1>3, <1>4, <1>5, <1>6, <1>7, CrashLive, ChannelSteps DEF Next, Step

----------------------------------------------------------------------------
(* Theorems.                                                                *)

\* Whatever happens, each capture's directory and payload fit what it has fetched.
THEOREM CaptureInvariant == EitherSpec => [](LiveInv /\ VodInv)
<1>1. EitherInit => LiveInv /\ VodInv
  BY LiveInitInv, NoArchiveInv, VodInitInv DEF EitherInit
<1>2. LiveInv /\ VodInv /\ [EitherNext]_<<vars, vodVars>> => LiveInv' /\ VodInv'
  <2> SUFFICES ASSUME LiveInv, VodInv, [EitherNext]_<<vars, vodVars>> PROVE LiveInv' /\ VodInv'
    OBVIOUS
  <2>1. [Next]_vars
    BY DEF EitherNext
  <2>2. [V!Next]_V!vars
    BY DEF EitherNext, vodVars, V!vars
  <2>3. QED BY <2>1, <2>2, LiveNextInv, VodNextInv
<1>3. QED BY <1>1, <1>2, PTL DEF EitherSpec

\* A live recording is in its stream's order, with nothing twice and each entry's file the segment
\* it is about, and what it leaves out is marked as a discontinuity, whatever the channel, the
\* downloads and the worker do (live_record's last_seq and pending_disc).
THEOREM RecordingInOrder == EitherSpec => []OrderedWithGaps
<1>1. LiveInv /\ VodInv => OrderedWithGaps
  BY DEF LiveInv, OrderedWithGaps
<1>2. QED BY <1>1, CaptureInvariant, PTL

\* A live recording leaves out only ads and what could not be had, and a capture that is done lists
\* files that are there, each segment once, without a hole unless the VOD was taken down, and all
\* of a VOD whose end it saw.
THEOREM CapturesAreWhole == EitherSpec => []CapturedWhole
<1>1. LiveInv /\ VodInv => CapturedWhole
  BY VodWhole DEF LiveInv, CapturedWhole
<1>2. QED BY <1>1, CaptureInvariant, PTL

\* What a VOD's recording plays with its sound it keeps, whatever Twitch mutes, refuses or removes
\* later and however often the step is run again (_sync_segments).
THEOREM SoundIsKept == EitherSpec => KeepsSound
<1>1. LiveInv /\ VodInv /\ [EitherNext]_<<vars, vodVars>>
        => [\A k \in 1..Total : <<k, "plain">> \in index => <<k, "plain">> \in index']_V!vars
  <2> SUFFICES ASSUME LiveInv, VodInv, [EitherNext]_<<vars, vodVars>>
               PROVE  [\A k \in 1..Total : <<k, "plain">> \in index => <<k, "plain">> \in index']_V!vars
    OBVIOUS
  <2>1. [V!Next]_V!vars
    BY DEF EitherNext, vodVars, V!vars
  <2>2. QED BY <2>1, SoundStays
<1>2. QED BY <1>1, CaptureInvariant, PTL DEF EitherSpec, KeepsSound, V!KeepsSound
=============================================================================
