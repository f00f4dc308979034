------------------------------ MODULE MCSplices ------------------------------
(****************************************************************************)
(* Three VODs of one broadcast.  VOD 1 misses its first second and has two  *)
(* uploads; 2 starts two seconds after 1 ended and has a cut; 3 starts when *)
(* 2 ends.  The chat of 1 runs on past its end.                             *)
(****************************************************************************)
EXTENDS Splices

Upload(v, n, dur) == [id |-> <<v, n>>, type |-> "live", part |-> n, dur |-> dur, gaps |-> <<>>]
Chapter(name, start, len, restricted) == [name |-> name, start |-> start, len |-> len, restricted |-> restricted]

MCStart  == <<0, 8, 12>>
MCSideOf ==
  <<[duration |-> 6, chapters |-> {Chapter("game", 0, 6, FALSE)}, uploads |-> {Upload(1, 1, 2), Upload(1, 2, 3)}],
    [duration |-> 4, chapters |-> {Chapter("cut", 0, 1, TRUE), Chapter("game", 1, 3, FALSE)}, uploads |-> {Upload(2, 1, 3)}],
    [duration |-> 3, chapters |-> {Chapter("game", 0, 3, FALSE)}, uploads |-> {Upload(3, 1, 2)}]>>

Said(v, at) == [vod |-> <<v>>, at |-> at]
MCComments  == 1..5
MCCommentAt == <<Said(1, 2), Said(1, 3), Said(1, 9), Said(2, 0), Said(3, 1)>>
MCGames     == 1..2
MCGameAt    == <<[vod |-> <<1>>, start |-> 3, end |-> 5], [vod |-> <<2>>, start |-> 1, end |-> 3]>>
OnlyThree   == {<<3>>}
Symmetric   == Permutations(Callers)
OnlyOne     == {<<1>>}
OnlyTwo     == {<<2>>}
==============================================================================
