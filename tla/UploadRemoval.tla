----------------------------- MODULE UploadRemoval -----------------------------
(****************************************************************************)
(* delete_uploads (admin.py) and YouTube.delete: a request deletes some of  *)
(* a VOD's uploads from YouTube one by one, takes those off the VOD's list  *)
(* in one transaction, and queues a describe job per type that is left;     *)
(* meanwhile a re-archive uploads parts again, uploads are deleted on       *)
(* YouTube itself, and describe jobs rewrite the descriptions.              *)
(*                                                                          *)
(* An upload is <<type, part, generation>>.  The steps of the re-archive    *)
(* and of describe are Publish's, taken whole here.                         *)
(****************************************************************************)
EXTENDS Integers, FiniteSets

CONSTANTS
  Listed,     \* the VOD's uploads at first
  None,
  MaxRequests, MaxReuploads, MaxFaults   \* bounds

\* Each is of the first generation.
RemovalAssumption == \A e \in Listed : e = <<e[1], e[2], 1>>

VARIABLES
  list,       \* vods.youtube
  channel,    \* the videos on YouTube
  links,      \* video -> the other parts its description links to
  request,    \* [step, todo, deleted, failed, types]
  describes,  \* types with a describe job queued
  cutShort,   \* history: deleted by a request that ended before it took them off the list
  untold,     \* history: types whose describe job such a request did not come to
  doomed,     \* history: uploads a re-archive listed in place of another
  counts      \* history: [requests, reuploads, faults]

removalVars == <<list, channel, links, request, describes, cutShort, untold, doomed, counts>>

Idle    == [step |-> "idle", todo |-> {}, deleted |-> {}, failed |-> {}, types |-> {}]
Of(es, type) == {e \in es : e[1] = type}
Types(es)    == {e[1] : e \in es}
Others(e)    == Of(list, e[1]) \ {e}
Count(what)  == counts' = [counts EXCEPT ![what] = @ + 1]

----------------------------------------------------------------------------
(* The request.                                                             *)

\* Ids that are not listed are refused.
Begin ==
  /\ request = Idle /\ counts.requests < MaxRequests
  /\ \E ids \in SUBSET list \ {{}} : request' = [Idle EXCEPT !.step = "deleting", !.todo = ids]
  /\ Count("requests")
  /\ UNCHANGED <<list, channel, links, describes, cutShort, untold, doomed>>

\* A video YouTube does not have counts as deleted.
Delete(e) ==
  /\ request.step = "deleting" /\ e \in request.todo
  /\ channel' = channel \ {e}
  /\ request' = [request EXCEPT !.todo = @ \ {e}, !.deleted = @ \cup {e}]
  /\ UNCHANGED <<list, links, describes, cutShort, untold, doomed, counts>>

\* YouTube refuses, or does not answer: perhaps the video is gone.
DeleteFails(e) ==
  /\ request.step = "deleting" /\ e \in request.todo /\ counts.faults < MaxFaults
  /\ channel' \in {channel, channel \ {e}}
  /\ cutShort' = IF e \in channel' THEN cutShort ELSE cutShort \cup {e}
  /\ request' = [request EXCEPT !.todo = @ \ {e}, !.failed = @ \cup {e}]
  /\ Count("faults")
  /\ UNCHANGED <<list, links, describes, untold, doomed>>

\* The account is no longer authorized, or the worker stops.
EndsEarly ==
  /\ request # Idle /\ counts.faults < MaxFaults
  /\ cutShort' = cutShort \cup (request.deleted \cap list)
  /\ untold' = untold \cup request.types
  /\ request' = Idle
  /\ Count("faults")
  /\ UNCHANGED <<list, channel, links, describes, doomed>>

\* drop_youtube_entries, of the list as it is.
Left == list \ request.deleted

Drop ==
  /\ request.step = "deleting" /\ request.todo = {}
  /\ list' = Left
  /\ request' = [request EXCEPT !.step = "dropped", !.types = Types(list \cap request.deleted)]
  /\ UNCHANGED <<channel, links, describes, cutShort, untold, doomed, counts>>

Describe ==
  /\ request.step = "dropped"
  /\ describes' = describes \cup (request.types \cap Types(list))
  /\ request' = Idle
  /\ UNCHANGED <<list, channel, links, cutShort, untold, doomed, counts>>

----------------------------------------------------------------------------
(* The others.                                                              *)

\* A part is uploaded again, listed in place of the old upload, which is deleted after that; its job
\* describes the type's uploads at its end.
Reupload(e) ==
  LET new == <<e[1], e[2], counts.reuploads + 2>>
  IN  /\ e \in list /\ counts.reuploads < MaxReuploads
      /\ list' = (list \ {e}) \cup {new}
      /\ channel' = channel \cup {new}
      /\ doomed' = doomed \cup {e}
      /\ describes' = describes \cup {e[1]}
      /\ Count("reuploads")
      /\ UNCHANGED <<links, request, cutShort, untold>>

DeleteReplaced(e) ==
  /\ e \in doomed \cap channel /\ channel' = channel \ {e}
  /\ UNCHANGED <<list, links, request, describes, cutShort, untold, doomed, counts>>

\* The step describe; it reads the list once.
RunDescribe(type) ==
  /\ type \in describes
  /\ links' = [e \in DOMAIN links \cup (Of(list, type) \cap channel) |->
                 IF e \in Of(list, type) \cap channel THEN Others(e) ELSE links[e]]
  /\ describes' = describes \ {type}
  /\ untold' = untold \ {type}
  /\ UNCHANGED <<list, channel, request, cutShort, doomed, counts>>

Init ==
  /\ list = Listed /\ channel = Listed /\ request = Idle
  /\ links = [e \in Listed |-> Of(Listed, e[1]) \ {e}]
  /\ describes = {} /\ cutShort = {} /\ untold = {} /\ doomed = {}
  /\ counts = [requests |-> 0, reuploads |-> 0, faults |-> 0]

Next ==
  \/ Begin \/ Drop \/ Describe \/ EndsEarly
  \/ \E e \in request.todo : Delete(e) \/ DeleteFails(e)
  \/ \E e \in list : Reupload(e)
  \/ \E e \in doomed : DeleteReplaced(e)
  \/ \E type \in describes : RunDescribe(type)

Spec == Init /\ [][Next]_removalVars

----------------------------------------------------------------------------

TypeOK ==
  /\ request.step \in {"idle", "deleting", "dropped"}
  /\ list \cup channel \subseteq DOMAIN links \cup Types(list) \X (1..2) \X (1..(MaxReuploads + 1))
  /\ describes \cup untold \subseteq Types(Listed)

\* While no request is under way and no describe job is queued, every listed upload is on YouTube and
\* links to the other listed parts alone, however re-archives and requests ran; but for an upload whose
\* deletion had no answer or whose request ended early, which stays listed, and for the links in the
\* descriptions of a type whose describe job such a request did not come to.
RemovalIsWhole ==
  request = Idle /\ describes = {} =>
    /\ list \subseteq channel \cup cutShort
    /\ \A e \in list \cap channel : e[1] \in untold \/ (e \in DOMAIN links /\ links[e] = Others(e))
===============================================================================
