------------------------------ MODULE MCPublish ------------------------------
(* Instances of Publish for TLC.  Parts, ids and jobs are numbers; 0 is the *)
(* job of the uploads there were before.                                    *)
EXTENDS Publish

Old(type, k, g) == [id |-> <<NoJob, k>>, type |-> type, part |-> k, gaps |-> g, preview |-> TRUE]

Job(type, parts, total, whole, replace, gaps) ==
  [type |-> type, parts |-> parts, total |-> total, whole |-> whole, replace |-> replace,
   manual |-> TRUE, gaps |-> gaps]

\* A live recording is published in two parts while the VOD copy, in two parts, is archived
\* again in one.
LiveAndVod == <<Job("live", {1, 2}, 2, TRUE, FALSE, {1}), Job("vod", {1}, 1, TRUE, TRUE, {})>>
OldVod     == {Old("vod", 1, TRUE), Old("vod", 2, FALSE)}

\* The VOD copy is archived again by two requests.
TwoReplace == [j \in {1, 2} |-> Job("vod", {1, 2}, 2, TRUE, TRUE, {})]

Forcing == [dry_run |-> FALSE, youtube_upload |-> TRUE, live_record |-> TRUE, multi_track |-> FALSE,
            force_upload_manual |-> TRUE, previews |-> TRUE]
=============================================================================
