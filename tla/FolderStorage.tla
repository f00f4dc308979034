---------------------------- MODULE FolderStorage -----------------------------
(****************************************************************************)
(* storage.py: one folder of the data directory, the jobs that work in it,  *)
(* deletes of it by way of the trash, and the dashboard's cached scan.      *)
(*                                                                          *)
(* What a job wrote is its number; jobs of a folder run one at a time.      *)
(****************************************************************************)
EXTENDS Integers, FiniteSets

CONSTANTS
  Calls,              \* deletes at a time
  None,
  MaxJobs, MaxFaults  \* bounds

StorageAssumption == MaxJobs \in Nat /\ \A files \in SUBSET (0..MaxJobs) : files # None

VARIABLES
  folder,    \* what it holds, or None: there is no such folder
  trash,     \* entry -> what it holds; an entry is its number
  removals,  \* _removals: an entry, or 0 for one that removes the folder in place
  deletes,   \* call -> "idle", "found", "free"
  job,       \* [state, no, wrote, safe]: the latest; wrote: whether it has files here;
             \* safe: no delete was past its check, nor a removal in place under way, since it was queued
  scan,      \* [cached, task]: the cache, and what a scan under way found: "dropped" / "no" for none
  stuck,     \* entries whose removal failed, since the start
  made,      \* [entries, faults, failed]: failed is history, whether a move failed
  stale      \* history: the cached scan began before the last move out of the folder's place

storageVars == <<folder, trash, removals, deletes, job, scan, stuck, made, stale>>

Active == job.state \in {"queued", "running"}

Fault == made.faults < MaxFaults /\ made' = [made EXCEPT !.faults = @ + 1]

\* A removal in place is under way, for a move that failed.
RemovedInPlace == 0 \in removals /\ made.failed
Dropped == [scan EXCEPT !.cached = "dropped"]

----------------------------------------------------------------------------
(* The jobs.                                                                *)

Enqueue ==
  /\ ~Active /\ job.no < MaxJobs
  /\ job' = [state |-> "queued", no |-> job.no + 1, wrote |-> FALSE,
             safe |-> ~RemovedInPlace /\ \A c \in Calls : deletes[c] # "free"]
  /\ UNCHANGED <<folder, trash, removals, deletes, scan, stuck, made, stale>>

\* A step makes the folder and writes in it, or a runner takes the job up.
Work ==
  /\ Active
  /\ \/ job.state = "queued" /\ job' = [job EXCEPT !.state = "running"] /\ UNCHANGED folder
     \/ /\ job.state = "running" /\ ~job.wrote
        /\ folder' = (IF folder = None THEN {} ELSE folder) \cup {job.no}
        /\ job' = [job EXCEPT !.wrote = TRUE]
  /\ UNCHANGED <<trash, removals, deletes, scan, stuck, made, stale>>

JobEnds ==
  /\ Active
  /\ job' = [job EXCEPT !.state = "done"]
  /\ UNCHANGED <<folder, trash, removals, deletes, scan, stuck, made, stale>>

----------------------------------------------------------------------------
(* Deletes.                                                                 *)

\* folder_path
Find(c) ==
  /\ deletes[c] = "idle" /\ folder # None
  /\ deletes' = [deletes EXCEPT ![c] = "found"]
  /\ UNCHANGED <<folder, trash, removals, job, scan, stuck, made, stale>>

\* No job in ACTIVE works there, or it is refused.
AskJobs(c) ==
  /\ deletes[c] = "found"
  /\ deletes' = [deletes EXCEPT ![c] = IF Active THEN "idle" ELSE "free"]
  /\ UNCHANGED <<folder, trash, removals, job, scan, stuck, made, stale>>

InPlace == removals' = removals \cup {0} /\ UNCHANGED <<folder, trash>>

\* Mutant: the folder's files are removed where they are.
ToTrashInPlace == folder # None /\ InPlace /\ UNCHANGED made

\* to_trash, under a name no other delete uses; the folder is gone when the delete is answered.
ToTrash ==
  /\ folder # None
  /\ trash' = [e \in DOMAIN trash \cup {made.entries + 1} |-> IF e \in DOMAIN trash THEN trash[e] ELSE folder]
  /\ removals' = removals \cup {made.entries + 1}
  /\ made' = [made EXCEPT !.entries = @ + 1]
  /\ folder' = None

\* The move; when it fails (there is no trash, or another delete was first), a removal in place.
Move(c) ==
  /\ deletes[c] = "free"
  /\ \/ ToTrash
     \/ folder = None /\ InPlace /\ made' = [made EXCEPT !.failed = TRUE]
     \/ /\ folder # None /\ InPlace
        /\ made.faults < MaxFaults /\ made' = [made EXCEPT !.faults = @ + 1, !.failed = TRUE]
  /\ job' = [job EXCEPT !.safe = @ /\ ~(Active /\ RemovedInPlace')]
  /\ deletes' = [deletes EXCEPT ![c] = "idle"]
  /\ scan' = Dropped /\ stale' = (scan.task # "no")
  /\ UNCHANGED stuck

\* remove, on a thread: in place, what it finds of the folder; the cache is dropped then.
Remove(target) ==
  /\ target \in removals
  /\ removals' = removals \ {target}
  /\ \/ /\ IF target = 0 THEN folder' = None /\ UNCHANGED trash
           ELSE trash' = [e \in DOMAIN trash \ {target} |-> trash[e]] /\ UNCHANGED folder
        /\ UNCHANGED <<stuck, made>>
     \/ Fault /\ stuck' = stuck \cup {target} /\ UNCHANGED <<folder, trash>>
  /\ scan' = Dropped
  /\ stale' = (scan.task # "no")
  /\ UNCHANGED <<deletes, job>>

\* The worker ends, and starts again: empty_trash. A job that was active starts over.
Restart ==
  /\ Fault
  /\ removals' = DOMAIN trash /\ stuck' = {}
  /\ deletes' = [c \in Calls |-> "idle"]
  /\ job' = [job EXCEPT !.state = IF Active THEN "queued" ELSE @]
  /\ scan' = [cached |-> "dropped", task |-> "no"] /\ stale' = FALSE
  /\ UNCHANGED <<folder, trash>>

----------------------------------------------------------------------------
(* folders: one scan at a time, on a thread.                                *)

Seen == IF folder = None THEN "gone" ELSE "there"

ScanBegins ==
  /\ scan.task = "no"
  /\ scan' = [scan EXCEPT !.task = Seen]
  /\ UNCHANGED <<folder, trash, removals, deletes, job, stuck, made, stale>>

ScanEnds ==
  /\ scan.task # "no"
  /\ scan' = [cached |-> scan.task, task |-> "no"]
  /\ UNCHANGED <<folder, trash, removals, deletes, job, stuck, made, stale>>

\* CACHE_SECONDS pass.
CacheExpires ==
  /\ scan.cached # "dropped"
  /\ scan' = Dropped /\ stale' = (scan.task # "no" /\ stale)
  /\ UNCHANGED <<folder, trash, removals, deletes, job, stuck, made>>

----------------------------------------------------------------------------

Init ==
  /\ folder = None /\ trash = [e \in {} |-> {}] /\ removals = {} /\ stuck = {}
  /\ deletes = [c \in Calls |-> "idle"]
  /\ job = [state |-> "done", no |-> 0, wrote |-> FALSE, safe |-> TRUE]
  /\ scan = [cached |-> "dropped", task |-> "no"] /\ stale = FALSE
  /\ made = [entries |-> 0, faults |-> 0, failed |-> FALSE]

Next ==
  \/ Enqueue \/ Work \/ JobEnds \/ Restart \/ ScanBegins \/ ScanEnds \/ CacheExpires
  \/ \E c \in Calls : Find(c) \/ AskJobs(c) \/ Move(c)
  \/ \E target \in removals : Remove(target)

Spec == Init /\ [][Next]_storageVars

----------------------------------------------------------------------------

\* Entries of the trash are ones that were made.
TypeOK ==
  /\ folder \in {None} \cup SUBSET (0..MaxJobs)
  /\ DOMAIN trash \subseteq 1..made.entries /\ removals \subseteq 0..made.entries
  /\ deletes \in [Calls -> {"idle", "found", "free"}]
  /\ job \in [state : {"queued", "running", "done"}, no : 0..MaxJobs, wrote : BOOLEAN, safe : BOOLEAN]
  /\ scan \in [cached : {"dropped", "there", "gone"}, task : {"no", "there", "gone"}]
  /\ made \in [entries : Nat, faults : Nat, failed : BOOLEAN]

\* What a job wrote is in the folder as long as it is active, also when the folder was deleted before and
\* its files are still being removed: unless a delete had found no job when it was queued, or a removal
\* in place was under way. Everything in the trash is being removed, or its removal failed and the next
\* start tries again. A deleted folder is not shown, unless a scan was under way when it went
\* (Storage.delete, to_trash, _remove_later, empty_trash, folders).
DeletesAreSafe ==
  /\ Active /\ job.wrote /\ job.safe => folder # None /\ job.no \in folder
  /\ DOMAIN trash \subseteq removals \cup stuck
  /\ scan.cached = "there" /\ ~stale => folder # None
===============================================================================
