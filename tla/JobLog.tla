-------------------------------- MODULE JobLog --------------------------------
(****************************************************************************)
(* events.py: a job's events are buffered, written in batches by a task and *)
(* by every request that lists them, pruned, and polled by the dashboard    *)
(* (admin.py, job_events).                                                  *)
(*                                                                          *)
(* An event is the number of its log line; its seq is the id of its row.    *)
(****************************************************************************)
EXTENDS Integers, Sequences, FiniteSets, SequencesExt

CONSTANTS
  NoOne,
  cap, PRUNE_EVERY, Buffer, Limit,
  MaxEvents, MaxFaults  \* bounds

Flushers == {"loop", "poll"}   \* run_forever, and the dashboard's request

LogAssumption == NoOne \notin Flushers /\ cap \in Nat /\ Limit \in Nat

VARIABLES
  logged,   \* how many events there were
  pending,  \* _pending: events, oldest first
  table,    \* seq -> event: job_events, as committed
  next,     \* the next seq
  tx,       \* flusher -> [step, batch, rows]: the events it took, and its rows
  lock,     \* _lock: a flusher, or NoOne
  since,    \* _since_prune
  poll,     \* the dashboard's: [after, shown]
  lost,     \* history: events dropped with a batch, from a full buffer, or at an exit
  faults    \* for the bound

logVars == <<logged, pending, table, next, tx, lock, since, poll, lost, faults>>

Out(step) == [step |-> step, batch |-> <<>>, rows |-> [seq \in {} |-> 0]]
Seqs == DOMAIN table

----------------------------------------------------------------------------

\* add: a full buffer drops its oldest.
Add ==
  LET all == Append(pending, logged + 1) IN
  /\ logged < MaxEvents
  /\ logged' = logged + 1
  /\ IF Len(all) > Buffer THEN pending' = Tail(all) /\ lost' = lost \cup {Head(all)}
     ELSE pending' = all /\ UNCHANGED lost
  /\ UNCHANGED <<table, next, tx, lock, since, poll, faults>>

\* What a flusher does after its flush: the task sleeps or ends, a request reads.
Flushed(f) == Out(IF f = "poll" THEN "read" ELSE "out")

\* Mutant: batches are not written one after the other.
FreeAll == TRUE
Free    == lock = NoOne

\* flush: under the lock, all that is pending.
Flush(f) ==
  /\ tx[f].step = "out" /\ Free
  /\ IF pending = <<>> THEN tx' = [tx EXCEPT ![f] = Flushed(f)] /\ UNCHANGED <<pending, lock>>
     ELSE tx' = [tx EXCEPT ![f] = [Out("taken") EXCEPT !.batch = pending]] /\ pending' = <<>> /\ lock' = f
  /\ UNCHANGED <<logged, table, next, since, poll, lost, faults>>

\* The rows get their seqs, in the order of the events.
Insert(f) ==
  LET batch == tx[f].batch
      rows  == [seq \in next..((next + Len(batch)) - 1) |-> batch[(seq - next) + 1]]
  IN  /\ tx[f].step = "taken"
      /\ tx' = [tx EXCEPT ![f] = [step |-> "inserted", batch |-> batch, rows |-> rows]]
      /\ next' = next + Len(batch)
      /\ since' = since + Len(batch)
      /\ UNCHANGED <<logged, pending, table, lock, poll, lost, faults>>

\* _prune: all but the newest cap rows.
Pruned(rows) == [seq \in {s \in DOMAIN rows : Cardinality({t \in DOMAIN rows : t > s}) < cap} |-> rows[seq]]

\* The job's old rows go in the same transaction, every PRUNE_EVERY rows.
Commit(f) ==
  LET mine == tx[f].rows
      rows == [seq \in Seqs \cup DOMAIN mine |-> IF seq \in Seqs THEN table[seq] ELSE mine[seq]]
  IN  /\ tx[f].step = "inserted"
      /\ IF since >= PRUNE_EVERY THEN table' = Pruned(rows) /\ since' = 0 ELSE table' = rows /\ UNCHANGED since
      /\ tx' = [tx EXCEPT ![f] = Flushed(f)]
      /\ lock' = NoOne
      /\ UNCHANGED <<logged, pending, next, poll, lost, faults>>

Fault == faults < MaxFaults /\ faults' = faults + 1

\* The database fails: the batch is dropped; the prune may have been counted as done.
Fails(f) ==
  /\ tx[f].step \in {"taken", "inserted"} /\ Fault
  /\ lost' = lost \cup ToSet(tx[f].batch)
  /\ since' \in {since} \cup (IF tx[f].step = "inserted" /\ since >= PRUNE_EVERY THEN {0} ELSE {})
  /\ tx' = [tx EXCEPT ![f] = Flushed(f)]
  /\ lock' = NoOne
  /\ UNCHANGED <<logged, pending, table, next, poll>>

\* run_forever is cancelled in a flush, whose batch is lost with it; it flushes once more.
Cancel ==
  /\ tx["loop"].step # "out" /\ Fault
  /\ lost' = lost \cup ToSet(tx["loop"].batch)
  /\ lock' = NoOne
  /\ tx' = [tx EXCEPT !["loop"] = Out("out")]
  /\ UNCHANGED <<logged, pending, table, next, since, poll>>

\* The worker ends and starts again: what was not written is gone.
Restart ==
  /\ Fault
  /\ lost' = lost \cup ToSet(pending) \cup UNION {ToSet(tx[f].batch) : f \in Flushers}
  /\ pending' = <<>> /\ since' = 0 /\ lock' = NoOne
  /\ tx' = [f \in Flushers |-> Out("out")]
  /\ UNCHANGED <<logged, table, next, poll>>

\* The rows of a page, by their seq.
InOrder(page) == [i \in 1..Cardinality(page) |-> table[CHOOSE s \in page : Cardinality({t \in page : t < s}) = i - 1]]

\* list after its flush, and the route's next: a page of what comes after the last one.
Read ==
  LET new  == {seq \in Seqs : seq > poll.after}
      page == {s \in new : Cardinality({t \in new : t < s}) < Limit}
  IN  /\ tx["poll"].step = "read"
      /\ poll' = [after |-> IF page = {} THEN poll.after ELSE CHOOSE s \in page : \A t \in page : t <= s,
                  shown |-> poll.shown \o InOrder(page)]
      /\ tx' = [tx EXCEPT !["poll"] = Out("out")]
      /\ UNCHANGED <<logged, pending, table, next, lock, since, lost, faults>>

----------------------------------------------------------------------------

Init ==
  /\ logged = 0 /\ pending = <<>> /\ table = [seq \in {} |-> 0] /\ next = 1
  /\ tx = [f \in Flushers |-> Out("out")] /\ lock = NoOne /\ since = 0
  /\ poll = [after |-> 0, shown |-> <<>>] /\ lost = {}
  /\ faults = 0

Next ==
  \/ Add \/ Cancel \/ Restart \/ Read
  \/ \E f \in Flushers : Flush(f) \/ Insert(f) \/ Commit(f) \/ Fails(f)

Spec == Init /\ [][Next]_logVars

----------------------------------------------------------------------------

\* Events are pending, in a batch or in the table; seqs are given out once.
TypeOK ==
  /\ ToSet(pending) \subseteq 1..logged /\ lost \subseteq 1..logged
  /\ Seqs \subseteq 1..(next - 1) /\ \A seq \in Seqs : table[seq] \in 1..logged
  /\ lock \in Flushers \cup {NoOne} /\ poll.after \in 0..(next - 1)

\* Rows are in the order of the log, the newest cap of them are kept, and whoever polls with the next of
\* the last answer is shown every event once, in order, but those dropped or pruned before: a batch
\* that is committed late does not end up behind what was shown already (flush, list).
PollersMissNothing ==
  LET written == (1..logged) \ (lost \cup ToSet(pending) \cup UNION {ToSet(tx[f].batch) : f \in Flushers})
      kept    == {table[seq] : seq \in Seqs}
  IN  /\ \A s, t \in Seqs : s < t => table[s] < table[t]
      /\ \A e \in written \ kept : Cardinality({k \in kept : k > e}) >= cap
      /\ \A i, k \in DOMAIN poll.shown : i < k => poll.shown[i] < poll.shown[k]
      /\ \A seq \in Seqs : seq <= poll.after => table[seq] \in ToSet(poll.shown)
===============================================================================
