--------------------------- MODULE EventPipeline ---------------------------
(***************************************************************************)
(* How verdicts become rows of the event log (cfc-daemon/src/ipc/mod.rs,   *)
(* nfqueue/mod.rs, storage.rs).  The packet worker delivers a verdict,     *)
(* queues the row itself when it is a refusal, and publishes every verdict *)
(* to the live feed, a broadcast that overwrites what a slow receiver has  *)
(* not read.  The feeder task turns the allows of the feed into rows for   *)
(* the same bounded queue; the writer task drains it in batches and trims  *)
(* the table.  Nobody ever waits: what does not fit is counted as dropped. *)
(*                                                                         *)
(* Abstractions.  Verdicts are numbered in the order the one worker thread *)
(* delivers them, and a row is the number of its verdict.  The feed is two *)
(* positions: how many verdicts were published and how many the feeder has *)
(* passed.  Rows are trimmed by timestamp, which for parked packets is not *)
(* the order of delivery: any rows may be the oldest.                      *)
(***************************************************************************)
EXTENDS Integers, FiniteSets, Sequences, Functions

CONSTANTS
  MaxVerdicts,  \* bound: verdicts delivered in a behaviour
  FeedCap,      \* capacity of the live feed
  QueueDepth,   \* EVENT_QUEUE_DEPTH
  BatchRows,    \* EVENT_BATCH_ROWS
  MaxRows,      \* [events] max_rows
  MaxFailures   \* bound: storage errors

ASSUME EventAssumption ==
  /\ MaxVerdicts \in Nat /\ MaxRows \in Nat /\ MaxFailures \in Nat
  /\ FeedCap \in Nat \ {0} /\ QueueDepth \in Nat \ {0} /\ BatchRows \in Nat \ {0}

VARIABLES
  action,    \* the verdicts delivered so far
  published, \* how many of them reached the live feed
  passed,    \* how many of those the feeder has read or missed
  queue,     \* rows between EventSink::push and the writer
  batch,     \* rows the writer holds
  stored,    \* rows of the events table
  pruned,    \* history: rows trimmed from it
  dropped,   \* EventSink::dropped
  commitFailures  \* batches that could not be committed

logVars == <<action, published, passed, queue, batch, stored, pruned, dropped, commitFailures>>

LogInit ==
  /\ action = <<>> /\ published = 0 /\ passed = 0
  /\ queue = <<>> /\ batch = <<>> /\ stored = <<>> /\ pruned = {}
  /\ dropped = 0 /\ commitFailures = 0

\* EventSink::push: queue the row, or count it.
Push(row) ==
  IF Len(queue) < QueueDepth
    THEN queue' = Append(queue, row) /\ UNCHANGED dropped
    ELSE dropped' = dropped + 1 /\ UNCHANGED queue

\* Worker::deliver: the verdict is out; a refusal goes straight to the queue.
Deliver(act) ==
  /\ published = Len(action) /\ Len(action) < MaxVerdicts
  /\ action' = Append(action, act)
  /\ IF act = "Refuse" THEN Push(Len(action) + 1) ELSE UNCHANGED <<queue, dropped>>
  /\ UNCHANGED <<published, passed, batch, stored, pruned, commitFailures>>

\* publish_observation, the end of deliver.
Publish ==
  /\ published < Len(action)
  /\ published' = published + 1
  /\ UNCHANGED <<action, passed, queue, batch, stored, pruned, dropped, commitFailures>>

\* Verdicts the feed has overwritten before the feeder read them.
Missed == IF published - passed > FeedCap THEN published - passed - FeedCap ELSE 0

\* The feeder receives the next verdict; refusals are not its business.
FeederReads ==
  /\ Missed = 0 /\ passed < published
  /\ passed' = passed + 1
  /\ IF action[passed + 1] = "Allow" THEN Push(passed + 1) ELSE UNCHANGED <<queue, dropped>>
  /\ UNCHANGED <<action, published, batch, stored, pruned, commitFailures>>

\* RecvError::Lagged(n): all n are counted.
FeederLags ==
  /\ Missed > 0
  /\ passed' = passed + Missed
  /\ dropped' = dropped + Missed
  /\ UNCHANGED <<action, published, queue, batch, stored, pruned, commitFailures>>

\* write_batch: one transaction; on an error the batch is counted and gone.
\* Faulty variant: a failed batch is logged, not counted.
WriteUncounted(rows) ==
  /\ batch' = <<>>
  /\ \/ stored' = stored \o rows /\ UNCHANGED <<dropped, commitFailures>>
     \/ /\ rows # <<>> /\ commitFailures < MaxFailures /\ commitFailures' = commitFailures + 1
        /\ UNCHANGED <<stored, dropped>>
WriteBatch(rows) ==
  /\ batch' = <<>>
  /\ \/ stored' = stored \o rows /\ UNCHANGED <<dropped, commitFailures>>
     \/ /\ rows # <<>> /\ commitFailures < MaxFailures /\ commitFailures' = commitFailures + 1
        /\ dropped' = dropped + Len(rows) /\ UNCHANGED stored

\* event_writer_task: a row arrives, and a full batch is written at once.
WriterTakes ==
  /\ queue # <<>>
  /\ queue' = Tail(queue)
  /\ LET rows == Append(batch, Head(queue)) IN
     IF Len(rows) >= BatchRows THEN WriteBatch(rows)
     ELSE batch' = rows /\ UNCHANGED <<stored, dropped, commitFailures>>
  /\ UNCHANGED <<action, published, passed, pruned>>

\* The one-second tick writes what there is.
FlushTick ==
  /\ batch # <<>>
  /\ WriteBatch(batch)
  /\ UNCHANGED <<action, published, passed, queue, pruned>>

\* prune_events; an error is only logged.
PruneTick ==
  /\ Len(stored) > MaxRows
  /\ \E kept \in [1..MaxRows -> 1..Len(stored)] :
       /\ \A i, j \in 1..MaxRows : i < j => kept[i] < kept[j]
       /\ stored' = [i \in 1..MaxRows |-> stored[kept[i]]]
       /\ pruned' = pruned \cup (Range(stored) \ Range(stored'))
  /\ UNCHANGED <<action, published, passed, queue, batch, dropped, commitFailures>>

Worker == \/ \E act \in {"Allow", "Refuse"} : Deliver(act)
          \/ Publish
Feeder == FeederReads \/ FeederLags
Writer == WriterTakes \/ FlushTick \/ PruneTick

LogNext == Worker \/ Feeder \/ Writer

-----------------------------------------------------------------------------
(* Properties *)

Delivered == 1..Len(action)
Rows      == queue \o batch \o stored

\* The verdicts that will never be in the table: no row of them is anywhere,
\* and the feeder is past them (allows) or they were never its business.
Lost == {v \in Delivered : /\ v \notin Range(Rows) \cup pruned
                           /\ action[v] = "Allow" => v <= passed}

\* A verdict is logged at most once, though a refusal travels by the queue and
\* by the feed; and "every row lost on the way (queue full, feeder lag, failed
\* batch commit) is counted in one counter".
LoggedOrCounted ==
  /\ IsInjective(Rows) /\ Range(Rows) \cap pruned = {}
  /\ Cardinality(Lost) <= dropped
=============================================================================
