---------------------------- MODULE VectorQueue ----------------------------
(***************************************************************************)
(* How one client's rows reach the vector index: the vector_queue table,   *)
(* the durable object's alarm, the drain it runs, and the scheduleDrain    *)
(* call every write ends with.  Storage transactions are atomic; between   *)
(* the awaits of drain and scheduleDrain anything else may run.            *)
(*                                                                         *)
(* Time is abstract: next_at says only whether a row may be tried yet and, *)
(* among the rows that may, which has an earlier next_at.  The alarm fires *)
(* at some time after it is set.  The index and the embedding model are    *)
(* external: a call may fail, and an upsert may land although its answer   *)
(* is lost.                                                                *)
(***************************************************************************)
EXTENDS Naturals, FiniteSets

CONSTANTS
  Item,         \* queue item ids: kind and row of what is to be indexed
  Poison,       \* items the embedding model never accepts
  MaxAttempts,  \* attempts after which an item is given up
  Batch,        \* items embedded in one alarm run
  MaxCalls,     \* bound: scheduleDrain calls in progress at one time
  MaxCrashes,   \* bound: restarts of the object
  Redeploys     \* whether a restart may change the search bindings

ASSUME QueueConstants ==
  /\ Poison \subseteq Item
  /\ MaxAttempts \in Nat \ {0}
  /\ Batch \in Nat \ {0}
  /\ MaxCalls \in Nat /\ MaxCrashes \in Nat
  /\ Redeploys \in BOOLEAN

VARIABLES
  attempts,   \* table vector_queue: a function on the items that have a row
  due,        \* the rows that may be tried: their next_at has passed
  older,      \* pairs of due rows, the first with the earlier next_at
  alarm,      \* the object's alarm is set
  drain,      \* the alarm run in progress: its phase and the rows it read
  asking,     \* scheduleDrain calls that wait for getAlarm
  setting,    \* scheduleDrain calls that found no alarm and will set it
  backend,    \* the search bindings are configured
  index,      \* external: the items in the vector index
  everQueued, \* history: every item a write handed to the queue
  crashes     \* restarts so far, for the bound

rows == <<attempts, due, older>>
vars == <<rows, alarm, drain, asking, setting, backend, index, everQueued,
          crashes>>

Idle == [phase |-> "idle", batch |-> {}, read |-> << >>]

\* failedItems and pendingCount.
Failed  == {i \in DOMAIN attempts : attempts[i] >= MaxAttempts}
Pending == {i \in DOMAIN attempts : attempts[i] < MaxAttempts}

\* Rows whose backoff has not passed.
Waiting == Pending \ due

\* LIMIT: as many of the due rows as there are, or Batch.
BatchSize == IF Cardinality(due) < Batch THEN Cardinality(due) ELSE Batch

\* dueItems, mutated: the newest rows first.
NewestDue == {K \in SUBSET due : /\ Cardinality(K) = BatchSize
                                /\ \A p \in older : p[1] \in K => p[2] \in K}

\* dueItems: the batches it may return, none with a row left out that is older
\* than one taken.  Rows queued together have one next_at: their random ids
\* decide.
DueItems == {K \in SUBSET due : /\ Cardinality(K) = BatchSize
                               /\ \A p \in older : p[2] \in K => p[1] \in K}

Init ==
  /\ attempts = << >> /\ due = {} /\ older = {}
  /\ alarm = FALSE
  /\ drain = Idle
  /\ asking = 0 /\ setting = 0
  /\ backend \in IF Redeploys THEN BOOLEAN ELSE {TRUE}
  /\ index = {} /\ everQueued = {}
  /\ crashes = 0

-----------------------------------------------------------------------------
(* Writes *)

\* The first statement of scheduleDrain, reached in the same turn as the
\* commit: without a backend it returns, otherwise it awaits getAlarm.
BeginSchedule ==
  IF backend
  THEN asking + setting < MaxCalls /\ asking' = asking + 1
  ELSE UNCHANGED asking

\* The pairs without the rows in gone.
OlderBut(gone) == {p \in older : p[1] \notin gone /\ p[2] \notin gone}

\* enqueue, for every one of the items: attempts 0 and due at once, after
\* every row that is due already.
Enqueue(items) ==
  /\ attempts' = [i \in DOMAIN attempts \cup items |->
                    IF i \in items THEN 0 ELSE attempts[i]]
  /\ due' = due \cup items
  /\ older' = OlderBut(items) \cup ((due \ items) \X items)

\* A transaction of recordEpisode or assertFact commits.  It enqueues rows
\* it has just created, or none (a duplicate, a corroboration).
Write(items) ==
  /\ items \cap everQueued = {}
  /\ Enqueue(items)
  /\ everQueued' = everQueued \cup items
  /\ BeginSchedule
  /\ UNCHANGED <<alarm, drain, setting, backend, index, crashes>>

\* reindexFailed, mutated: every row starts again.
ReindexAll ==
  /\ Enqueue(DOMAIN attempts)
  /\ BeginSchedule
  /\ UNCHANGED <<alarm, drain, setting, backend, index, everQueued, crashes>>

\* reindexFailed: the rows that gave up start again.
ReindexFailed ==
  /\ Enqueue(Failed)
  /\ BeginSchedule
  /\ UNCHANGED <<alarm, drain, setting, backend, index, everQueued, crashes>>

\* scheduleDrain after getAlarm: nothing to do if an alarm is set.
GotAlarm ==
  /\ asking > 0
  /\ asking' = asking - 1
  /\ setting' = IF alarm THEN setting ELSE setting + 1
  /\ UNCHANGED <<rows, alarm, drain, backend, index, everQueued, crashes>>

\* scheduleDrain sets the alarm, whether or not another call has by now.
SetAlarm ==
  /\ setting > 0
  /\ setting' = setting - 1
  /\ alarm' = TRUE
  /\ UNCHANGED <<rows, drain, asking, backend, index, everQueued, crashes>>

-----------------------------------------------------------------------------
(* The alarm *)

\* The backoff of a row passes.
BecomeDue(i) ==
  /\ i \in Waiting
  /\ due' = due \cup {i}
  /\ older' = older \cup (due \X {i})
  /\ UNCHANGED <<attempts, alarm, drain, asking, setting, backend, index,
                 everQueued, crashes>>

\* alarm() when drain has nothing to try: without a backend it returns true
\* and the alarm is gone; with one, waiting rows set it again.
AlarmFindsNothing ==
  /\ alarm /\ drain = Idle
  /\ ~backend \/ due = {}
  /\ alarm' = (backend /\ Pending # {})
  /\ UNCHANGED <<rows, drain, asking, setting, backend, index,
                 everQueued, crashes>>

\* alarm() when rows are due: drain reads a batch, with the attempts of its
\* rows, and awaits the embedding model.  While it runs, getAlarm is null.
AlarmReadsBatch ==
  /\ alarm /\ drain = Idle
  /\ backend /\ due # {}
  /\ alarm' = FALSE
  /\ \E K \in DueItems :
       drain' = [phase |-> "embedding", batch |-> K,
                 read |-> [i \in K |-> attempts[i]]]
  /\ UNCHANGED <<rows, asking, setting, backend, index, everQueued, crashes>>

\* embed answers with one valid vector per item.
Embedded ==
  /\ drain.phase = "embedding"
  /\ drain.batch \cap Poison = {}
  /\ drain' = [drain EXCEPT !.phase = "upserting"]
  /\ UNCHANGED <<rows, alarm, asking, setting, backend, index,
                 everQueued, crashes>>

\* The index takes the vectors; the answer is still on its way.
UpsertLands ==
  /\ drain.phase = "upserting"
  /\ index' = index \cup drain.batch
  /\ drain' = [drain EXCEPT !.phase = "upserted"]
  /\ UNCHANGED <<rows, alarm, asking, setting, backend, everQueued, crashes>>

\* The end of alarm(), mutated: pending rows do not set the alarm again.
NoRearm ==
  /\ drain' = Idle
  /\ UNCHANGED alarm

\* The end of alarm(): with rows still pending the alarm is set again.
EndAlarm ==
  /\ drain' = Idle
  /\ alarm' = (alarm \/ Pending' # {})

\* markDone, mutated: the rows go before the index has answered.
MarkDoneEarly ==
  /\ drain.phase \in {"upserting", "upserted"}
  /\ attempts' = [i \in DOMAIN attempts \ drain.batch |-> attempts[i]]
  /\ due' = due \ drain.batch
  /\ older' = OlderBut(drain.batch)
  /\ EndAlarm
  /\ UNCHANGED <<asking, setting, backend, index, everQueued, crashes>>

\* markDone for every item of the batch.
MarkDone ==
  /\ drain.phase = "upserted"
  /\ attempts' = [i \in DOMAIN attempts \ drain.batch |-> attempts[i]]
  /\ due' = due \ drain.batch
  /\ older' = OlderBut(drain.batch)
  /\ EndAlarm
  /\ UNCHANGED <<asking, setting, backend, index, everQueued, crashes>>

\* markFailed, mutated: next_at is not moved.
MarkFailedStillDue ==
  /\ drain # Idle
  /\ attempts' = [i \in DOMAIN attempts |->
                    IF i \in drain.batch THEN drain.read[i] + 1 ELSE attempts[i]]
  /\ EndAlarm
  /\ UNCHANGED <<due, older, asking, setting, backend, index, everQueued, crashes>>

\* embed or upsert throws: markFailed for every item of the batch, from the
\* attempts read before the awaits.
MarkFailed ==
  /\ drain # Idle
  /\ attempts' = [i \in DOMAIN attempts |->
                    IF i \in drain.batch THEN drain.read[i] + 1 ELSE attempts[i]]
  /\ due' = due \ drain.batch
  /\ older' = OlderBut(drain.batch)
  /\ EndAlarm
  /\ UNCHANGED <<asking, setting, backend, index, everQueued, crashes>>

\* The object is restarted: calls in progress are gone, storage stays, and
\* the platform runs an alarm again that was interrupted.  A new deployment
\* may add or remove the search bindings.
Crash ==
  /\ crashes < MaxCrashes
  /\ crashes' = crashes + 1
  /\ drain' = Idle
  /\ alarm' = (alarm \/ drain # Idle)
  /\ asking' = 0 /\ setting' = 0
  /\ backend' \in IF Redeploys THEN BOOLEAN ELSE {backend}
  /\ UNCHANGED <<rows, index, everQueued>>

-----------------------------------------------------------------------------
Writes == \E items \in SUBSET Item : Write(items)

Next ==
  \/ Writes
  \/ ReindexFailed
  \/ GotAlarm
  \/ SetAlarm
  \/ \E i \in Item : BecomeDue(i)
  \/ AlarmFindsNothing
  \/ AlarmReadsBatch
  \/ Embedded
  \/ UpsertLands
  \/ MarkDone
  \/ MarkFailed
  \/ Crash

Spec == Init /\ [][Next]_vars

\* Time passes, the platform fires alarms and settles awaited calls.  No
\* fairness of writes, of reindex requests or of crashes, and none between
\* a call's success and its failure.
Fairness ==
  /\ WF_vars(GotAlarm) /\ WF_vars(SetAlarm)
  /\ \A i \in Item : WF_vars(BecomeDue(i))
  /\ WF_vars(AlarmFindsNothing \/ AlarmReadsBatch)
  /\ WF_vars(Embedded \/ UpsertLands \/ MarkDone \/ MarkFailed)

FairSpec == Spec /\ Fairness

-----------------------------------------------------------------------------
(* The inductive invariant *)

TypeOK ==
  /\ DOMAIN attempts \subseteq Item
  /\ attempts \in [DOMAIN attempts -> 0 .. MaxAttempts]
  /\ due \subseteq Pending
  /\ older \subseteq due \X due
  /\ alarm \in BOOLEAN /\ backend \in BOOLEAN
  /\ drain.phase \in {"idle", "embedding", "upserting", "upserted"}
  /\ drain.batch \subseteq Item
  /\ drain.read \in [drain.batch -> 0 .. MaxAttempts]
  /\ drain = [phase |-> drain.phase, batch |-> drain.batch, read |-> drain.read]
  /\ asking \in 0 .. MaxCalls /\ setting \in 0 .. MaxCalls
  /\ asking + setting <= MaxCalls
  /\ index \subseteq Item /\ everQueued \subseteq Item
  /\ crashes \in 0 .. MaxCrashes

\* What the proofs rest on: only what a write queued has a row, the rows due
\* are among those that may be tried, and what drain says it has put into the
\* index is there.
QueueInv ==
  /\ TypeOK
  /\ DOMAIN attempts \subseteq everQueued
  /\ drain.phase = "idle" => drain = Idle
  /\ drain.phase = "upserted" => drain.batch \subseteq index

-----------------------------------------------------------------------------
(* Properties *)

\* An item a write handed to the queue is always still queued, given up
\* included, or in the index: no failure, lost answer or restart between the
\* upsert and markDone drops it.  (ClientMemory.ts drain)
NothingLost == everQueued \subseteq DOMAIN attempts \cup index

\* While a batch is at the model or the index, its rows still are what drain
\* read: no write, reindex request or other alarm touches them, so writing
\* back attempts from the old read, and deleting the rows unseen, is sound.
InFlightUntouched ==
  \A i \in drain.batch : i \in Pending /\ attempts[i] = drain.read[i]

\* As long as the object has not been restarted and has its backend, work that
\* waits is never left without an alarm to come: one is set, running, or about
\* to be set.  (scheduleDrain, alarm)
AlarmCoversQueue ==
  crashes = 0 /\ backend /\ Pending # {} =>
    alarm \/ drain # Idle \/ asking + setting > 0

AllSettle == \A i \in Item : i \in Pending ~> i \notin Pending

\* Without restarts, every queued item is indexed or given up in the end,
\* however often others are requeued and whatever fails.
Settles == [](crashes = 0 /\ backend) => AllSettle

\* A restart between a commit and its alarm, or an alarm that fires while
\* the search bindings are missing, leaves rows with no alarm; once the
\* bindings are back for good, later requests bring them all to an end.
SettlesOnceAsked ==
  (<>[]backend /\ []<><<ReindexFailed>>_vars) => AllSettle
=============================================================================
