-------------------------- MODULE VectorQueueProofs --------------------------
(***************************************************************************)
(* Proofs about the vector queue, for any items, batch size and number of  *)
(* attempts, calls in progress and restarts: the queue loses nothing, the  *)
(* rows of a batch are left alone while it is away, and waiting work has   *)
(* an alarm to come.  That the work ends needs fairness and is left to     *)
(* model checking.                                                         *)
(***************************************************************************)
EXTENDS VectorQueue, TLAPS

\* The three facts that only hold together: a batch may be deleted or failed
\* unseen because nobody touches its rows, so nothing is lost.
Kept == QueueInv /\ InFlightUntouched /\ NothingLost

USE DEF Idle, Failed, Pending

-----------------------------------------------------------------------------
(* The parts of the handlers *)

\* Queueing items whose rows are not in the batch that is away keeps the
\* table in order, that batch's rows as they are, and every other row.
LEMMA EnqueueKeeps ==
  ASSUME NEW items, items \subseteq Item, items \cap drain.batch = {},
         TypeOK, InFlightUntouched, Enqueue(items), UNCHANGED drain
  PROVE  /\ DOMAIN attempts' = DOMAIN attempts \cup items
         /\ attempts' \in [DOMAIN attempts' -> 0 .. MaxAttempts]
         /\ due' \subseteq Pending'
         /\ older' \subseteq due' \X due'
         /\ InFlightUntouched'
<1> USE QueueConstants
<1>1. /\ attempts' = [i \in DOMAIN attempts \cup items |->
                        IF i \in items THEN 0 ELSE attempts[i]]
      /\ due' = due \cup items
      /\ older' = OlderBut(items) \cup ((due \ items) \X items)
  BY DEF Enqueue
<1>2. DOMAIN attempts' = DOMAIN attempts \cup items
  BY <1>1
<1>3. attempts' \in [DOMAIN attempts' -> 0 .. MaxAttempts]
  BY <1>1, <1>2 DEF TypeOK
<1>4. due' \subseteq Pending'
  BY <1>1, <1>2 DEF TypeOK
<1>5. older' \subseteq due' \X due'
  BY <1>1 DEF TypeOK, OlderBut
<1>6. InFlightUntouched'
  BY <1>1, <1>2 DEF InFlightUntouched
<1> QED
  BY <1>2, <1>3, <1>4, <1>5, <1>6

\* Reserving a call to getAlarm respects the bound on calls.
LEMMA ScheduleKeeps ==
  ASSUME TypeOK, BeginSchedule, UNCHANGED setting
  PROVE  asking' \in 0 .. MaxCalls /\ asking' + setting' <= MaxCalls
BY QueueConstants DEF TypeOK, BeginSchedule

-----------------------------------------------------------------------------
(* Every step keeps the queue in order *)

\* No rows: what an empty table and an idle drain hold.
LEMMA NoRows ==
  /\ DOMAIN << >> = {}
  /\ \A S : << >> \in [{} -> S]
<1>1. DOMAIN << >> = {}
  OBVIOUS
<1>2. << >> = [i \in {} |-> 0]
  OBVIOUS
<1> QED
  BY <1>1, <1>2

\* A drain that is idle.
LEMMA IdleOK ==
  /\ Idle.phase = "idle" /\ Idle.batch = {} /\ Idle.read = << >>
  /\ Idle = [phase |-> Idle.phase, batch |-> Idle.batch, read |-> Idle.read]
  /\ Idle.read \in [Idle.batch -> 0 .. MaxAttempts]
BY NoRows

LEMMA NotIdle ==
  ASSUME NEW phase, NEW batch, NEW read, phase # "idle"
  PROVE  [phase |-> phase, batch |-> batch, read |-> read] # Idle
OBVIOUS

LEMMA KeptInit == Init => Kept
<1> SUFFICES ASSUME Init PROVE Kept
  OBVIOUS
<1>1. /\ attempts = << >> /\ due = {} /\ older = {}
      /\ alarm = FALSE /\ drain = Idle /\ asking = 0 /\ setting = 0
      /\ index = {} /\ everQueued = {} /\ crashes = 0
  BY DEF Init
<1>2. backend \in BOOLEAN
  BY QueueConstants DEF Init
<1>3. DOMAIN attempts = {} /\ attempts \in [DOMAIN attempts -> 0 .. MaxAttempts]
  BY <1>1, NoRows
<1>4. TypeOK
  <2> HIDE DEF Idle
  <2>1. /\ drain.phase = "idle" /\ drain.batch \subseteq Item
        /\ drain.read \in [drain.batch -> 0 .. MaxAttempts]
        /\ drain = [phase |-> drain.phase, batch |-> drain.batch, read |-> drain.read]
    BY <1>1, IdleOK
  <2>2. /\ asking \in 0 .. MaxCalls /\ setting \in 0 .. MaxCalls
        /\ asking + setting <= MaxCalls /\ crashes \in 0 .. MaxCrashes
    <3>1. asking = 0 /\ setting = 0 /\ crashes = 0
      BY <1>1
    <3> QED
      BY <3>1, QueueConstants
  <2>3. alarm \in BOOLEAN
    BY <1>1, Zenon
  <2> QED
    BY <1>1, <1>2, <1>3, <2>1, <2>2, <2>3 DEF TypeOK
<1> QED
  BY <1>1, <1>3, <1>4 DEF Kept, QueueInv, InFlightUntouched, NothingLost

LEMMA WriteKeeps ==
  ASSUME Kept, NEW items \in SUBSET Item, Write(items)
  PROVE  Kept'
<1>1. /\ items \cap everQueued = {}
      /\ Enqueue(items) /\ BeginSchedule
      /\ everQueued' = everQueued \cup items
      /\ UNCHANGED <<alarm, drain, setting, backend, index, crashes>>
  BY DEF Write
<1>2. items \cap drain.batch = {}
  BY <1>1 DEF Kept, QueueInv, InFlightUntouched
<1>3. /\ DOMAIN attempts' = DOMAIN attempts \cup items
      /\ attempts' \in [DOMAIN attempts' -> 0 .. MaxAttempts]
      /\ due' \subseteq Pending'
      /\ older' \subseteq due' \X due'
      /\ InFlightUntouched'
  BY <1>1, <1>2, EnqueueKeeps DEF Kept, QueueInv
<1>4. TypeOK'
  BY <1>1, <1>3, ScheduleKeeps DEF Kept, QueueInv, TypeOK
<1> QED
  BY <1>1, <1>3, <1>4 DEF Kept, QueueInv, NothingLost

LEMMA ReindexKeeps ==
  ASSUME Kept, ReindexFailed
  PROVE  Kept'
<1>1. /\ Enqueue(Failed) /\ BeginSchedule
      /\ UNCHANGED <<alarm, drain, setting, backend, index, everQueued, crashes>>
  BY DEF ReindexFailed
<1>2. Failed \subseteq DOMAIN attempts /\ Failed \subseteq Item
  BY DEF Kept, QueueInv, TypeOK
<1>3. Failed \cap drain.batch = {}
  BY QueueConstants DEF Kept, QueueInv, TypeOK, InFlightUntouched
<1>4. /\ DOMAIN attempts' = DOMAIN attempts \cup Failed
      /\ attempts' \in [DOMAIN attempts' -> 0 .. MaxAttempts]
      /\ due' \subseteq Pending'
      /\ older' \subseteq due' \X due'
      /\ InFlightUntouched'
  BY <1>1, <1>2, <1>3, EnqueueKeeps DEF Kept, QueueInv
<1>5. TypeOK'
  BY <1>1, <1>2, <1>4, ScheduleKeeps DEF Kept, QueueInv, TypeOK
<1> QED
  BY <1>1, <1>2, <1>4, <1>5 DEF Kept, QueueInv, NothingLost

LEMMA CallsKeep ==
  ASSUME Kept, GotAlarm \/ SetAlarm
  PROVE  Kept'
<1> USE QueueConstants DEF Kept, QueueInv, TypeOK, InFlightUntouched, NothingLost, rows
<1>1. CASE GotAlarm
  BY <1>1, SMTT(30) DEF GotAlarm
<1>2. CASE SetAlarm
  BY <1>2, SMTT(30) DEF SetAlarm
<1> QED
  BY <1>1, <1>2

LEMMA DueKeeps ==
  ASSUME Kept, NEW i \in Item, BecomeDue(i)
  PROVE  Kept'
<1>1. /\ i \in Pending
      /\ due' = due \cup {i}
      /\ older' = older \cup (due \X {i})
      /\ UNCHANGED <<attempts, alarm, drain, asking, setting, backend, index,
                     everQueued, crashes>>
  BY DEF BecomeDue, Waiting
<1> QED
  BY <1>1 DEF Kept, QueueInv, TypeOK, InFlightUntouched, NothingLost

\* drain reads rows that may be tried, with the attempts they have.
LEMMA ReadKeeps ==
  ASSUME Kept, AlarmReadsBatch
  PROVE  Kept'
<1>1. PICK K \in DueItems :
        drain' = [phase |-> "embedding", batch |-> K, read |-> [i \in K |-> attempts[i]]]
  BY DEF AlarmReadsBatch
<1>2. UNCHANGED <<attempts, due, older, asking, setting, backend, index, everQueued, crashes>>
      /\ alarm' = FALSE
  BY DEF AlarmReadsBatch, rows
<1>3. K \subseteq due /\ K \subseteq Pending /\ K \subseteq Item
  BY DEF DueItems, Kept, QueueInv, TypeOK
<1>4. drain'.phase = "embedding" /\ drain'.batch = K
      /\ drain'.read = [i \in K |-> attempts[i]]
  BY <1>1
<1>5. TypeOK'
  BY <1>1, <1>2, <1>3, <1>4 DEF Kept, QueueInv, TypeOK
<1>6. InFlightUntouched'
  BY <1>2, <1>3, <1>4 DEF InFlightUntouched
<1> QED
  BY <1>2, <1>4, <1>5, <1>6 DEF Kept, QueueInv, NothingLost

LEMMA AnswersKeep ==
  ASSUME Kept, AlarmFindsNothing \/ Embedded \/ UpsertLands
  PROVE  Kept'
<1> USE DEF Kept, QueueInv, InFlightUntouched, NothingLost, rows
<1>1. CASE AlarmFindsNothing
  BY <1>1 DEF AlarmFindsNothing, TypeOK
<1>2. CASE Embedded
  <2>1. drain'.phase = "upserting" /\ drain'.batch = drain.batch /\ drain'.read = drain.read
        /\ drain' = [phase |-> "upserting", batch |-> drain.batch, read |-> drain.read]
    BY <1>2 DEF Embedded, TypeOK
  <2> QED
    BY <1>2, <2>1 DEF Embedded, TypeOK
<1>3. CASE UpsertLands
  <2>1. drain'.phase = "upserted" /\ drain'.batch = drain.batch /\ drain'.read = drain.read
        /\ drain' = [phase |-> "upserted", batch |-> drain.batch, read |-> drain.read]
    BY <1>3 DEF UpsertLands, TypeOK
  <2> QED
    BY <1>3, <2>1 DEF UpsertLands, TypeOK
<1> QED
  BY <1>1, <1>2, <1>3

\* markDone deletes rows whose items the index has.
LEMMA DoneKeeps ==
  ASSUME Kept, MarkDone
  PROVE  Kept'
<1>1. /\ drain.phase = "upserted"
      /\ attempts' = [i \in DOMAIN attempts \ drain.batch |-> attempts[i]]
      /\ due' = due \ drain.batch
      /\ older' = OlderBut(drain.batch)
      /\ drain' = Idle
      /\ alarm' = (alarm \/ Pending' # {})
      /\ UNCHANGED <<asking, setting, backend, index, everQueued, crashes>>
  BY DEF MarkDone, EndAlarm
<1>2. DOMAIN attempts' = DOMAIN attempts \ drain.batch
  BY <1>1
<1>3. due' \subseteq Pending' /\ older' \subseteq due' \X due'
  BY <1>1, <1>2 DEF Kept, QueueInv, TypeOK, OlderBut
<1>4. TypeOK'
  BY <1>1, <1>2, <1>3 DEF Kept, QueueInv, TypeOK
<1> QED
  BY <1>1, <1>2, <1>4 DEF Kept, QueueInv, InFlightUntouched, NothingLost

\* markFailed writes back what it read, plus one: the row had not given up.
LEMMA FailedKeeps ==
  ASSUME Kept, MarkFailed
  PROVE  Kept'
<1>1. /\ attempts' = [i \in DOMAIN attempts |->
                        IF i \in drain.batch THEN drain.read[i] + 1 ELSE attempts[i]]
      /\ due' = due \ drain.batch
      /\ older' = OlderBut(drain.batch)
      /\ drain' = Idle
      /\ alarm' = (alarm \/ Pending' # {})
      /\ UNCHANGED <<asking, setting, backend, index, everQueued, crashes>>
  BY DEF MarkFailed, EndAlarm
<1>2. DOMAIN attempts' = DOMAIN attempts
  BY <1>1
<1>3. \A i \in drain.batch : /\ i \in DOMAIN attempts
                             /\ drain.read[i] + 1 \in 0 .. MaxAttempts
  BY QueueConstants DEF Kept, QueueInv, TypeOK, InFlightUntouched
<1>4. attempts' \in [DOMAIN attempts' -> 0 .. MaxAttempts]
  BY <1>1, <1>2, <1>3 DEF Kept, QueueInv, TypeOK
<1>5. due' \subseteq Pending' /\ older' \subseteq due' \X due'
  BY <1>1, <1>2 DEF Kept, QueueInv, TypeOK, OlderBut
<1>6. TypeOK'
  BY <1>1, <1>2, <1>4, <1>5 DEF Kept, QueueInv, TypeOK
<1> QED
  BY <1>1, <1>2, <1>6 DEF Kept, QueueInv, InFlightUntouched, NothingLost

\* A restart forgets the batch and leaves its rows in the table.
LEMMA CrashKeeps ==
  ASSUME Kept, Crash
  PROVE  Kept'
<1>1. /\ crashes' \in 0 .. MaxCrashes
      /\ drain' = Idle
      /\ asking' = 0 /\ setting' = 0
      /\ UNCHANGED <<attempts, due, older, index, everQueued>>
  BY QueueConstants DEF Crash, Kept, QueueInv, TypeOK, rows
<1>2. alarm' \in BOOLEAN /\ backend' \in BOOLEAN
  BY DEF Crash, Kept, QueueInv, TypeOK
<1>3. TypeOK'
  <2> HIDE DEF Idle
  <2> QED
    BY <1>1, <1>2, IdleOK, QueueConstants, SMTT(30) DEF Kept, QueueInv, TypeOK
<1> QED
  BY <1>1, <1>3 DEF Kept, QueueInv, InFlightUntouched, NothingLost

LEMMA KeptStep == Kept /\ [Next]_vars => Kept'
<1> SUFFICES ASSUME Kept, [Next]_vars PROVE Kept'
  OBVIOUS
<1>1. CASE Writes
  BY <1>1, WriteKeeps DEF Writes
<1>2. CASE ReindexFailed
  BY <1>2, ReindexKeeps
<1>3. CASE GotAlarm \/ SetAlarm
  BY <1>3, CallsKeep
<1>4. CASE \E i \in Item : BecomeDue(i)
  BY <1>4, DueKeeps
<1>5. CASE AlarmReadsBatch
  BY <1>5, ReadKeeps
<1>6. CASE AlarmFindsNothing \/ Embedded \/ UpsertLands
  BY <1>6, AnswersKeep
<1>7. CASE MarkDone
  BY <1>7, DoneKeeps
<1>8. CASE MarkFailed
  BY <1>8, FailedKeeps
<1>9. CASE Crash
  BY <1>9, CrashKeeps
<1>10. CASE UNCHANGED vars
  BY <1>10 DEF vars, rows, Kept, QueueInv, TypeOK, InFlightUntouched, NothingLost
<1> QED
  BY <1>1, <1>2, <1>3, <1>4, <1>5, <1>6, <1>7, <1>8, <1>9, <1>10 DEF Next

LEMMA AlwaysKept == Spec => []Kept
BY KeptInit, KeptStep, PTL DEF Spec

-----------------------------------------------------------------------------
(* The theorems *)

\* The queue's table, its due rows and the batch that is away always agree.
THEOREM QueueInOrder == Spec => []QueueInv
<1>1. Kept => QueueInv
  BY DEF Kept
<1> QED
  BY <1>1, AlwaysKept, PTL

\* Nothing that was queued is ever lost.  (ClientMemory.ts drain)
THEOREM QueueLosesNothing == Spec => []NothingLost
<1>1. Kept => NothingLost
  BY DEF Kept
<1> QED
  BY <1>1, AlwaysKept, PTL

\* The rows of a batch are never touched while it is away.
\* (ClientMemory.ts drain, reindexFailed)
THEOREM BatchLeftAlone == Spec => []InFlightUntouched
<1>1. Kept => InFlightUntouched
  BY DEF Kept
<1> QED
  BY <1>1, AlwaysKept, PTL

\* Until a restart, waiting work has an alarm to come.
\* (ClientMemory.ts scheduleDrain, alarm)
THEOREM AlarmAlwaysCovers == Spec => []AlarmCoversQueue
<1> DEFINE I == TypeOK /\ AlarmCoversQueue
<1>1. Init => AlarmCoversQueue
  BY DEF Init, AlarmCoversQueue
<1>2. ASSUME TypeOK, AlarmCoversQueue, [Next]_vars
      PROVE  AlarmCoversQueue'
  <2> SUFFICES ASSUME crashes' = 0, backend', Pending' # {}
               PROVE  alarm' \/ drain' # Idle \/ asking' + setting' > 0
    BY DEF AlarmCoversQueue
  <2> USE <1>2, QueueConstants DEF TypeOK
  <2>1. CASE Writes \/ ReindexFailed
    <3>1. backend = backend' /\ BeginSchedule /\ setting' = setting
      BY <2>1 DEF Writes, Write, ReindexFailed
    <3> QED
      BY <3>1 DEF BeginSchedule
  <2>2. CASE GotAlarm
    BY <2>2 DEF GotAlarm, AlarmCoversQueue, rows
  <2>3. CASE SetAlarm
    BY <2>3 DEF SetAlarm
  <2>4. CASE \E i \in Item : BecomeDue(i)
    BY <2>4 DEF BecomeDue, AlarmCoversQueue
  <2>5. CASE AlarmFindsNothing
    BY <2>5 DEF AlarmFindsNothing, rows
  <2>6. CASE AlarmReadsBatch
    <3>1. PICK K \in DueItems :
            drain' = [phase |-> "embedding", batch |-> K, read |-> [i \in K |-> attempts[i]]]
      BY <2>6 DEF AlarmReadsBatch
    <3> QED
      BY <3>1, NotIdle
  <2>7. CASE Embedded \/ UpsertLands
    <3>1. drain'.phase \in {"upserting", "upserted"}
      BY <2>7 DEF Embedded, UpsertLands
    <3> QED
      BY <3>1
  <2>8. CASE MarkDone \/ MarkFailed
    BY <2>8 DEF MarkDone, MarkFailed, EndAlarm
  <2>9. CASE Crash
    BY <2>9 DEF Crash
  <2>10. CASE UNCHANGED vars
    BY <2>10 DEF vars, rows, AlarmCoversQueue
  <2> QED
    BY <2>1, <2>2, <2>3, <2>4, <2>5, <2>6, <2>7, <2>8, <2>9, <2>10 DEF Next
<1>3. Kept => TypeOK
  BY DEF Kept, QueueInv
<1> QED
  BY <1>1, <1>2, <1>3, AlwaysKept, PTL DEF Spec
=============================================================================
