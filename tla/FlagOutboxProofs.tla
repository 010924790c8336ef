-------------------------- MODULE FlagOutboxProofs --------------------------
(***************************************************************************)
(* FlagOutbox for every folder size, chunk size, number of handlers, retry *)
(* budget and bound: the type invariant, PendingWins and                   *)
(* UnracedChangeNotLost.  IInv is the inductive invariant; each part says  *)
(* what one phase of the sync task may rely on about the data it read      *)
(* earlier, and which history sets excuse it.                              *)
(***************************************************************************)
EXTENDS FlagOutbox, TLAPS

InFlight == IF pc = "record" THEN todo \cup {cur} ELSE todo

\* Ids of live rows are assigned and unique; NoRow is the only row with id 0.
OutboxIds ==
    /\ \A k \in Key : outbox[k].id < nextId
    /\ \A k \in Key : outbox[k].id = 0 => outbox[k] = NoRow
    /\ \A k, l \in Key : HasRow(k) /\ HasRow(l) /\ outbox[k].id = outbox[l].id => k = l

\* What the locals of the task are in each phase.
TaskShape ==
    /\ pc = "record" => cur \in OpsOver(Key)
    /\ pc # "record" => cur = NoOp /\ accepted = FALSE
    /\ pc \notin {"push", "record"} => todo = {}

\* Every row of the flush's snapshot is still in the outbox under its id, once.
OpsMatchRows ==
    /\ \A op \in InFlight : HasRow(op.key) /\ outbox[op.key].id = op.id
    /\ \A op1, op2 \in InFlight : op1.key = op2.key => op1 = op2
    /\ pc = "record" => \A op \in todo : op.key # cur.key

\* A key whose handler is between its two statements counts as raced.
HandlersRace == \A r \in Req : req[r].keys \subseteq raced

\* The value a flush pushes is the value the outbox holds, and an accepted one is
\* on the server.
FlushValues ==
    /\ \A op \in InFlight : op.key \notin raced => op.value = outbox[op.key].value
    /\ pc = "record" /\ accepted /\ cur.key \notin released => server[cur.key] = cur.value

\* The reconciliation's snapshots cover what they must not overwrite.
ReconcileValues ==
    /\ pc \in {"fetch", "stored", "apply"} =>
        /\ \A k \in pending : HasRow(k)
        /\ \A k \in Key : k[1] \in start .. LastUid /\ k \notin raced /\ HasRow(k) => k \in pending
    /\ pc \in {"stored", "apply"} =>
        \A k \in Key : InChunk(k) /\ k \notin released => seenFlags[k] = server[k]
    /\ pc = "apply" =>
        \A k \in Key : InChunk(k) /\ k \in pending /\ k \notin raced => stored[k] = local[k]

ImportValues ==
    pc = "upsert" => \A k \in Key : k[1] > LastUid /\ k \notin released => seenFlags[k] = server[k]

IInv ==
    /\ TypeOK /\ OutboxIds /\ TaskShape /\ OpsMatchRows /\ HandlersRace
    /\ FlushValues /\ ReconcileValues /\ ImportValues
    /\ PendingWins /\ UnracedChangeNotLost

-----------------------------------------------------------------------------
\* A key is a uid of the folder and a flag column.
LEMMA KeyType == \A k \in Key : k[1] \in Uid /\ k[2] \in Flag
BY DEF Key

\* A handler's UPDATE of message rows (mark_read, toggle_flag, bulk_action).
LEMMA WriteRowsStep ==
    ASSUME IInv, NEW r \in Req, NEW K \in SUBSET Key, NEW v \in BOOLEAN, WriteRows(r, K, v)
    PROVE  IInv'
<1>1. TypeOK'
    BY ConstantAssumption, KeyType DEF WriteRows, TypeOK, OpsOver, NoRow, NoOp, Idle, Blank,
       Uid, MidImport, IInv, task, bounds
<1>2. OutboxIds' /\ TaskShape' /\ OpsMatchRows' /\ HandlersRace'
    BY ConstantAssumption, KeyType DEF WriteRows, OutboxIds, TypeOK, HasRow, NoRow, Idle,
       MidImport, Blank, IInv, task, bounds, TaskShape, NoOp, OpsOver, OpsMatchRows, InFlight,
       HandlersRace
<1>3. FlushValues' /\ ReconcileValues' /\ ImportValues'
    BY ConstantAssumption, KeyType DEF WriteRows, FlushValues, TypeOK, InFlight, TaskShape,
       OpsMatchRows, HandlersRace, OpsOver, HasRow, Idle, MidImport, Blank, IInv, task, bounds,
       ReconcileValues, InChunk, ChunkEnd, Uid, ImportValues
<1>4. PendingWins' /\ UnracedChangeNotLost'
    BY ConstantAssumption, KeyType DEF WriteRows, PendingWins, TypeOK, HasRow, MidImport,
       HandlersRace, Idle, Blank, IInv, task, bounds, UnracedChangeNotLost
<1>. QED  BY <1>1, <1>2, <1>3, <1>4 DEF IInv

\* What is left of a handler's work once one key is done.
LEMMA HandledType ==
    ASSUME TypeOK, NEW r \in Req, NEW k \in Key
    PROVE  /\ Handled(r, k) \in [Req -> [keys : SUBSET Key, value : BOOLEAN]]
           /\ \A q \in Req : Handled(r, k)[q].keys \subseteq req[q].keys
           /\ k \notin Handled(r, k)[r].keys
           /\ \A q \in Req \ {r} : Handled(r, k)[q] = req[q]
BY DEF TypeOK, Handled, Idle

\* A handler's upsert into the outbox: the step that clears a race or leaves it.
LEMMA EnqueueFlagOpStep ==
    ASSUME IInv, NEW r \in Req, NEW k \in Key, EnqueueFlagOp(r, k)
    PROVE  IInv'
<1>1. TypeOK'
  <2>1. req' \in [Req -> [keys : SUBSET Key, value : BOOLEAN]]
    BY HandledType DEF IInv, EnqueueFlagOp
  <2>2. req[r].value \in BOOLEAN
    BY DEF IInv, TypeOK
  <2>3. outbox' \in [Key -> [id : Nat, value : BOOLEAN, attempts : 0 .. MaxAttempts - 1]]
    BY <2>2, ConstantAssumption DEF IInv, TypeOK, EnqueueFlagOp, Upserted
  <2>4. raced' \in SUBSET Key /\ nextId' \in Nat \ {0}
    BY DEF IInv, TypeOK, EnqueueFlagOp
  <2>5. flushQueued' \in BOOLEAN
    BY Zenon DEF IInv, TypeOK, EnqueueFlagOp
  <2>. QED  BY <2>1, <2>3, <2>4, <2>5 DEF IInv, TypeOK, EnqueueFlagOp, task, bounds
<1>2. TaskShape' /\ OpsMatchRows'
    BY ConstantAssumption, KeyType DEF EnqueueFlagOp, Upserted, StaleDataInFlight, Handled,
       TaskShape, TypeOK, NoOp, OpsOver, IInv, task, bounds, OpsMatchRows, InFlight, HasRow,
       OutboxIds, NoRow
<1>3. OutboxIds'
  <2>1. /\ outbox'[k].id = (IF HasRow(k) THEN outbox[k].id ELSE nextId)
        /\ outbox'[k].id # 0
        /\ \A l \in Key : l # k => outbox'[l] = outbox[l]
    BY DEF IInv, TypeOK, OutboxIds, EnqueueFlagOp, Upserted, HasRow
  <2>2. nextId' = (IF HasRow(k) THEN nextId ELSE nextId + 1)
    BY DEF EnqueueFlagOp
  <2>3. nextId \in Nat \ {0} /\ \A l \in Key : outbox[l].id \in Nat /\ outbox[l].id < nextId
    BY DEF IInv, TypeOK, OutboxIds
  <2>4. \A l \in Key : l # k /\ HasRow(l)' => HasRow(l) /\ outbox'[l].id # outbox'[k].id
    BY <2>1, <2>3 DEF IInv, OutboxIds, HasRow
  <2>5. \A l \in Key : outbox'[l].id < nextId'
    BY <2>1, <2>2, <2>3
  <2>6. \A l \in Key : outbox'[l].id = 0 => outbox'[l] = NoRow
    BY <2>1 DEF IInv, OutboxIds
  <2>7. \A l, m \in Key : HasRow(l)' /\ HasRow(m)' /\ outbox'[l].id = outbox'[m].id => l = m
    BY <2>1, <2>4 DEF IInv, OutboxIds, HasRow
  <2>. QED  BY <2>5, <2>6, <2>7 DEF OutboxIds, NoRow
<1>4. HandlersRace'
  <2>1. /\ \A q \in Req : req'[q].keys \subseteq req[q].keys
        /\ \A q \in Req : k \in req'[q].keys => q # r /\ k \in req[q].keys
    BY HandledType DEF IInv, EnqueueFlagOp
  <2>2. raced' = raced \/ (raced' = raced \ {k} /\ \A q \in Req \ {r} : k \notin req[q].keys)
    BY DEF EnqueueFlagOp
  <2>. QED  BY <2>1, <2>2 DEF IInv, HandlersRace
<1>5. FlushValues' /\ ImportValues'
    BY ConstantAssumption, KeyType DEF EnqueueFlagOp, Upserted, StaleDataInFlight, Handled,
       FlushValues, TypeOK, InFlight, TaskShape, OpsMatchRows, HandlersRace, OpsOver, HasRow, IInv,
       task, bounds, ImportValues
<1>6. ReconcileValues'
  <2>1. /\ HasRow(k)'
        /\ \A l \in Key : l # k => outbox'[l] = outbox[l]
    BY DEF IInv, TypeOK, OutboxIds, EnqueueFlagOp, Upserted, HasRow, NoRow
  <2>2. k \notin raced' => k \notin raced \/ (local[k] = req[r].value /\ ~StaleDataInFlight(k, req[r].value))
    BY DEF EnqueueFlagOp
  <2>3. k \in raced
    BY DEF IInv, HandlersRace, EnqueueFlagOp
  <2>4. \A l \in Key : l # k /\ l \notin raced' => l \notin raced
    BY DEF EnqueueFlagOp
  <2>5. ASSUME pc \in {"fetch", "stored", "apply"}
        PROVE  /\ \A l \in pending : HasRow(l)'
               /\ \A l \in Key : l[1] \in start .. LastUid /\ l \notin raced' /\ HasRow(l)' => l \in pending
    BY <2>1, <2>2, <2>3, <2>4, <2>5 DEF IInv, TypeOK, ReconcileValues, StaleDataInFlight, HasRow
  <2>6. ASSUME pc = "apply", NEW l \in Key, InChunk(l), l \in pending, l \notin raced'
        PROVE  stored[l] = local[l]
    <3>1. l[1] \in start .. LastUid
      BY <2>6, ConstantAssumption, KeyType DEF InChunk, ChunkEnd, IInv, TypeOK, Uid
    <3>. QED  BY <2>2, <2>3, <2>4, <2>6, <3>1 DEF IInv, ReconcileValues, StaleDataInFlight
  <2>. QED  BY <2>5, <2>6 DEF IInv, ReconcileValues, EnqueueFlagOp, task, InChunk, ChunkEnd
<1>7. PendingWins'
    BY ConstantAssumption, KeyType DEF EnqueueFlagOp, Upserted, StaleDataInFlight, Handled,
       PendingWins, TypeOK, HasRow, MidImport, HandlersRace, IInv, task, bounds
<1>8. UnracedChangeNotLost'
  <2>1. /\ HasRow(k)'
        /\ \A l \in Key : l # k => outbox'[l] = outbox[l]
    BY DEF IInv, TypeOK, OutboxIds, EnqueueFlagOp, Upserted, HasRow, NoRow
  <2>. QED  BY <2>1 DEF IInv, UnracedChangeNotLost, EnqueueFlagOp, HasRow
<1>. QED  BY <1>1, <1>2, <1>3, <1>4, <1>5, <1>6, <1>7, <1>8 DEF IInv

\* A failed upsert leaves the key raced.
LEMMA EnqueueFailsStep ==
    ASSUME IInv, NEW r \in Req, NEW k \in Key, EnqueueFails(r, k)
    PROVE  IInv'
<1>1. TypeOK'
  <2>1. req' \in [Req -> [keys : SUBSET Key, value : BOOLEAN]]
    BY HandledType DEF IInv, EnqueueFails
  <2>2. faults' \in 0 .. MaxFaults
    BY ConstantAssumption DEF IInv, TypeOK, EnqueueFails
  <2>3. flushQueued' \in BOOLEAN
    BY Zenon DEF IInv, TypeOK, EnqueueFails
  <2>. QED  BY <2>1, <2>2, <2>3 DEF IInv, TypeOK, EnqueueFails, task
<1>2. OutboxIds' /\ TaskShape' /\ OpsMatchRows'
    BY ConstantAssumption, KeyType DEF EnqueueFails, Handled, OutboxIds, TypeOK, HasRow, NoRow,
       IInv, task, bounds, TaskShape, NoOp, OpsOver, OpsMatchRows, InFlight
<1>3. HandlersRace'
    BY HandledType DEF IInv, HandlersRace, EnqueueFails
<1>4. FlushValues' /\ ReconcileValues' /\ ImportValues'
    BY ConstantAssumption, KeyType DEF EnqueueFails, Handled, FlushValues, TypeOK, InFlight,
       TaskShape, OpsMatchRows, HandlersRace, OpsOver, HasRow, IInv, task, bounds, ReconcileValues,
       InChunk, ChunkEnd, Uid, ImportValues
<1>5. PendingWins' /\ UnracedChangeNotLost'
    BY ConstantAssumption, KeyType DEF EnqueueFails, Handled, PendingWins, TypeOK, HasRow,
       MidImport, HandlersRace, IInv, task, bounds, UnracedChangeNotLost
<1>. QED  BY <1>1, <1>2, <1>3, <1>4, <1>5 DEF IInv

\* Another device's change releases the key.
LEMMA RemoteChangeStep ==
    ASSUME IInv, NEW k \in Key, RemoteChange(k)
    PROVE  IInv'
<1>1. TypeOK'
    BY ConstantAssumption, KeyType DEF RemoteChange, TypeOK, OpsOver, NoRow, NoOp, Idle, Blank,
       Uid, IInv, task, bounds
<1>2. OutboxIds' /\ TaskShape' /\ OpsMatchRows' /\ HandlersRace'
    BY ConstantAssumption, KeyType DEF RemoteChange, OutboxIds, TypeOK, HasRow, NoRow, IInv,
       task, bounds, TaskShape, NoOp, OpsOver, OpsMatchRows, InFlight, HandlersRace, Idle
<1>3. FlushValues' /\ ReconcileValues' /\ ImportValues'
    BY ConstantAssumption, KeyType DEF RemoteChange, FlushValues, TypeOK, InFlight, TaskShape,
       OpsMatchRows, HandlersRace, OpsOver, HasRow, IInv, task, bounds, ReconcileValues, InChunk,
       ChunkEnd, Uid, ImportValues
<1>4. PendingWins' /\ UnracedChangeNotLost'
    BY ConstantAssumption, KeyType DEF RemoteChange, PendingWins, TypeOK, HasRow, MidImport,
       HandlersRace, IInv, task, bounds, UnracedChangeNotLost
<1>. QED  BY <1>1, <1>2, <1>3, <1>4 DEF IInv

\* Receiving FlushFlags reads nothing yet.
LEMMA ReceiveFlushStep ==
    ASSUME IInv, ReceiveFlush
    PROVE  IInv'
<1>1. TypeOK'
    BY ConstantAssumption, KeyType DEF ReceiveFlush, TypeOK, OpsOver, NoRow, NoOp, Idle, Blank,
       Uid, IInv, task, bounds
<1>2. OutboxIds' /\ TaskShape' /\ OpsMatchRows' /\ HandlersRace'
    BY ConstantAssumption, KeyType DEF ReceiveFlush, OutboxIds, TypeOK, HasRow, NoRow, IInv,
       task, bounds, TaskShape, NoOp, OpsOver, OpsMatchRows, InFlight, HandlersRace, Idle
<1>3. FlushValues' /\ ReconcileValues' /\ ImportValues'
    BY ConstantAssumption, KeyType DEF ReceiveFlush, FlushValues, TypeOK, InFlight, TaskShape,
       OpsMatchRows, HandlersRace, OpsOver, HasRow, IInv, task, bounds, ReconcileValues, InChunk,
       ChunkEnd, Uid, ImportValues
<1>4. PendingWins' /\ UnracedChangeNotLost'
    BY ConstantAssumption, KeyType DEF ReceiveFlush, PendingWins, TypeOK, HasRow, MidImport,
       HandlersRace, IInv, task, bounds, UnracedChangeNotLost
<1>. QED  BY <1>1, <1>2, <1>3, <1>4 DEF IInv

\* Starting a cycle reads nothing yet.
LEMMA BeginCycleStep ==
    ASSUME IInv, BeginCycle
    PROVE  IInv'
<1>1. TypeOK'
    BY ConstantAssumption, KeyType DEF BeginCycle, TypeOK, OpsOver, NoRow, NoOp, Idle, Blank,
       Uid, IInv, task, bounds
<1>2. OutboxIds' /\ TaskShape' /\ OpsMatchRows' /\ HandlersRace'
    BY ConstantAssumption, KeyType DEF BeginCycle, OutboxIds, TypeOK, HasRow, NoRow, IInv, task,
       bounds, TaskShape, NoOp, OpsOver, OpsMatchRows, InFlight, HandlersRace, Idle
<1>3. FlushValues' /\ ReconcileValues' /\ ImportValues'
    BY ConstantAssumption, KeyType DEF BeginCycle, FlushValues, TypeOK, InFlight, TaskShape,
       OpsMatchRows, HandlersRace, OpsOver, HasRow, IInv, task, bounds, ReconcileValues, InChunk,
       ChunkEnd, Uid, ImportValues
<1>4. PendingWins' /\ UnracedChangeNotLost'
    BY ConstantAssumption, KeyType DEF BeginCycle, PendingWins, TypeOK, HasRow, MidImport,
       HandlersRace, IInv, task, bounds, UnracedChangeNotLost
<1>. QED  BY <1>1, <1>2, <1>3, <1>4 DEF IInv

\* The flush's snapshot matches the outbox row by row.
LEMMA SnapshotOpsStep ==
    ASSUME IInv, SnapshotOps
    PROVE  IInv'
<1>1. TypeOK'
  <2>1. PendingFlagOps \subseteq OpsOver(Key)
    BY DEF IInv, TypeOK, OutboxIds, PendingFlagOps, OpsOver, HasRow
  <2>. QED  BY <2>1 DEF IInv, TypeOK, SnapshotOps, bounds
<1>2. OutboxIds' /\ TaskShape' /\ OpsMatchRows' /\ HandlersRace'
    BY ConstantAssumption, KeyType DEF SnapshotOps, PendingFlagOps, OutboxIds, TypeOK, HasRow,
       NoRow, IInv, task, bounds, TaskShape, NoOp, OpsOver, OpsMatchRows, InFlight, HandlersRace,
       Idle
<1>3. FlushValues' /\ ReconcileValues' /\ ImportValues'
    BY ConstantAssumption, KeyType DEF SnapshotOps, PendingFlagOps, FlushValues, TypeOK,
       InFlight, TaskShape, OpsMatchRows, HandlersRace, OpsOver, HasRow, IInv, task, bounds,
       ReconcileValues, InChunk, ChunkEnd, Uid, ImportValues
<1>4. PendingWins' /\ UnracedChangeNotLost'
    BY ConstantAssumption, KeyType DEF SnapshotOps, PendingFlagOps, PendingWins, TypeOK, HasRow,
       MidImport, HandlersRace, IInv, task, bounds, UnracedChangeNotLost
<1>. QED  BY <1>1, <1>2, <1>3, <1>4 DEF IInv

\* A push writes only the server, under the row's own value.
LEMMA PushFlagStep ==
    ASSUME IInv, PushFlag
    PROVE  IInv'
<1>1. TypeOK'
    BY ConstantAssumption, KeyType DEF PushFlag, TypeOK, OpsOver, NoRow, NoOp, Idle, Blank, Uid,
       IInv, task, bounds
<1>2. OutboxIds' /\ TaskShape' /\ OpsMatchRows' /\ HandlersRace'
    BY ConstantAssumption, KeyType DEF PushFlag, OutboxIds, TypeOK, HasRow, NoRow, IInv, task,
       bounds, TaskShape, NoOp, OpsOver, OpsMatchRows, InFlight, HandlersRace, Idle
<1>3. FlushValues' /\ ReconcileValues' /\ ImportValues'
    BY ConstantAssumption, KeyType DEF PushFlag, FlushValues, TypeOK, InFlight, TaskShape,
       OpsMatchRows, HandlersRace, OpsOver, HasRow, IInv, task, bounds, ReconcileValues, InChunk,
       ChunkEnd, Uid, ImportValues
<1>4. PendingWins'
    BY ConstantAssumption, KeyType DEF PushFlag, PendingWins, TypeOK, HasRow, MidImport,
       HandlersRace, IInv, task, bounds
<1>5. UnracedChangeNotLost'
  <2>1. PICK op \in todo : server' = server \/ server' = [server EXCEPT ![op.key] = op.value]
    BY DEF PushFlag
  <2>2. op.key \in Key /\ HasRow(op.key)
    BY DEF PushFlag, IInv, TypeOK, OpsOver, OpsMatchRows, InFlight
  <2>. QED  BY <2>1, <2>2 DEF IInv, TypeOK, UnracedChangeNotLost, PushFlag, HasRow
<1>. QED  BY <1>1, <1>2, <1>3, <1>4, <1>5 DEF IInv

\* DELETE / UPDATE ... WHERE id = ? hits exactly the row that was pushed.
LEMMA RecordedRow ==
    ASSUME IInv, pc = "record"
    PROVE  /\ \A l \in Key : l # cur.key => Recorded[l] = outbox[l]
           /\ cur.key \in Key /\ HasRow(cur.key)
           /\ Recorded[cur.key] = (IF accepted \/ cur.attempts + 1 >= MaxAttempts THEN NoRow
                                   ELSE [outbox[cur.key] EXCEPT !.attempts = cur.attempts + 1])
<1>1. cur.key \in Key /\ HasRow(cur.key) /\ outbox[cur.key].id = cur.id
    BY DEF IInv, TaskShape, OpsMatchRows, InFlight, OpsOver
<1>2. \A l \in Key : l # cur.key /\ HasRow(l) => outbox[l].id # cur.id
    BY <1>1 DEF IInv, OutboxIds
<1>. QED  BY <1>1, <1>2 DEF Recorded

\* Recording an outcome removes or rewrites the pushed row and no other.
LEMMA RecordOutcomeStep ==
    ASSUME IInv, RecordOutcome
    PROVE  IInv'
<1>1. TypeOK'
  <2>1. /\ \A l \in Key : l # cur.key => outbox'[l] = outbox[l]
        /\ cur.key \in Key /\ HasRow(cur.key)
        /\ outbox'[cur.key] = (IF accepted \/ cur.attempts + 1 >= MaxAttempts THEN NoRow
                               ELSE [outbox[cur.key] EXCEPT !.attempts = cur.attempts + 1])
    BY RecordedRow DEF RecordOutcome, IInv
  <2>2. cur.attempts \in 0 .. MaxAttempts - 1
    BY DEF IInv, TaskShape, OpsOver, RecordOutcome
  <2>3. ~(cur.attempts + 1 >= MaxAttempts) => cur.attempts + 1 \in 0 .. MaxAttempts - 1
    BY <2>2, ConstantAssumption
  <2>4. outbox' \in [Key -> [id : Nat, value : BOOLEAN, attempts : 0 .. MaxAttempts - 1]]
    <3>1. outbox' = [l \in Key |-> outbox'[l]]
      BY DEF RecordOutcome, Recorded
    <3>2. NoRow \in [id : Nat, value : BOOLEAN, attempts : 0 .. MaxAttempts - 1]
      BY ConstantAssumption DEF NoRow
    <3>3. \A l \in Key : outbox'[l] \in [id : Nat, value : BOOLEAN, attempts : 0 .. MaxAttempts - 1]
      BY <2>1, <2>3, <3>2 DEF IInv, TypeOK
    <3>. QED  BY <3>1, <3>3
  <2>. QED  BY <2>4 DEF IInv, TypeOK, RecordOutcome, bounds
<1>2. TaskShape' /\ OpsMatchRows' /\ HandlersRace'
    BY ConstantAssumption, KeyType DEF RecordOutcome, Recorded, TaskShape, TypeOK, NoOp,
       OpsOver, IInv, task, bounds, OpsMatchRows, InFlight, HasRow, OutboxIds, NoRow, HandlersRace,
       Idle
<1>3. OutboxIds'
  <2>1. /\ \A l \in Key : l # cur.key => outbox'[l] = outbox[l]
        /\ cur.key \in Key /\ HasRow(cur.key)
        /\ outbox'[cur.key] = (IF accepted \/ cur.attempts + 1 >= MaxAttempts THEN NoRow
                               ELSE [outbox[cur.key] EXCEPT !.attempts = cur.attempts + 1])
    BY RecordedRow DEF RecordOutcome, IInv
  <2>2. outbox'[cur.key] = NoRow \/ (outbox'[cur.key].id = outbox[cur.key].id /\ outbox'[cur.key].id # 0)
    BY <2>1 DEF IInv, TypeOK, OutboxIds, HasRow
  <2>3. nextId' = nextId /\ nextId \in Nat \ {0}
    BY DEF RecordOutcome, IInv, TypeOK
  <2>4. \A l \in Key : HasRow(l)' => HasRow(l) /\ outbox'[l].id = outbox[l].id
    BY <2>1, <2>2 DEF HasRow, NoRow
  <2>5. \A l \in Key : outbox'[l].id < nextId'
    <3>1. outbox'[cur.key].id < nextId'
      BY <2>1, <2>2, <2>3 DEF IInv, OutboxIds, NoRow
    <3>. QED  BY <2>1, <2>3, <3>1 DEF IInv, OutboxIds
  <2>6. \A l \in Key : outbox'[l].id = 0 => outbox'[l] = NoRow
    BY <2>1, <2>2 DEF IInv, OutboxIds
  <2>. QED  BY <2>4, <2>5, <2>6 DEF IInv, OutboxIds, HasRow, NoRow
<1>4. ReconcileValues' /\ ImportValues'
    BY ConstantAssumption, KeyType DEF RecordOutcome, Recorded, ReconcileValues, TypeOK, HasRow,
       HandlersRace, InChunk, ChunkEnd, Uid, IInv, task, bounds, ImportValues
<1>5. FlushValues'
  <2>1. /\ \A l \in Key : l # cur.key => outbox'[l] = outbox[l]
        /\ cur.key \in Key /\ HasRow(cur.key)
        /\ outbox'[cur.key] = (IF accepted \/ cur.attempts + 1 >= MaxAttempts THEN NoRow
                               ELSE [outbox[cur.key] EXCEPT !.attempts = cur.attempts + 1])
    BY RecordedRow DEF RecordOutcome, IInv
  <2>2. \A op \in todo : op.key \in Key /\ op.key # cur.key
    BY DEF IInv, TypeOK, OpsOver, OpsMatchRows, RecordOutcome
  <2>. QED  BY <2>1, <2>2 DEF IInv, FlushValues, InFlight, RecordOutcome
<1>6. PendingWins'
    BY ConstantAssumption, KeyType DEF RecordOutcome, Recorded, PendingWins, TypeOK, HasRow,
       MidImport, HandlersRace, IInv, task, bounds
<1>7. UnracedChangeNotLost'
  <2>1. /\ \A l \in Key : l # cur.key => outbox'[l] = outbox[l]
        /\ cur.key \in Key /\ HasRow(cur.key)
        /\ outbox'[cur.key] = (IF accepted \/ cur.attempts + 1 >= MaxAttempts THEN NoRow
                               ELSE [outbox[cur.key] EXCEPT !.attempts = cur.attempts + 1])
    BY RecordedRow DEF RecordOutcome, IInv
  <2>2. SUFFICES ASSUME NEW l \in Key, l \notin raced \cup released', ~HasRow(l)'
                PROVE  server[l] = local[l]
    BY DEF UnracedChangeNotLost, RecordOutcome
  <2>3. released \subseteq released'
    BY DEF RecordOutcome
  <2>4. CASE l # cur.key
    BY <2>1, <2>2, <2>3, <2>4 DEF IInv, UnracedChangeNotLost, HasRow
  <2>5. CASE l = cur.key
    <3>1. accepted
      BY <2>1, <2>2, <2>5 DEF RecordOutcome, HasRow
    <3>2. server[l] = cur.value /\ cur.value = outbox[l].value
      BY <2>2, <2>3, <2>5, <3>1 DEF IInv, FlushValues, InFlight, RecordOutcome
    <3>3. local[l] = outbox[l].value
      BY <2>1, <2>2, <2>5 DEF IInv, PendingWins, MidImport, RecordOutcome
    <3>. QED  BY <3>2, <3>3
  <2>. QED  BY <2>4, <2>5
<1>. QED  BY <1>1, <1>2, <1>3, <1>4, <1>5, <1>6, <1>7 DEF IInv

\* An ignored statement failure leaves the row for the next flush.
LEMMA RecordFailsStep ==
    ASSUME IInv, RecordFails
    PROVE  IInv'
<1>1. TypeOK'
  <2>1. faults' \in 0 .. MaxFaults
    BY ConstantAssumption DEF IInv, TypeOK, RecordFails
  <2>. QED  BY <2>1 DEF IInv, TypeOK, RecordFails
<1>2. OutboxIds' /\ TaskShape' /\ OpsMatchRows' /\ HandlersRace'
    BY ConstantAssumption, KeyType DEF RecordFails, OutboxIds, TypeOK, HasRow, NoRow, IInv,
       task, bounds, TaskShape, NoOp, OpsOver, OpsMatchRows, InFlight, HandlersRace, Idle
<1>3. FlushValues' /\ ReconcileValues' /\ ImportValues'
    BY ConstantAssumption, KeyType DEF RecordFails, FlushValues, TypeOK, InFlight, TaskShape,
       OpsMatchRows, HandlersRace, OpsOver, HasRow, IInv, task, bounds, ReconcileValues, InChunk,
       ChunkEnd, Uid, ImportValues
<1>4. PendingWins' /\ UnracedChangeNotLost'
    BY ConstantAssumption, KeyType DEF RecordFails, PendingWins, TypeOK, HasRow, MidImport,
       HandlersRace, IInv, task, bounds, UnracedChangeNotLost
<1>. QED  BY <1>1, <1>2, <1>3, <1>4 DEF IInv

\* Leaving the flush changes no data.
LEMMA FlushDoneStep ==
    ASSUME IInv, FlushDone
    PROVE  IInv'
<1>1. TypeOK'
    BY ConstantAssumption, KeyType DEF FlushDone, TypeOK, OpsOver, NoRow, NoOp, Idle, Blank,
       Uid, IInv, task, bounds
<1>2. OutboxIds' /\ TaskShape' /\ OpsMatchRows' /\ HandlersRace'
    BY ConstantAssumption, KeyType DEF FlushDone, OutboxIds, TypeOK, HasRow, NoRow, IInv, task,
       bounds, TaskShape, NoOp, OpsOver, OpsMatchRows, InFlight, HandlersRace, Idle
<1>3. FlushValues' /\ ReconcileValues' /\ ImportValues'
    BY ConstantAssumption, KeyType DEF FlushDone, FlushValues, TypeOK, InFlight, TaskShape,
       OpsMatchRows, HandlersRace, OpsOver, HasRow, IInv, task, bounds, ReconcileValues, InChunk,
       ChunkEnd, Uid, ImportValues
<1>4. PendingWins' /\ UnracedChangeNotLost'
    BY ConstantAssumption, KeyType DEF FlushDone, PendingWins, TypeOK, HasRow, MidImport,
       HandlersRace, IInv, task, bounds, UnracedChangeNotLost
<1>. QED  BY <1>1, <1>2, <1>3, <1>4 DEF IInv

\* The snapshot of pending keys covers every outstanding row.
LEMMA ReadPendingStep ==
    ASSUME IInv, ReadPending
    PROVE  IInv'
<1>1. TypeOK'
    BY ConstantAssumption, KeyType DEF ReadPending, TypeOK, OpsOver, NoRow, NoOp, Idle, Blank,
       Uid, IInv, task, bounds
<1>2. OutboxIds' /\ TaskShape' /\ OpsMatchRows' /\ HandlersRace'
    BY ConstantAssumption, KeyType DEF ReadPending, OutboxIds, TypeOK, HasRow, NoRow, IInv,
       task, bounds, TaskShape, NoOp, OpsOver, OpsMatchRows, InFlight, HandlersRace, Idle
<1>3. FlushValues' /\ ReconcileValues' /\ ImportValues'
    BY ConstantAssumption, KeyType DEF ReadPending, FlushValues, TypeOK, InFlight, TaskShape,
       OpsMatchRows, HandlersRace, OpsOver, HasRow, IInv, task, bounds, ReconcileValues, InChunk,
       ChunkEnd, Uid, ImportValues
<1>4. PendingWins' /\ UnracedChangeNotLost'
    BY ConstantAssumption, KeyType DEF ReadPending, PendingWins, TypeOK, HasRow, MidImport,
       HandlersRace, IInv, task, bounds, UnracedChangeNotLost
<1>. QED  BY <1>1, <1>2, <1>3, <1>4 DEF IInv

\* An unreadable outbox protects nothing: every outstanding row is raced.
LEMMA ReadPendingFailsStep ==
    ASSUME IInv, ReadPendingFails
    PROVE  IInv'
<1>1. TypeOK'
    BY ConstantAssumption, KeyType DEF ReadPendingFails, TypeOK, OpsOver, NoRow, NoOp, Idle,
       Blank, Uid, IInv, task, bounds
<1>2. OutboxIds' /\ TaskShape' /\ OpsMatchRows' /\ HandlersRace'
    BY ConstantAssumption, KeyType DEF ReadPendingFails, OutboxIds, TypeOK, HasRow, NoRow, IInv,
       task, bounds, TaskShape, NoOp, OpsOver, OpsMatchRows, InFlight, HandlersRace, Idle
<1>3. FlushValues' /\ ReconcileValues' /\ ImportValues'
    BY ConstantAssumption, KeyType DEF ReadPendingFails, FlushValues, TypeOK, InFlight,
       TaskShape, OpsMatchRows, HandlersRace, OpsOver, HasRow, IInv, task, bounds, ReconcileValues,
       InChunk, ChunkEnd, Uid, ImportValues
<1>4. PendingWins' /\ UnracedChangeNotLost'
    BY ConstantAssumption, KeyType DEF ReadPendingFails, PendingWins, TypeOK, HasRow, MidImport,
       HandlersRace, IInv, task, bounds, UnracedChangeNotLost
<1>. QED  BY <1>1, <1>2, <1>3, <1>4 DEF IInv

\* The fetched flags are the server's until somebody else changes them.
LEMMA FetchFlagsStep ==
    ASSUME IInv, FetchFlags
    PROVE  IInv'
<1>1. TypeOK'
    BY ConstantAssumption, KeyType DEF FetchFlags, InChunk, ChunkEnd, TypeOK, OpsOver, NoRow,
       NoOp, Idle, Blank, Uid, IInv, task, bounds
<1>2. OutboxIds' /\ TaskShape' /\ OpsMatchRows' /\ HandlersRace'
    BY ConstantAssumption, KeyType DEF FetchFlags, InChunk, ChunkEnd, OutboxIds, TypeOK, HasRow,
       NoRow, IInv, task, bounds, TaskShape, NoOp, OpsOver, OpsMatchRows, InFlight, HandlersRace,
       Idle
<1>3. FlushValues' /\ ReconcileValues' /\ ImportValues'
    BY ConstantAssumption, KeyType DEF FetchFlags, InChunk, ChunkEnd, FlushValues, TypeOK,
       InFlight, TaskShape, OpsMatchRows, HandlersRace, OpsOver, HasRow, IInv, task, bounds,
       ReconcileValues, Uid, ImportValues
<1>4. PendingWins' /\ UnracedChangeNotLost'
    BY ConstantAssumption, KeyType DEF FetchFlags, InChunk, ChunkEnd, PendingWins, TypeOK,
       HasRow, MidImport, HandlersRace, IInv, task, bounds, UnracedChangeNotLost
<1>. QED  BY <1>1, <1>2, <1>3, <1>4 DEF IInv

\* The stored rows are current until a handler writes them.
LEMMA ReadStoredStep ==
    ASSUME IInv, ReadStored
    PROVE  IInv'
<1>1. TypeOK'
    BY ConstantAssumption, KeyType DEF ReadStored, InChunk, ChunkEnd, TypeOK, OpsOver, NoRow,
       NoOp, Idle, Blank, Uid, IInv, task, bounds
<1>2. OutboxIds' /\ TaskShape' /\ OpsMatchRows' /\ HandlersRace'
    BY ConstantAssumption, KeyType DEF ReadStored, InChunk, ChunkEnd, OutboxIds, TypeOK, HasRow,
       NoRow, IInv, task, bounds, TaskShape, NoOp, OpsOver, OpsMatchRows, InFlight, HandlersRace,
       Idle
<1>3. FlushValues' /\ ReconcileValues' /\ ImportValues'
    BY ConstantAssumption, KeyType DEF ReadStored, InChunk, ChunkEnd, FlushValues, TypeOK,
       InFlight, TaskShape, OpsMatchRows, HandlersRace, OpsOver, HasRow, IInv, task, bounds,
       ReconcileValues, Uid, ImportValues
<1>4. PendingWins' /\ UnracedChangeNotLost'
    BY ConstantAssumption, KeyType DEF ReadStored, InChunk, ChunkEnd, PendingWins, TypeOK,
       HasRow, MidImport, HandlersRace, IInv, task, bounds, UnracedChangeNotLost
<1>. QED  BY <1>1, <1>2, <1>3, <1>4 DEF IInv

\* The reconciliation's transaction keeps pending flags and copies the others.
LEMMA ApplyFlagsStep ==
    ASSUME IInv, ApplyFlags
    PROVE  IInv'
<1>1. TypeOK'
    BY ConstantAssumption, KeyType DEF ApplyFlags, Reconciled, Effective, ChunkEnd, InChunk,
       TypeOK, OpsOver, NoRow, NoOp, Idle, Blank, Uid, IInv, task, bounds
<1>2. OutboxIds' /\ TaskShape' /\ OpsMatchRows' /\ HandlersRace'
    BY ConstantAssumption, KeyType DEF ApplyFlags, Reconciled, Effective, ChunkEnd, InChunk,
       OutboxIds, TypeOK, HasRow, NoRow, IInv, task, bounds, TaskShape, NoOp, OpsOver,
       OpsMatchRows, InFlight, HandlersRace, Idle
<1>3. FlushValues' /\ ReconcileValues' /\ ImportValues'
    BY ConstantAssumption, KeyType DEF ApplyFlags, Reconciled, Effective, ChunkEnd, InChunk,
       FlushValues, TypeOK, InFlight, TaskShape, OpsMatchRows, HandlersRace, OpsOver, HasRow, IInv,
       task, bounds, ReconcileValues, Uid, ImportValues
<1>4. PendingWins'
  <2>1. SUFFICES ASSUME NEW k \in Key, HasRow(k), k \notin raced
                PROVE  local'[k] = outbox[k].value
    BY DEF PendingWins, HasRow, ApplyFlags
  <2>2. local[k] = outbox[k].value
    BY <2>1 DEF IInv, PendingWins, MidImport, ApplyFlags
  <2>3. InChunk(k) => k[1] \in start .. LastUid
    BY ConstantAssumption, KeyType DEF InChunk, ChunkEnd, IInv, TypeOK, Uid
  <2>4. InChunk(k) => Effective(k) = local[k]
    BY <2>1, <2>3 DEF IInv, ReconcileValues, Effective, ApplyFlags
  <2>. QED  BY <2>2, <2>4 DEF ApplyFlags, Reconciled
<1>5. UnracedChangeNotLost'
  <2>1. SUFFICES ASSUME NEW k \in Key, k \notin raced \cup released, ~HasRow(k)
                PROVE  server[k] = local'[k]
    BY DEF UnracedChangeNotLost, HasRow, ApplyFlags
  <2>2. server[k] = local[k]
    BY <2>1 DEF IInv, UnracedChangeNotLost
  <2>3. InChunk(k) => Effective(k) = server[k]
    BY <2>1 DEF IInv, ReconcileValues, Effective, ApplyFlags
  <2>. QED  BY <2>2, <2>3 DEF ApplyFlags, Reconciled
<1>. QED  BY <1>1, <1>2, <1>3, <1>4, <1>5 DEF IInv

\* Fetching a chunk again reads the server's flags.
LEMMA FetchChunkStep ==
    ASSUME IInv, FetchChunk
    PROVE  IInv'
<1>1. TypeOK'
    BY ConstantAssumption, KeyType DEF FetchChunk, TypeOK, OpsOver, NoRow, NoOp, Idle, Blank,
       Uid, IInv, task, bounds
<1>2. OutboxIds' /\ TaskShape' /\ OpsMatchRows' /\ HandlersRace'
    BY ConstantAssumption, KeyType DEF FetchChunk, OutboxIds, TypeOK, HasRow, NoRow, IInv, task,
       bounds, TaskShape, NoOp, OpsOver, OpsMatchRows, InFlight, HandlersRace, Idle
<1>3. FlushValues' /\ ReconcileValues' /\ ImportValues'
    BY ConstantAssumption, KeyType DEF FetchChunk, FlushValues, TypeOK, InFlight, TaskShape,
       OpsMatchRows, HandlersRace, OpsOver, HasRow, IInv, task, bounds, ReconcileValues, InChunk,
       ChunkEnd, Uid, ImportValues
<1>4. PendingWins' /\ UnracedChangeNotLost'
    BY ConstantAssumption, KeyType DEF FetchChunk, PendingWins, TypeOK, HasRow, MidImport,
       HandlersRace, IInv, task, bounds, UnracedChangeNotLost
<1>. QED  BY <1>1, <1>2, <1>3, <1>4 DEF IInv

\* The upsert of a chunk rewrites rows that wait to be restored.
LEMMA PersistMetadataStep ==
    ASSUME IInv, PersistMetadata
    PROVE  IInv'
<1>1. TypeOK'
    BY ConstantAssumption, KeyType DEF PersistMetadata, TypeOK, OpsOver, NoRow, NoOp, Idle,
       Blank, Uid, IInv, task, bounds
<1>2. OutboxIds' /\ TaskShape' /\ OpsMatchRows' /\ HandlersRace'
    BY ConstantAssumption, KeyType DEF PersistMetadata, OutboxIds, TypeOK, HasRow, NoRow, IInv,
       task, bounds, TaskShape, NoOp, OpsOver, OpsMatchRows, InFlight, HandlersRace, Idle
<1>3. FlushValues' /\ ReconcileValues' /\ ImportValues'
    BY ConstantAssumption, KeyType DEF PersistMetadata, FlushValues, TypeOK, InFlight,
       TaskShape, OpsMatchRows, HandlersRace, OpsOver, HasRow, IInv, task, bounds, ReconcileValues,
       InChunk, ChunkEnd, Uid, ImportValues
<1>4. PendingWins'
    BY ConstantAssumption, KeyType DEF PersistMetadata, PendingWins, TypeOK, HasRow, MidImport,
       HandlersRace, IInv, task, bounds
<1>5. UnracedChangeNotLost'
  <2>1. SUFFICES ASSUME NEW k \in Key, k \notin raced \cup released, ~HasRow(k)
                PROVE  server[k] = local'[k]
    BY DEF UnracedChangeNotLost, HasRow, PersistMetadata
  <2>2. server[k] = local[k]
    BY <2>1 DEF IInv, UnracedChangeNotLost
  <2>3. k[1] > LastUid => seenFlags[k] = server[k]
    BY <2>1 DEF IInv, ImportValues, PersistMetadata
  <2>. QED  BY <2>2, <2>3 DEF PersistMetadata
<1>. QED  BY <1>1, <1>2, <1>3, <1>4, <1>5 DEF IInv

\* RESTORE_SEEN puts pending read flags back.
LEMMA ReapplySeenStep ==
    ASSUME IInv, ReapplyPending("seen", "reapply_seen", "reapply_flagged")
    PROVE  IInv'
<1>1. TypeOK'
    BY ConstantAssumption, KeyType DEF ReapplyPending, Restored, TypeOK, OpsOver, NoRow, NoOp,
       Idle, Blank, Uid, IInv, task, bounds
<1>2. OutboxIds' /\ TaskShape' /\ OpsMatchRows' /\ HandlersRace'
    BY ConstantAssumption, KeyType DEF ReapplyPending, Restored, OutboxIds, TypeOK, HasRow,
       NoRow, IInv, task, bounds, TaskShape, NoOp, OpsOver, OpsMatchRows, InFlight, HandlersRace,
       Idle
<1>3. FlushValues' /\ ReconcileValues' /\ ImportValues'
    BY ConstantAssumption, KeyType DEF ReapplyPending, Restored, FlushValues, TypeOK, InFlight,
       TaskShape, OpsMatchRows, HandlersRace, OpsOver, HasRow, IInv, task, bounds, ReconcileValues,
       InChunk, ChunkEnd, Uid, ImportValues
<1>4. PendingWins' /\ UnracedChangeNotLost'
    BY ConstantAssumption, KeyType DEF ReapplyPending, Restored, PendingWins, TypeOK, HasRow,
       MidImport, HandlersRace, IInv, task, bounds, UnracedChangeNotLost
<1>. QED  BY <1>1, <1>2, <1>3, <1>4 DEF IInv

\* RESTORE_FLAGGED puts pending stars back.
LEMMA ReapplyFlaggedStep ==
    ASSUME IInv, ReapplyPending("flagged", "reapply_flagged", "idle")
    PROVE  IInv'
<1>1. TypeOK'
    BY ConstantAssumption, KeyType DEF ReapplyPending, Restored, TypeOK, OpsOver, NoRow, NoOp,
       Idle, Blank, Uid, IInv, task, bounds
<1>2. OutboxIds' /\ TaskShape' /\ OpsMatchRows' /\ HandlersRace'
    BY ConstantAssumption, KeyType DEF ReapplyPending, Restored, OutboxIds, TypeOK, HasRow,
       NoRow, IInv, task, bounds, TaskShape, NoOp, OpsOver, OpsMatchRows, InFlight, HandlersRace,
       Idle
<1>3. FlushValues' /\ ReconcileValues' /\ ImportValues'
    BY ConstantAssumption, KeyType DEF ReapplyPending, Restored, FlushValues, TypeOK, InFlight,
       TaskShape, OpsMatchRows, HandlersRace, OpsOver, HasRow, IInv, task, bounds, ReconcileValues,
       InChunk, ChunkEnd, Uid, ImportValues
<1>4. PendingWins' /\ UnracedChangeNotLost'
    BY ConstantAssumption, KeyType DEF ReapplyPending, Restored, PendingWins, TypeOK, HasRow,
       MidImport, HandlersRace, IInv, task, bounds, UnracedChangeNotLost
<1>. QED  BY <1>1, <1>2, <1>3, <1>4 DEF IInv

\* An interrupted cycle loses its locals and races the rows it had not restored.
LEMMA CycleInterruptedStep ==
    ASSUME IInv, CycleInterrupted
    PROVE  IInv'
<1>1. TypeOK'
  <2>1. MidImport \subseteq Key /\ Blank \in [Key -> BOOLEAN] /\ 1 \in 1 .. MaxUid
    BY ConstantAssumption DEF MidImport, Blank
  <2>2. faults' \in 0 .. MaxFaults
    BY ConstantAssumption DEF IInv, TypeOK, CycleInterrupted
  <2>. QED  BY <2>1, <2>2 DEF IInv, TypeOK, CycleInterrupted, TaskReset, Idle
<1>2. OutboxIds' /\ TaskShape' /\ OpsMatchRows' /\ HandlersRace'
    BY ConstantAssumption, KeyType DEF CycleInterrupted, TaskReset, OutboxIds, TypeOK, HasRow,
       NoRow, Idle, MidImport, Blank, IInv, task, bounds, TaskShape, NoOp, OpsOver, OpsMatchRows,
       InFlight, HandlersRace
<1>3. FlushValues' /\ ReconcileValues' /\ ImportValues'
    BY ConstantAssumption, KeyType DEF CycleInterrupted, TaskReset, FlushValues, TypeOK,
       InFlight, TaskShape, OpsMatchRows, HandlersRace, OpsOver, HasRow, Idle, MidImport, Blank,
       IInv, task, bounds, ReconcileValues, InChunk, ChunkEnd, Uid, ImportValues
<1>4. PendingWins' /\ UnracedChangeNotLost'
    BY ConstantAssumption, KeyType DEF CycleInterrupted, TaskReset, PendingWins, TypeOK, HasRow,
       MidImport, HandlersRace, Idle, Blank, IInv, task, bounds, UnracedChangeNotLost
<1>. QED  BY <1>1, <1>2, <1>3, <1>4 DEF IInv

\* A restart loses handlers and commands too; their keys are already raced.
LEMMA RestartStep ==
    ASSUME IInv, Restart
    PROVE  IInv'
<1>1. TypeOK'
  <2>1. MidImport \subseteq Key /\ Blank \in [Key -> BOOLEAN] /\ 1 \in 1 .. MaxUid
    BY ConstantAssumption DEF MidImport, Blank
  <2>2. faults' \in 0 .. MaxFaults
    BY ConstantAssumption DEF IInv, TypeOK, Restart
  <2>. QED  BY <2>1, <2>2 DEF IInv, TypeOK, Restart, TaskReset, Idle
<1>2. OutboxIds' /\ TaskShape' /\ OpsMatchRows' /\ HandlersRace'
    BY ConstantAssumption, KeyType DEF Restart, TaskReset, OutboxIds, TypeOK, HasRow, NoRow,
       Idle, MidImport, Blank, IInv, task, bounds, TaskShape, NoOp, OpsOver, OpsMatchRows,
       InFlight, HandlersRace
<1>3. FlushValues' /\ ReconcileValues' /\ ImportValues'
    BY ConstantAssumption, KeyType DEF Restart, TaskReset, FlushValues, TypeOK, InFlight,
       TaskShape, OpsMatchRows, HandlersRace, OpsOver, HasRow, Idle, MidImport, Blank, IInv, task,
       bounds, ReconcileValues, InChunk, ChunkEnd, Uid, ImportValues
<1>4. PendingWins' /\ UnracedChangeNotLost'
    BY ConstantAssumption, KeyType DEF Restart, TaskReset, PendingWins, TypeOK, HasRow,
       MidImport, HandlersRace, Idle, Blank, IInv, task, bounds, UnracedChangeNotLost
<1>. QED  BY <1>1, <1>2, <1>3, <1>4 DEF IInv

\* The initial states satisfy the invariant: nothing is pending, rows agree.
LEMMA InitIInv == Init => IInv
<1> SUFFICES ASSUME Init PROVE IInv
    OBVIOUS
<1>1. TypeOK
  <2>1. local \in [Key -> BOOLEAN] /\ server \in [Key -> BOOLEAN]
    BY DEF Init
  <2>2. Blank \in [Key -> BOOLEAN] /\ Idle \in [keys : SUBSET Key, value : BOOLEAN]
    BY DEF Blank, Idle
  <2>3. NoRow \in [id : Nat, value : BOOLEAN, attempts : 0 .. MaxAttempts - 1] /\ 1 \in 1 .. MaxUid
    BY ConstantAssumption DEF NoRow
  <2>4. 0 \in 0 .. MaxChanges /\ 0 \in 0 .. MaxRemote /\ 0 \in 0 .. MaxFaults
    BY ConstantAssumption
  <2>5. /\ outbox \in [Key -> [id : Nat, value : BOOLEAN, attempts : 0 .. MaxAttempts - 1]]
        /\ req \in [Req -> [keys : SUBSET Key, value : BOOLEAN]]
    BY <2>2, <2>3 DEF Init
  <2>6. seenFlags \in [Key -> BOOLEAN] /\ stored \in [Key -> BOOLEAN]
    BY <2>2, Zenon DEF Init
  <2>7. flushQueued \in BOOLEAN /\ inCycle \in BOOLEAN /\ accepted \in BOOLEAN
    BY Zenon DEF Init
  <2>8. nextId \in Nat \ {0} /\ pc = "idle" /\ todo = {} /\ cur = NoOp /\ pending = {}
    BY DEF Init
  <2>9. /\ start \in 1 .. MaxUid /\ raced = {} /\ released = {}
        /\ changes \in 0 .. MaxChanges /\ remotes \in 0 .. MaxRemote /\ faults \in 0 .. MaxFaults
    BY <2>3, <2>4 DEF Init
  <2>. QED  BY <2>1, <2>5, <2>6, <2>7, <2>8, <2>9 DEF TypeOK
<1>2. OutboxIds /\ TaskShape /\ OpsMatchRows /\ HandlersRace
    BY DEF Init, OutboxIds, TaskShape, OpsMatchRows, HandlersRace, InFlight, HasRow, NoRow, Idle
<1>3. FlushValues /\ ReconcileValues /\ ImportValues
    BY DEF Init, FlushValues, ReconcileValues, ImportValues, InFlight
<1>4. PendingWins /\ UnracedChangeNotLost
    BY DEF Init, PendingWins, UnracedChangeNotLost, HasRow
<1>. QED  BY <1>1, <1>2, <1>3, <1>4 DEF IInv

\* Steps that change nothing keep the invariant.
LEMMA StutterIInv == ASSUME IInv, UNCHANGED vars PROVE IInv'
<1>1. TypeOK' /\ OutboxIds' /\ TaskShape' /\ HandlersRace'
    BY DEF IInv, vars, task, bounds, TypeOK, OutboxIds, TaskShape, HandlersRace, HasRow
<1>2. OpsMatchRows' /\ FlushValues'
    BY DEF IInv, vars, task, OpsMatchRows, FlushValues, InFlight, HasRow
<1>3. ReconcileValues' /\ ImportValues'
    BY DEF IInv, vars, task, ReconcileValues, ImportValues, HasRow, InChunk, ChunkEnd
<1>4. PendingWins' /\ UnracedChangeNotLost'
    BY DEF IInv, vars, task, PendingWins, UnracedChangeNotLost, HasRow, MidImport
<1>. QED  BY <1>1, <1>2, <1>3, <1>4 DEF IInv

\* Every step of the next-state relation keeps the invariant.
LEMMA NextIInv == ASSUME IInv, [Next]_vars PROVE IInv'
<1>1. CASE \E r \in Req, k \in Key, v \in BOOLEAN : SetFlag(r, k, v)
    BY <1>1, WriteRowsStep DEF SetFlag
<1>2. CASE \E r \in Req, f \in Flag : BulkAction(r, f)
    <2>1. \A f \in Flag : Uid \X {f} \subseteq Key
      BY DEF Key
    <2>. QED  BY <1>2, <2>1, WriteRowsStep DEF BulkAction
<1>3. CASE Handler
    BY <1>3, EnqueueFlagOpStep, EnqueueFailsStep DEF Handler
<1>4. CASE \E k \in Key : RemoteChange(k)
    BY <1>4, RemoteChangeStep
<1>5. CASE ReceiveFlush \/ BeginCycle \/ FlushStep
    BY <1>5, ReceiveFlushStep, BeginCycleStep, SnapshotOpsStep, PushFlagStep,
       RecordOutcomeStep, RecordFailsStep, FlushDoneStep DEF FlushStep
<1>6. CASE FolderStep
    BY <1>6, ReadPendingStep, ReadPendingFailsStep, FetchFlagsStep, ReadStoredStep,
       ApplyFlagsStep, FetchChunkStep, PersistMetadataStep, ReapplySeenStep,
       ReapplyFlaggedStep DEF FolderStep
<1>7. CASE CycleInterrupted \/ Restart
    BY <1>7, CycleInterruptedStep, RestartStep
<1>8. CASE UNCHANGED vars
    BY <1>8, StutterIInv
<1>. QED  BY <1>1, <1>2, <1>3, <1>4, <1>5, <1>6, <1>7, <1>8 DEF Next

\* The inductive invariant holds in every reachable state.
THEOREM Invariance == Spec => []IInv
BY InitIInv, NextIInv, PTL DEF Spec

\* The type invariant, for every value of the constants: in particular no
\* outstanding row has spent its retry budget (flush_pending_flags).
THEOREM TypeCorrect == Spec => []TypeOK
<1>1. IInv => TypeOK
    BY DEF IInv
<1>. QED  BY <1>1, Invariance, PTL

\* An outstanding change that met no race is what the stored row shows, through
\* reconcile_flags and repeated imports.
THEOREM PendingProtected == Spec => []PendingWins
<1>1. IInv => PendingWins
    BY DEF IInv
<1>. QED  BY <1>1, Invariance, PTL

\* An unraced change is in the outbox or on the server, through any number of
\* failed pushes, interrupted cycles and restarts (flush_pending_flags).
THEOREM UnracedChangeKept == Spec => []UnracedChangeNotLost
<1>1. IInv => UnracedChangeNotLost
    BY DEF IInv
<1>. QED  BY <1>1, Invariance, PTL

-----------------------------------------------------------------------------
(* FlagOutbox implements OutboxIntent: what a step does to one flag.  What *)
(* is excused stays excused, but for an upsert that clears a race.         *)
KeyStep(k) ==
    \/ Phase(k)' = "open"
    \/ /\ Phase(k) = "open" /\ Phase(k)' = "waiting"
       /\ Wish(k)' \in BOOLEAN /\ server'[k] = server[k]
    \/ /\ Phase(k) = "waiting" /\ Phase(k)' = "waiting"
       /\ Wish(k)' = Wish(k) /\ server'[k] = Wish(k)
    \/ /\ Phase(k) = "waiting" /\ server[k] = Wish(k)
       /\ Phase(k)' = "done" /\ Wish(k)' = Wish(k) /\ server'[k] = server[k]
    \/ Phase(k)' = Phase(k) /\ Wish(k)' = Wish(k) /\ server'[k] = server[k]

\* A step that moves neither the value nor the row of a flag it does not excuse.
LEMMA KeyRests ==
    ASSUME NEW k \in Key,
           k \notin raced' \cup released'
             => /\ k \notin raced \cup released /\ server'[k] = server[k]
                /\ HasRow(k)' = HasRow(k) /\ Wish(k)' = Wish(k)
    PROVE  KeyStep(k)
BY DEF KeyStep, Phase

\* Most steps write no row and nothing on the server.
LEMMA NoWriteKeyStep ==
    ASSUME UNCHANGED <<local, outbox, server>>, raced \subseteq raced', released \subseteq released',
           NEW k \in Key
    PROVE  KeyStep(k)
BY KeyRests DEF HasRow, Wish

\* A handler's UPDATE opens the flags it writes.
LEMMA WriteRowsKeyStep ==
    ASSUME NEW r \in Req, NEW K \in SUBSET Key, NEW v \in BOOLEAN, WriteRows(r, K, v), NEW k \in Key
    PROVE  KeyStep(k)
<1>1. CASE k \in K BY <1>1 DEF WriteRows, KeyStep, Phase
<1>2. CASE k \notin K BY <1>2, KeyRests DEF WriteRows, HasRow, Wish
<1> QED BY <1>1, <1>2

\* The upsert accepts an open flag.
LEMMA EnqueueKeyStep ==
    ASSUME IInv, NEW r \in Req, NEW l \in Key, EnqueueFlagOp(r, l), NEW k \in Key
    PROVE  KeyStep(k)
<1>1. /\ HasRow(l)' /\ outbox'[l].value = req[r].value /\ req[r].value \in BOOLEAN
      /\ \A m \in Key : m # l => outbox'[m] = outbox[m]
  BY DEF IInv, TypeOK, OutboxIds, EnqueueFlagOp, Upserted, HasRow, NoRow
<1>2. UNCHANGED <<local, server, released>> /\ raced \ {l} \subseteq raced' BY DEF EnqueueFlagOp
<1>3. CASE k = l
  <2>1. Phase(k) = "open" BY <1>3 DEF IInv, HandlersRace, EnqueueFlagOp, Phase
  <2>2. Phase(k)' \in {"open", "waiting"} BY <1>1, <1>3 DEF Phase
  <2>3. Wish(k)' \in BOOLEAN BY <1>1, <1>3 DEF Wish
  <2> QED BY <1>2, <2>1, <2>2, <2>3 DEF KeyStep
<1>4. CASE k # l BY <1>1, <1>2, <1>4, KeyRests DEF HasRow, Wish
<1> QED BY <1>3, <1>4

\* A push delivers the value of the row, or nothing.
LEMMA PushKeyStep ==
    ASSUME IInv, PushFlag, NEW k \in Key
    PROVE  KeyStep(k)
<1>1. PICK op \in todo : server' = server \/ server' = [server EXCEPT ![op.key] = op.value]
  BY DEF PushFlag
<1>2. /\ op.key \in Key /\ HasRow(op.key) /\ (op.key \notin raced => op.value = outbox[op.key].value)
  BY DEF PushFlag, IInv, TypeOK, OpsOver, OpsMatchRows, FlushValues, InFlight
<1>3. UNCHANGED <<local, outbox, raced, released>> BY DEF PushFlag
<1>4. CASE server'[k] = server[k] BY <1>3, <1>4, KeyRests DEF HasRow, Wish
<1>5. CASE k = op.key /\ server'[k] = op.value
  BY <1>2, <1>3, <1>5 DEF KeyStep, Phase, Wish, HasRow
<1>6. server'[k] = server[k] \/ (k = op.key /\ server'[k] = op.value)
  BY <1>1, <1>2 DEF IInv, TypeOK
<1> QED BY <1>4, <1>5, <1>6

\* Recording confirms a flag whose value the server has, or gives it up.
LEMMA RecordKeyStep ==
    ASSUME IInv, RecordOutcome, NEW k \in Key
    PROVE  KeyStep(k)
<1>1. /\ pc = "record" /\ outbox' = Recorded /\ UNCHANGED <<local, server, raced>>
      /\ released' = IF accepted THEN released
                     ELSE released \cup {l \in Key : HasRow(l) /\ outbox'[l] = NoRow}
  BY DEF RecordOutcome
<1>2. /\ \A l \in Key : l # cur.key => outbox'[l] = outbox[l]
      /\ cur.key \in Key /\ HasRow(cur.key)
      /\ outbox'[cur.key] = (IF accepted \/ cur.attempts + 1 >= MaxAttempts THEN NoRow
                             ELSE [outbox[cur.key] EXCEPT !.attempts = cur.attempts + 1])
  BY <1>1, RecordedRow
<1>3. released \subseteq released' BY <1>1
<1>4. CASE k # cur.key BY <1>1, <1>2, <1>3, <1>4, KeyRests DEF HasRow, Wish
<1>5. CASE k = cur.key /\ HasRow(k)'
  <2>1. outbox'[k].value = outbox[k].value
    BY <1>2, <1>5 DEF HasRow, IInv, TypeOK
  <2> QED BY <1>1, <1>2, <1>3, <1>5, <2>1, KeyRests DEF Wish
<1>6. CASE k = cur.key /\ ~HasRow(k)'
  <2> SUFFICES ASSUME k \notin raced' \cup released' PROVE KeyStep(k) BY DEF KeyStep, Phase
  <2>1. accepted BY <1>1, <1>2, <1>6 DEF HasRow
  <2>2. server[k] = outbox[k].value BY <1>1, <1>2, <1>3, <1>6, <2>1 DEF IInv, FlushValues, InFlight
  <2>3. local[k] = outbox[k].value BY <1>1, <1>2, <1>6 DEF IInv, PendingWins, MidImport
  <2>4. Phase(k) = "waiting" /\ Phase(k)' = "done" /\ Wish(k) = outbox[k].value
        /\ Wish(k)' = local[k]
    BY <1>1, <1>2, <1>3, <1>6 DEF Phase, Wish
  <2> QED BY <1>1, <2>2, <2>3, <2>4 DEF KeyStep
<1> QED BY <1>4, <1>5, <1>6

\* Rows are rewritten with the server's flag, which a flag that is done has already.
LEMMA RewriteKeyStep ==
    ASSUME UNCHANGED <<outbox, server, raced, released>>, NEW k \in Key,
           k \notin raced \cup released /\ ~HasRow(k) => local'[k] = local[k]
    PROVE  KeyStep(k)
BY KeyRests DEF HasRow, Wish

LEMMA ApplyKeyStep ==
    ASSUME IInv, ApplyFlags, NEW k \in Key
    PROVE  KeyStep(k)
<1>1. UNCHANGED <<outbox, server, raced, released>> BY DEF ApplyFlags
<1> SUFFICES ASSUME k \notin raced \cup released, ~HasRow(k) PROVE local'[k] = local[k]
  BY <1>1, RewriteKeyStep
<1>2. server[k] = local[k] BY DEF IInv, UnracedChangeNotLost
<1>3. InChunk(k) => Effective(k) = server[k] BY DEF IInv, ReconcileValues, Effective, ApplyFlags
<1> QED BY <1>2, <1>3 DEF ApplyFlags, Reconciled

LEMMA PersistKeyStep ==
    ASSUME IInv, PersistMetadata, NEW k \in Key
    PROVE  KeyStep(k)
<1>1. UNCHANGED <<outbox, server, raced, released>> BY DEF PersistMetadata
<1> SUFFICES ASSUME k \notin raced \cup released, ~HasRow(k) PROVE local'[k] = local[k]
  BY <1>1, RewriteKeyStep
<1>2. server[k] = local[k] BY DEF IInv, UnracedChangeNotLost
<1>3. k[1] > LastUid => seenFlags[k] = server[k] BY DEF IInv, ImportValues, PersistMetadata
<1> QED BY <1>2, <1>3 DEF PersistMetadata

LEMMA ReapplyKeyStep ==
    ASSUME NEW f, NEW here, NEW next, ReapplyPending(f, here, next), NEW k \in Key
    PROVE  KeyStep(k)
<1>1. UNCHANGED <<outbox, server, raced, released>> BY DEF ReapplyPending
<1>2. ~HasRow(k) => local'[k] = local[k] BY DEF ReapplyPending, Restored
<1> QED BY <1>1, <1>2, RewriteKeyStep

\* Every step is a step of the intent for each flag.
LEMMA NextKeyStep == ASSUME IInv, [Next]_vars, NEW k \in Key PROVE KeyStep(k)
<1>1. CASE \E r \in Req, l \in Key, v \in BOOLEAN : SetFlag(r, l, v)
  <2>1. PICK r \in Req, l \in Key, v \in BOOLEAN : WriteRows(r, {l}, v) BY <1>1 DEF SetFlag
  <2> QED BY <2>1, WriteRowsKeyStep
<1>2. CASE \E r \in Req, f \in Flag : BulkAction(r, f)
  <2>1. PICK r \in Req, f \in Flag : WriteRows(r, Uid \X {f}, TRUE) BY <1>2 DEF BulkAction
  <2>2. Uid \X {f} \in SUBSET Key BY DEF Key
  <2> QED BY <2>1, <2>2, WriteRowsKeyStep
<1>3. CASE Handler
  <2>1. CASE \E r \in Req, l \in Key : EnqueueFlagOp(r, l) BY <2>1, EnqueueKeyStep
  <2>2. CASE \E r \in Req, l \in Key : EnqueueFails(r, l)
    BY <2>2, NoWriteKeyStep DEF EnqueueFails
  <2> QED BY <1>3, <2>1, <2>2 DEF Handler
<1>4. CASE \E l \in Key : RemoteChange(l)
  <2>1. PICK l \in Key : RemoteChange(l) BY <1>4
  <2>2. CASE k = l BY <2>1, <2>2 DEF RemoteChange, KeyStep, Phase
  <2>3. CASE k # l BY <2>1, <2>3, KeyRests DEF RemoteChange, HasRow, Wish, IInv, TypeOK
  <2> QED BY <2>2, <2>3
<1>5. CASE ReceiveFlush \/ BeginCycle \/ SnapshotOps \/ RecordFails \/ FlushDone
  BY <1>5, NoWriteKeyStep DEF ReceiveFlush, BeginCycle, SnapshotOps, RecordFails, FlushDone
<1>6. CASE PushFlag \/ RecordOutcome BY <1>6, PushKeyStep, RecordKeyStep
<1>7. CASE ReadPending \/ ReadPendingFails \/ FetchFlags \/ ReadStored \/ FetchChunk
  BY <1>7, NoWriteKeyStep DEF ReadPending, ReadPendingFails, FetchFlags, ReadStored, FetchChunk
<1>8. CASE ApplyFlags \/ PersistMetadata BY <1>8, ApplyKeyStep, PersistKeyStep
<1>9. CASE \/ ReapplyPending("seen", "reapply_seen", "reapply_flagged")
           \/ ReapplyPending("flagged", "reapply_flagged", "idle")
  BY <1>9, ReapplyKeyStep
<1>10. CASE CycleInterrupted \/ Restart
  BY <1>10, NoWriteKeyStep DEF CycleInterrupted, Restart
<1>11. CASE UNCHANGED vars BY <1>11, NoWriteKeyStep DEF vars
<1> QED
  BY <1>1, <1>2, <1>3, <1>4, <1>5, <1>6, <1>7, <1>8, <1>9, <1>10, <1>11
  DEF Next, FlushStep, FolderStep

\* FlagOutbox implements OutboxIntent, for every folder, any number of requests and
\* every retry budget: an accepted change stands until the server has it, and no value
\* but the one that waits is pushed, unless a named event excuses it (enqueue_flag_op,
\* flush_pending_flags, reconcile_flags).
THEOREM IntentKept == Spec => OutboxKeepsIntent
<1>1. Init => Intent!Init
  <2> SUFFICES ASSUME Init PROVE Intent!Init OBVIOUS
  <2>1. \A k \in Key : Phase(k) = "done" /\ Wish(k) = local[k]
    BY DEF Init, Phase, Wish, HasRow
  <2> QED BY <2>1 DEF Init, Intent!Init
<1>2. IInv /\ [Next]_vars => [Intent!Next]_(Intent!intent)
  <2> SUFFICES ASSUME IInv, [Next]_vars, NEW k \in Key
               PROVE  \/ Intent!Excuse(k) \/ Intent!Accept(k) \/ Intent!Deliver(k)
                      \/ Intent!Confirm(k) \/ Intent!Rest(k)
    BY DEF Intent!Next
  <2>1. KeyStep(k) BY NextKeyStep
  <2> QED
    BY <2>1 DEF KeyStep, Intent!Excuse, Intent!Accept, Intent!Deliver, Intent!Confirm, Intent!Rest
<1> QED BY <1>1, <1>2, Invariance, PTL DEF Spec, OutboxKeepsIntent, Intent!Spec
=============================================================================
